------------------------------- MODULE RulesProofs -------------------------------
(***************************************************************************)
(* Proofs about the rules that change no state: evaluations and            *)
(* simulations of policies, plans and jobs of integrations, tokens, grants *)
(* and contexts, and the contract of a proposal.  What each rule promises  *)
(* is proved for every input, of whatever size; then it holds in every     *)
(* state of RuleInputs, whatever inputs are picked.                        *)
(***************************************************************************)
EXTENDS ExposureInputs, WellFoundedInduction, FiniteSetTheorems, SequenceTheorems, TLAPS

(* A non-empty set of numbers has a least one. *)
LEMMA LeastExists ==
    ASSUME NEW S \in SUBSET Nat, S # {}
    PROVE  Least(S) \in S /\ \A n \in S : Least(S) <= n
<1>1. \E n \in S : \A m \in S : n <= m
  <2>1. PICK n \in S : \A m \in S : <<m, n>> \notin OpToRel(<, Nat)
    BY NatLessThanWellFounded, WFMin, Zenon
  <2>2. \A m \in S : ~(m < n)
    BY <2>1 DEF OpToRel
  <2> QED BY <2>2
<1> QED BY <1>1 DEF Least

(* A limit is a test of one of the terms. *)
LEMMA LimitTests ==
    ASSUME NEW limit \in Limits
    PROVE  /\ limit.type.field \in TermFields
           /\ limit.type.op \in {"gte", "lte"}
           /\ limit.value \in Nat
           /\ TestOf(limit) = [field |-> limit.type.field, op |-> limit.type.op,
                               value |-> limit.value]
  BY DEF Limits, LimitTypes, TermFields, TestOf

(* The ways in which an evaluation ends *)
LEMMA EvaluationEnds ==
    ASSUME NEW policy \in Policies, NEW catalog, NEW values \in Values
    PROVE  LET issues == Issues(policy, values)
               triggered == Triggered(policy, values)
               outcomes == OutcomesOf(triggered)
               result == Evaluate(policy, catalog, values)
           IN \/ \E more \in SUBSET {Issue("no_policy_rule_triggered", None),
                                     Issue("conflicting_policy_rule_outcomes", None),
                                     Issue("approve_with_changes_adjustment_not_available", None)},
                    mayReject \in BOOLEAN :
                    /\ issues \cup more # {}
                    /\ result = Fallback(policy, catalog, issues \cup more, triggered, mayReject)
              \/ /\ outcomes = {Adjust}
                 /\ MissingIssues(issues) = {}
                 /\ CanAdjust(policy, values)
                 /\ \A issue \in issues : issue.code = "policy_limit_not_satisfied"
                 /\ result = Follow(catalog, triggered, Adjust, issues)
              \/ /\ issues = {}
                 /\ \E outcome \in outcomes :
                       outcomes = {outcome} /\ result = Follow(catalog, triggered, outcome, {})
<1> DEFINE issues == Issues(policy, values)
           triggered == Triggered(policy, values)
           outcomes == OutcomesOf(triggered)
           result == Evaluate(policy, catalog, values)
           OnlyLimits == \A issue \in issues : issue.code = "policy_limit_not_satisfied"
           extra == {Issue("no_policy_rule_triggered", None),
                     Issue("conflicting_policy_rule_outcomes", None),
                     Issue("approve_with_changes_adjustment_not_available", None)}
<1>1. CASE triggered = {} \/ MissingIssues(issues) # {} \/ \E one, other \in outcomes : one # other
  <2>1. \/ result = Fallback(policy, catalog, issues \cup {Issue("no_policy_rule_triggered", None)},
                             triggered, FALSE)
        \/ /\ MissingIssues(issues) # {}
           /\ result = Fallback(policy, catalog, issues \cup {}, triggered, FALSE)
        \/ result = Fallback(policy, catalog,
                             issues \cup {Issue("conflicting_policy_rule_outcomes", None)},
                             triggered, FALSE)
    BY <1>1 DEF Evaluate
  <2>2. MissingIssues(issues) # {} => issues # {}
    BY DEF MissingIssues
  <2> QED BY <2>1, <2>2
<1>2. CASE /\ triggered # {} /\ MissingIssues(issues) = {}
           /\ \A one, other \in outcomes : one = other
  <2>1. PICK outcome \in outcomes : outcomes = {outcome}
    BY <1>2 DEF OutcomesOf
  <2>2. outcome = CHOOSE o \in outcomes : TRUE
    BY <2>1
  <2>3. CASE outcome = Adjust
    <3>1. outcomes = {Adjust}
      BY <2>1, <2>3
    <3>2. CASE ~CanAdjust(policy, values) \/ ~OnlyLimits
      <4>1. result = Fallback(policy, catalog,
                issues \cup (IF issues = {}
                             THEN {Issue("approve_with_changes_adjustment_not_available", None)}
                             ELSE {}), triggered, issues # {})
        BY <1>2, <3>1, <3>2 DEF Evaluate
      <4> QED BY <4>1
    <3>3. CASE CanAdjust(policy, values) /\ OnlyLimits
      BY <1>2, <3>1, <3>3 DEF Evaluate
    <3> QED BY <3>2, <3>3
  <2>4. CASE outcome # Adjust /\ issues # {}
    <3>1. result = Fallback(policy, catalog, issues \cup {}, triggered, TRUE)
      BY <1>2, <2>1, <2>4 DEF Evaluate
    <3> QED BY <2>4, <3>1
  <2>5. CASE outcome # Adjust /\ issues = {}
    <3>1. result = Follow(catalog, triggered, outcome, {})
      BY <1>2, <2>1, <2>2, <2>5 DEF Evaluate
    <3> QED BY <2>1, <2>5, <3>1
  <2> QED BY <2>3, <2>4, <2>5
<1> QED BY <1>1, <1>2

(* A fallback asks for data, rejects or is unable to decide. *)
LEMMA FallbackEnds ==
    ASSUME NEW policy \in Policies, NEW catalog, NEW issues, NEW triggered,
           NEW mayReject \in BOOLEAN
    PROVE  LET result == Fallback(policy, catalog, issues, triggered, mayReject)
               action == policy.fallback.action
               codes == RejectCodes(policy, triggered)
               required == RequiredOf(issues)
           IN \/ /\ action = AskData /\ required # {}
                 /\ result = Result(catalog, AskData, triggered, {}, issues, action, required)
              \/ /\ action = "reject_by_policy" /\ codes # {}
                 /\ result = Result(catalog, Reject, triggered, codes, issues, action, {})
              \/ result = Result(catalog, Unable, triggered, {}, issues, action, required)
  BY DEF Fallback

(* No issue of the policy is open: every criterion and every limit is met. *)
LEMMA NoIssues ==
    ASSUME NEW policy \in Policies, NEW values \in Values
    PROVE  /\ CriterionIssues(policy, values) = {} =>
                  \A criterion \in policy.criteria : Passes(criterion, values)
           /\ LimitIssues(policy, values) = {} =>
                  \A limit \in policy.limits : Passes(TestOf(limit), values)
  BY DEF CriterionIssues, LimitIssues, Policies

(* Approved proposals are within their policy. *)
THEOREM ApprovalsAreWithinPolicy ==
    \A policy \in Policies, values \in Values : \A catalog :
        ApprovedWithinPolicy(policy, catalog, values)
<1> SUFFICES ASSUME NEW policy \in Policies, NEW catalog, NEW values \in Values,
                    Evaluate(policy, catalog, values).outcome = Approve
             PROVE  /\ \A criterion \in policy.criteria : Passes(criterion, values)
                    /\ \A limit \in policy.limits : Passes(TestOf(limit), values)
                    /\ \A rule \in policy.rules :
                           Passes(rule.test, values) => rule.outcome = Approve
                    /\ \E rule \in policy.rules : Passes(rule.test, values)
  BY DEF ApprovedWithinPolicy
<1> DEFINE issues == Issues(policy, values)
           triggered == Triggered(policy, values)
           outcomes == OutcomesOf(triggered)
           result == Evaluate(policy, catalog, values)
<1>1. \A more : \A mayReject \in BOOLEAN :
         result # Fallback(policy, catalog, issues \cup more, triggered, mayReject)
  BY FallbackEnds DEF Result, Approve, AskData, Reject, Unable
<1>2. result # Follow(catalog, triggered, Adjust, issues)
  BY DEF Follow, Result, Approve, Adjust
<1>3. /\ issues = {}
      /\ \E outcome \in outcomes :
            outcomes = {outcome} /\ result = Follow(catalog, triggered, outcome, {})
  BY <1>1, <1>2, EvaluationEnds
<1>4. outcomes = {Approve}
  BY <1>3 DEF Follow, Result
<1>5. /\ \A criterion \in policy.criteria : Passes(criterion, values)
      /\ \A limit \in policy.limits : Passes(TestOf(limit), values)
  BY <1>3, NoIssues DEF Issues
<1> QED BY <1>4, <1>5 DEF OutcomesOf, Triggered

(* Rejections give grounds that a rule that applies has. *)
THEOREM RejectionsNameGrounds ==
    \A policy \in Policies, values \in Values : \A catalog :
        RejectionsHaveGrounds(policy, catalog, values)
<1> SUFFICES ASSUME NEW policy \in Policies, NEW catalog, NEW values \in Values,
                    Evaluate(policy, catalog, values).outcome = Reject
             PROVE  LET result == Evaluate(policy, catalog, values) IN
                    /\ result.codes # {}
                    /\ \A code \in result.codes : \E rule \in policy.rules :
                          Passes(rule.test, values) /\ rule.outcome = Reject /\ code \in rule.codes
  BY DEF RejectionsHaveGrounds
<1> DEFINE issues == Issues(policy, values)
           triggered == Triggered(policy, values)
           outcomes == OutcomesOf(triggered)
           result == Evaluate(policy, catalog, values)
<1>1. result # Follow(catalog, triggered, Adjust, issues)
  BY DEF Follow, Result, Reject, Adjust
<1>2. ASSUME NEW more, NEW mayReject \in BOOLEAN,
             result = Fallback(policy, catalog, issues \cup more, triggered, mayReject)
      PROVE  result.codes = RejectCodes(policy, triggered) /\ result.codes # {}
  <2> DEFINE all == issues \cup more
             action == policy.fallback.action
             codes == RejectCodes(policy, triggered)
             required == RequiredOf(all)
  <2>1. \/ result = Result(catalog, AskData, triggered, {}, all, action, required)
        \/ codes # {} /\ result = Result(catalog, Reject, triggered, codes, all, action, {})
        \/ result = Result(catalog, Unable, triggered, {}, all, action, required)
    <3> HIDE DEF issues, triggered, result
    <3> QED BY <1>2, FallbackEnds
  <2>2. result.outcome = Reject
    OBVIOUS
  <2> HIDE DEF result, codes, required, all, action
  <2>3. \/ result.outcome = AskData
        \/ codes # {} /\ result.codes = codes
        \/ result.outcome = Unable
    BY <2>1 DEF Result
  <2>4. codes # {} /\ result.codes = codes
    BY <2>2, <2>3 DEF AskData, Reject, Unable
  <2> QED BY <2>4 DEF codes
<1>3. ASSUME NEW outcome \in outcomes, outcomes = {outcome},
             result = Follow(catalog, triggered, outcome, {})
      PROVE  outcomes = {Reject} /\ result.codes = CodesOf(triggered)
  BY <1>3 DEF Follow, Result
<1>4. \/ result.codes = RejectCodes(policy, triggered) /\ result.codes # {}
      \/ outcomes = {Reject} /\ result.codes = CodesOf(triggered)
  BY <1>1, <1>2, <1>3, EvaluationEnds
<1>5. CASE result.codes = RejectCodes(policy, triggered) /\ result.codes # {}
  BY <1>5 DEF RejectCodes, CodesOf, Triggered
<1>6. CASE outcomes = {Reject} /\ result.codes = CodesOf(triggered)
  <2>1. PICK rule \in triggered : TRUE
    BY <1>6 DEF OutcomesOf
  <2>2. rule \in Rules
    BY DEF Triggered, Policies
  <2>3. rule.codes # {}
    BY <2>2 DEF Rules
  <2>4. PICK code \in rule.codes : TRUE
    BY <2>3
  <2>5. code \in result.codes
    BY <1>6, <2>1, <2>4 DEF CodesOf
  <2>6. \A one \in triggered :
           one.outcome = Reject /\ one \in policy.rules /\ Passes(one.test, values)
    BY <1>6 DEF OutcomesOf, Triggered
  <2> QED BY <1>6, <2>5, <2>6 DEF CodesOf
<1> QED BY <1>4, <1>5, <1>6

(* Adjusted terms are numbers, none greater than what was asked for. *)
LEMMA AdjustedTerms ==
    ASSUME NEW policy \in Policies, NEW values \in Values, Complete(values),
           NEW field \in TermFields
    PROVE  LET adjusted == Adjusted(policy, Requested(values)) IN
           /\ adjusted[field] \in Nat
           /\ adjusted[field] <= values[field]
<1> DEFINE maxima == Maxima(policy, field)
           numbers == {values[field]} \cup maxima
<1>1. values[field] \in Nat
  BY DEF Values, Complete, TermFields, Fields
<1>2. maxima \subseteq Nat
  BY DEF Maxima, Policies, Limits
<1>3. Least(numbers) \in numbers /\ \A n \in numbers : Least(numbers) <= n
  <2>1. numbers \in SUBSET Nat /\ numbers # {}
    BY <1>1, <1>2
  <2> HIDE DEF numbers
  <2> QED BY <2>1, LeastExists
<1>4. Adjusted(policy, Requested(values))[field] = Least(numbers)
  BY DEF Adjusted, Requested
<1> QED BY <1>1, <1>2, <1>3, <1>4

(* The evaluation that approves with changes *)
LEMMA AdjustmentEnds ==
    ASSUME NEW policy \in Policies, NEW catalog, NEW values \in Values,
           Evaluate(policy, catalog, values).outcome = Adjust
    PROVE  LET result == Evaluate(policy, catalog, values) IN
           /\ \A criterion \in policy.criteria : Passes(criterion, values)
           /\ CanAdjust(policy, values)
<1> DEFINE issues == Issues(policy, values)
           triggered == Triggered(policy, values)
           outcomes == OutcomesOf(triggered)
           result == Evaluate(policy, catalog, values)
           OnlyLimits == \A issue \in issues : issue.code = "policy_limit_not_satisfied"
<1>1. \A more : \A mayReject \in BOOLEAN :
         result # Fallback(policy, catalog, issues \cup more, triggered, mayReject)
  BY FallbackEnds DEF Result, Adjust, AskData, Reject, Unable
<1>2. ASSUME NEW outcome \in outcomes, issues = {}, outcomes = {outcome},
             result = Follow(catalog, triggered, outcome, {})
      PROVE  outcomes = {Adjust} /\ triggered # {} /\ MissingIssues(issues) = {}
  BY <1>2 DEF Follow, Result, OutcomesOf, MissingIssues
<1>3. /\ CanAdjust(policy, values)
      /\ \A issue \in issues : issue.code = "policy_limit_not_satisfied"
  <2>1. ASSUME outcomes = {Adjust}, triggered # {}, MissingIssues(issues) = {},
               ~CanAdjust(policy, values) \/ ~OnlyLimits
        PROVE  FALSE
    <3>1. result = Fallback(policy, catalog,
                issues \cup (IF issues = {}
                             THEN {Issue("approve_with_changes_adjustment_not_available", None)}
                             ELSE {}), triggered, issues # {})
      BY <2>1 DEF Evaluate
    <3> QED BY <1>1, <3>1
  <2> QED BY <1>1, <1>2, <2>1, EvaluationEnds
<1>4. CriterionIssues(policy, values) = {}
  BY <1>3 DEF Issues, CriterionIssues, Issue
<1> QED BY <1>3, <1>4, NoIssues

(* Approvals with changes offer less than was asked for, within every limit. *)
THEOREM AdjustmentsAreWithinLimits ==
    \A policy \in Policies, values \in Values : \A catalog :
        AdjustedWithinLimits(policy, catalog, values)
<1> SUFFICES ASSUME NEW policy \in Policies, NEW catalog, NEW values \in Values,
                    Evaluate(policy, catalog, values).outcome = Adjust
             PROVE  AdjustedWithinLimits(policy, catalog, values)
  BY DEF AdjustedWithinLimits
<1> DEFINE adjusted == Adjusted(policy, Requested(values))
           terms == TermsOf(policy, values, Adjust)
<1>1. \A criterion \in policy.criteria : Passes(criterion, values)
  BY AdjustmentEnds
<1>2. /\ CanAdjust(policy, values)
      /\ Complete(values)
      /\ adjusted # Requested(values)
      /\ SatisfyLimits(policy, adjusted)
  BY AdjustmentEnds DEF CanAdjust
<1>3. terms = adjusted
  BY <1>2 DEF TermsOf, Adjust, Approve
<1>4. \A field \in TermFields : adjusted[field] <= values[field]
  BY <1>2, AdjustedTerms
<1>5. adjusted # None
  <2>1. adjusted \in [TermFields -> Nat]
    BY <1>2, AdjustedTerms DEF Adjusted
  <2> QED BY <2>1, ConstantsAssumption DEF TermFields
<1> QED BY <1>1, <1>2, <1>3, <1>4, <1>5 DEF AdjustedWithinLimits, SatisfyLimits

-----------------------------------------------------------------------------
(* A rule that applies is one of the policy's and has codes; the policy's     *)
(* references hold them for its outcome.                                      *)
LEMMA TriggeredCodes ==
    ASSUME NEW policy \in Policies, NEW values \in Values, NEW outcome,
           OutcomesOf(Triggered(policy, values)) = {outcome}
    PROVE  LET codes == CodesOf(Triggered(policy, values)) IN
           /\ codes # {}
           /\ codes \subseteq Codes
           /\ \A code \in codes : [outcome |-> outcome, code |-> code] \in ReferencesOf(policy)
<1> DEFINE triggered == Triggered(policy, values)
           codes == CodesOf(triggered)
<1>1. \A rule \in triggered :
         /\ rule \in policy.rules
         /\ rule.outcome = outcome
         /\ rule.codes # {}
         /\ rule.codes \subseteq Codes
  BY DEF Triggered, OutcomesOf, Policies, Rules
<1>2. PICK rule \in triggered : TRUE
  BY DEF OutcomesOf
<1>3. PICK code \in rule.codes : TRUE
  BY <1>1
<1>4. code \in codes
  BY <1>3 DEF CodesOf
<1>5. \A one \in codes : \E other \in policy.rules : other.outcome = outcome /\ one \in other.codes
  BY <1>1 DEF CodesOf
<1>6. \A one \in codes : [outcome |-> outcome, code |-> one] \in ReferencesOf(policy)
  BY <1>5 DEF ReferencesOf
<1>7. codes \subseteq Codes
  BY <1>1 DEF CodesOf
<1> QED BY <1>4, <1>6, <1>7

LEMMA FallbackCodes ==
    ASSUME NEW policy \in Policies, NEW triggered
    PROVE  LET codes == RejectCodes(policy, triggered) IN
           /\ codes \subseteq Codes
           /\ \A code \in codes : [outcome |-> Reject, code |-> code] \in ReferencesOf(policy)
<1>1. policy.fallback.codes \subseteq Codes
  BY DEF Policies, Fallbacks
<1> QED BY <1>1 DEF RejectCodes, ReferencesOf

(* Complete terms are no None. *)
LEMMA TermsRequested ==
    ASSUME NEW values \in Values, Complete(values)
    PROVE  Requested(values) # None
<1>1. Requested(values) \in [TermFields -> Nat]
  BY DEF Requested, Complete, Values, Fields
<1> QED BY <1>1, ConstantsAssumption DEF TermFields

(* Whatever a valid policy makes of a proposal, a decision can be made of it  *)
(* and explained to whoever may see all codes.                                *)
THEOREM EvaluationsCanDecide ==
    \A policy \in Policies, values \in Values : \A catalog :
        EvaluationsDecide(policy, catalog, values)
<1> SUFFICES ASSUME NEW policy \in Policies, NEW catalog, NEW values \in Values,
                    ValidFor(policy, catalog),
                    Complete(values) \/ Evaluate(policy, catalog, values).outcome # Approve
             PROVE  LET result == Evaluate(policy, catalog, values) IN
                    Decides(policy, catalog, values, result) /\ Explains(result, Codes)
  BY DEF EvaluationsDecide
<1> DEFINE issues == Issues(policy, values)
           triggered == Triggered(policy, values)
           outcomes == OutcomesOf(triggered)
           result == Evaluate(policy, catalog, values)
<1>1. \/ \E more, mayReject :
            /\ mayReject \in BOOLEAN
            /\ issues \cup more # {}
            /\ result = Fallback(policy, catalog, issues \cup more, triggered, mayReject)
      \/ \E outcome, open :
            outcomes = {outcome} /\ result = Follow(catalog, triggered, outcome, open)
  BY EvaluationEnds
<1> USE DEF Result, Approve, Adjust, Reject, AskData, Unable, Final
<1>2. ASSUME NEW more, NEW mayReject \in BOOLEAN, issues \cup more # {},
             result = Fallback(policy, catalog, issues \cup more, triggered, mayReject)
      PROVE  Decides(policy, catalog, values, result) /\ Explains(result, Codes)
  <2> DEFINE codes == RejectCodes(policy, triggered)
             action == policy.fallback.action
             required == RequiredOf(issues \cup more)
  <2>1. \/ required # {} /\ result = Result(catalog, AskData, triggered, {},
                                            issues \cup more, action, required)
        \/ codes # {} /\ result = Result(catalog, Reject, triggered, codes,
                                         issues \cup more, action, {})
        \/ result = Result(catalog, Unable, triggered, {}, issues \cup more, action, required)
    BY <1>2, FallbackEnds
  <2>2. CASE result.outcome = Reject
    <3>1. codes # {} /\ result.codes = codes
      BY <2>1, <2>2
    <3>2. codes \subseteq Codes
      BY FallbackCodes
    <3>3. \A code \in codes : Answers(catalog, [outcome |-> Reject, code |-> code])
      BY FallbackCodes DEF ValidFor
    <3> QED BY <2>2, <3>1, <3>2, <3>3 DEF Decides, Explains, Visible
  <2>3. CASE result.outcome # Reject
    <3>1. /\ result.codes = {}
          /\ result.outcome \in {AskData, Unable}
          /\ result.issues = issues \cup more
      BY <2>1, <2>3
    <3> QED BY <1>2, <3>1 DEF Decides, Explains, Visible, SaysWhy
  <2> QED BY <2>2, <2>3
<1>3. ASSUME NEW outcome, NEW open, outcomes = {outcome},
             result = Follow(catalog, triggered, outcome, open)
      PROVE  Decides(policy, catalog, values, result) /\ Explains(result, Codes)
  <2>1. result.outcome = outcome /\ result.codes = CodesOf(triggered)
    BY <1>3 DEF Follow
  <2>2. /\ result.codes # {}
        /\ result.codes \subseteq Codes
        /\ \A code \in result.codes : Answers(catalog, [outcome |-> outcome, code |-> code])
    BY <1>3, <2>1, TriggeredCodes DEF ValidFor
  <2>3. CASE outcome = Approve
    <3>1. Complete(values)
      BY <2>1, <2>3
    <3>2. TermsOf(policy, values, Approve) # None
      BY <3>1, TermsRequested DEF TermsOf
    <3> QED BY <2>1, <2>2, <2>3, <3>2 DEF Decides, Explains, Visible
  <2>4. CASE outcome = Adjust
    <3>1. AdjustedWithinLimits(policy, catalog, values)
      BY AdjustmentsAreWithinLimits
    <3>2. TermsOf(policy, values, Adjust) # None
      BY <2>1, <2>4, <3>1 DEF AdjustedWithinLimits
    <3> QED BY <2>1, <2>2, <2>4, <3>2 DEF Decides, Explains, Visible
  <2>5. CASE outcome \notin {Approve, Adjust}
    <3>1. Visible(result, Codes) = result.codes
      BY <2>2 DEF Visible
    <3> QED BY <2>1, <2>2, <2>5, <3>1 DEF Decides, Explains, SaysWhy
  <2> QED BY <2>3, <2>4, <2>5
<1> HIDE DEF issues, triggered, outcomes, result
<1>4. Decides(policy, catalog, values, result) /\ Explains(result, Codes)
  BY <1>1, <1>2, <1>3
<1> QED BY <1>4 DEF result

-----------------------------------------------------------------------------
TestsOf(policy) ==
    policy.criteria \cup {TestOf(limit) : limit \in policy.limits}
                    \cup {rule.test : rule \in policy.rules}

(* The fields an evaluation misses are those some test of the policy needs. *)
LEMMA MissingFields ==
    ASSUME NEW policy \in Policies, NEW values \in Values
    PROVE  RequiredOf(Issues(policy, values)) =
               {test.field : test \in {t \in TestsOf(policy) : Misses(t, values)}}
<1> DEFINE issues == Issues(policy, values)
<1>1. ASSUME NEW test \in TestsOf(policy), Misses(test, values)
      PROVE  test.field \in RequiredOf(issues)
  <2>1. CASE test \in policy.criteria
    <3>1. ~Passes(test, values)
      BY <1>1 DEF Misses, Needs, Passes
    <3>2. Issue("missing_criterion_field", test.field) \in issues
      BY <1>1, <2>1, <3>1 DEF Issues, CriterionIssues
    <3> QED BY <3>2 DEF RequiredOf, MissingIssues, MissingCodes, Issue
  <2>2. ASSUME NEW limit \in policy.limits, test = TestOf(limit)
        PROVE  test.field \in RequiredOf(issues)
    <3>1. ~Passes(test, values) /\ test.field = limit.type.field
      BY <1>1, <2>2 DEF Misses, Needs, Passes, TestOf
    <3>2. Issue("missing_limit_field", test.field) \in issues
      BY <1>1, <2>2, <3>1 DEF Issues, LimitIssues
    <3> QED BY <3>2 DEF RequiredOf, MissingIssues, MissingCodes, Issue
  <2>3. ASSUME NEW rule \in policy.rules, test = rule.test
        PROVE  test.field \in RequiredOf(issues)
    <3>1. Issue("missing_rule_field", test.field) \in issues
      BY <1>1, <2>3 DEF Issues, RuleIssues
    <3> QED BY <3>1 DEF RequiredOf, MissingIssues, MissingCodes, Issue
  <2> QED BY <2>1, <2>2, <2>3 DEF TestsOf
<1>2. ASSUME NEW issue \in MissingIssues(issues)
      PROVE  \E test \in TestsOf(policy) : Misses(test, values) /\ issue.field = test.field
  <2>1. issue \in issues /\ issue.code \in MissingCodes
    BY DEF MissingIssues
  <2>2. CASE issue \in CriterionIssues(policy, values)
    <3>1. PICK test \in policy.criteria :
             issue = Issue(IF Misses(test, values) THEN "missing_criterion_field"
                           ELSE "policy_criterion_not_satisfied", test.field)
      BY <2>2 DEF CriterionIssues
    <3> QED BY <2>1, <3>1 DEF Issue, MissingCodes, TestsOf
  <2>3. CASE issue \in LimitIssues(policy, values)
    <3>1. PICK limit \in policy.limits :
             issue = Issue(IF Misses(TestOf(limit), values) THEN "missing_limit_field"
                           ELSE "policy_limit_not_satisfied", limit.type.field)
      BY <2>3 DEF LimitIssues
    <3>2. Misses(TestOf(limit), values) /\ issue.field = TestOf(limit).field
      BY <2>1, <3>1 DEF Issue, MissingCodes, TestOf
    <3>3. TestOf(limit) \in TestsOf(policy)
      BY DEF TestsOf
    <3> QED BY <3>2, <3>3
  <2>4. CASE issue \in RuleIssues(policy, values)
    <3>1. PICK rule \in policy.rules :
             Misses(rule.test, values) /\ issue = Issue("missing_rule_field", rule.test.field)
      BY <2>4 DEF RuleIssues
    <3> QED BY <3>1 DEF Issue, TestsOf
  <2> QED BY <2>1, <2>2, <2>3, <2>4 DEF Issues
<1> QED BY <1>1, <1>2 DEF RequiredOf

(* What evaluations add to the issues of the policy is no missing field. *)
LEMMA EvaluationMisses ==
    ASSUME NEW policy \in Policies, NEW catalog, NEW values \in Values,
           MissingIssues(Issues(policy, values)) = {}
    PROVE  MissingIssues(Evaluate(policy, catalog, values).issues) = {}
<1> DEFINE issues == Issues(policy, values)
           triggered == Triggered(policy, values)
           result == Evaluate(policy, catalog, values)
           extra == {Issue("no_policy_rule_triggered", None),
                     Issue("conflicting_policy_rule_outcomes", None),
                     Issue("approve_with_changes_adjustment_not_available", None)}
<1>1. ASSUME NEW more \in SUBSET extra, NEW mayReject \in BOOLEAN,
             result = Fallback(policy, catalog, issues \cup more, triggered, mayReject)
      PROVE  MissingIssues(result.issues) = {}
  <2>1. result.issues = issues \cup more
    BY <1>1, FallbackEnds DEF Result
  <2>2. \A issue \in more : issue.code \notin MissingCodes
    BY DEF Issue, MissingCodes
  <2> QED BY <2>1, <2>2 DEF MissingIssues
<1>2. ASSUME NEW outcome, NEW open, MissingIssues(open) = {},
             result = Follow(catalog, triggered, outcome, open)
      PROVE  MissingIssues(result.issues) = {}
  BY <1>2 DEF Follow, Result
<1>3. MissingIssues({}) = {}
  BY DEF MissingIssues
<1> QED BY <1>1, <1>2, <1>3, EvaluationEnds

(* Asked for data once: with the fields an evaluation asks for, the next one  *)
(* misses none.                                                               *)
THEOREM DataIsAskedForOnce ==
    \A policy \in Policies, values \in Values, given \in Nat : \A catalog :
        AskedOnce(policy, catalog, values, given)
<1> SUFFICES ASSUME NEW policy \in Policies, NEW values \in Values, NEW given \in Nat, NEW catalog,
                    Evaluate(policy, catalog, values).outcome = AskData
             PROVE  AskedOnce(policy, catalog, values, given)
  BY DEF AskedOnce
<1> DEFINE issues == Issues(policy, values)
           triggered == Triggered(policy, values)
           result == Evaluate(policy, catalog, values)
           required == RequiredOf(issues)
           next == [field \in Fields |-> IF field \in result.required THEN given ELSE values[field]]
<1>1. result.required = required
  <2>1. ASSUME NEW more \in SUBSET {Issue("no_policy_rule_triggered", None),
                                    Issue("conflicting_policy_rule_outcomes", None),
                                    Issue("approve_with_changes_adjustment_not_available", None)},
               NEW mayReject \in BOOLEAN,
               result = Fallback(policy, catalog, issues \cup more, triggered, mayReject)
        PROVE  result.required = required
    <3>1. result.required = RequiredOf(issues \cup more)
      BY <2>1, FallbackEnds DEF Result, AskData, Reject, Unable
    <3>2. \A issue \in more : issue.code \notin MissingCodes
      BY DEF Issue, MissingCodes
    <3>3. MissingIssues(issues \cup more) = MissingIssues(issues)
      BY <3>2 DEF MissingIssues
    <3> QED BY <3>1, <3>3 DEF RequiredOf
  <2>2. result # Follow(catalog, triggered, Adjust, issues)
    BY DEF Follow, Result, Adjust, AskData
  <2>3. ASSUME NEW outcome, issues = {}, result = Follow(catalog, triggered, outcome, {})
        PROVE  result.required = required
    BY <2>3 DEF Follow, Result, RequiredOf, MissingIssues
  <2> QED BY <2>1, <2>2, <2>3, EvaluationEnds
<1>2. required = {test.field : test \in {t \in TestsOf(policy) : Misses(t, values)}}
  BY MissingFields
<1>3. \A field \in required : values[field] = None
  BY <1>2 DEF Misses
<1>4. next \in Values
  BY DEF Values
<1>5. ASSUME NEW test \in TestsOf(policy), test.field \in Fields
      PROVE  ~Misses(test, next)
  <2>1. CASE test.field \in required
    <3>1. next[test.field] \in Nat
      BY <1>1, <1>5, <2>1
    <3> QED BY <3>1, ConstantsAssumption DEF Misses
  <2>2. CASE test.field \notin required
    <3>1. next[test.field] = values[test.field] /\ ~Misses(test, values)
      BY <1>1, <1>2, <1>5, <2>2
    <3> QED BY <3>1 DEF Misses
  <2> QED BY <2>1, <2>2
<1>6. \A test \in TestsOf(policy) : test.field \in Fields
  <2>1. \A test \in Tests : test.field \in Fields
    BY DEF Tests
  <2>2. \A limit \in policy.limits : TestOf(limit).field \in Fields
    BY LimitTests DEF Policies, Fields
  <2>3. policy.criteria \subseteq Tests /\ \A rule \in policy.rules : rule.test \in Tests
    BY DEF Policies, Rules
  <2> QED BY <2>1, <2>2, <2>3 DEF TestsOf
<1> HIDE DEF next
<1>7. MissingIssues(Issues(policy, next)) = {}
  <2>1. RequiredOf(Issues(policy, next)) = {}
    BY <1>4, <1>5, <1>6, MissingFields
  <2> QED BY <2>1 DEF RequiredOf
<1>8. MissingIssues(Evaluate(policy, catalog, next).issues) = {}
  BY <1>4, <1>7, EvaluationMisses
<1> QED BY <1>1, <1>3, <1>8 DEF AskedOnce, next

-----------------------------------------------------------------------------
(* A compatible update keeps every reason that was answered, as it was. *)
LEMMA CompatibleAnswers ==
    ASSUME NEW old, NEW new, NEW reference, Compatible(old, new), Answers(old, reference)
    PROVE  /\ Answers(new, reference)
           /\ new.reasons[reference.code] = old.reasons[reference.code]
  BY DEF Compatible, ReasonsKept, Extends, Answers, Known

(* An update of the catalog of reason codes that is let through without a new *)
(* version changes no evaluation under a policy that was valid.               *)
THEOREM UpdatesChangeNoEvaluation ==
    \A policy \in Policies, values \in Values : \A old, new :
        UpdatesChangeNothing(policy, old, new, values)
<1> SUFFICES ASSUME NEW policy \in Policies, NEW values \in Values, NEW old, NEW new,
                    ValidFor(policy, old), Compatible(old, new)
             PROVE  /\ ValidFor(policy, new)
                    /\ Evaluate(policy, new, values) = Evaluate(policy, old, values)
  BY DEF UpdatesChangeNothing
<1> DEFINE triggered == Triggered(policy, values)
<1>1. ValidFor(policy, new)
  BY CompatibleAnswers DEF ValidFor
<1>2. ASSUME NEW codes, \A code \in codes : \E outcome :
                 [outcome |-> outcome, code |-> code] \in ReferencesOf(policy)
      PROVE  FactorsOf(new, codes) = FactorsOf(old, codes)
  <2>1. \A code \in codes : new.reasons[code] = old.reasons[code]
    <3>1. SUFFICES ASSUME NEW code \in codes
                   PROVE  new.reasons[code] = old.reasons[code]
      OBVIOUS
    <3>2. PICK outcome : [outcome |-> outcome, code |-> code] \in ReferencesOf(policy)
      BY <1>2
    <3>3. Answers(old, [outcome |-> outcome, code |-> code])
      BY <3>2 DEF ValidFor
    <3> QED BY <3>3, CompatibleAnswers
  <2> QED BY <2>1 DEF FactorsOf
<1>3. FactorsOf(new, CodesOf(triggered)) = FactorsOf(old, CodesOf(triggered))
  <2>1. \A code \in CodesOf(triggered) : \E outcome :
            [outcome |-> outcome, code |-> code] \in ReferencesOf(policy)
    <3>1. SUFFICES ASSUME NEW rule \in policy.rules, NEW code \in rule.codes
                   PROVE  [outcome |-> rule.outcome, code |-> code] \in ReferencesOf(policy)
      BY DEF CodesOf, Triggered
    <3> QED BY DEF ReferencesOf
  <2> QED BY <1>2, <2>1
<1>4. FactorsOf(new, RejectCodes(policy, triggered))
          = FactorsOf(old, RejectCodes(policy, triggered))
  BY <1>2, FallbackCodes
<1>5. FactorsOf(new, {}) = FactorsOf(old, {})
  BY DEF FactorsOf
<1>6. \A issues : \A mayReject \in BOOLEAN :
         Fallback(policy, new, issues, triggered, mayReject)
             = Fallback(policy, old, issues, triggered, mayReject)
  BY <1>4, <1>5 DEF Fallback, Result
<1>7. \A outcome, issues :
         Follow(new, triggered, outcome, issues) = Follow(old, triggered, outcome, issues)
  BY <1>3 DEF Follow, Result
<1>8. Evaluate(policy, new, values) = Evaluate(policy, old, values)
  BY <1>6, <1>7 DEF Evaluate
<1> QED BY <1>1, <1>8

-----------------------------------------------------------------------------
(* The factors of a result are those of its codes. *)
LEMMA ResultFactors ==
    ASSUME NEW policy \in Policies, NEW catalog, NEW values \in Values
    PROVE  LET result == Evaluate(policy, catalog, values) IN
           result.factors = FactorsOf(catalog, result.codes)
<1> DEFINE issues == Issues(policy, values)
           triggered == Triggered(policy, values)
           result == Evaluate(policy, catalog, values)
<1>1. \A more : \A mayReject \in BOOLEAN :
         LET fallback == Fallback(policy, catalog, issues \cup more, triggered, mayReject) IN
         fallback.factors = FactorsOf(catalog, fallback.codes)
  BY FallbackEnds DEF Result
<1>2. \A outcome, some :
         LET follow == Follow(catalog, triggered, outcome, some) IN
         follow.factors = FactorsOf(catalog, follow.codes)
  BY DEF Follow, Result
<1>3. \/ \E more : \E mayReject \in BOOLEAN :
            result = Fallback(policy, catalog, issues \cup more, triggered, mayReject)
      \/ \E outcome, some : result = Follow(catalog, triggered, outcome, some)
  BY EvaluationEnds
<1> HIDE DEF issues, triggered, result
<1> QED BY <1>1, <1>2, <1>3 DEF result

(* An explanation tells nothing of the reasons it hides. *)
THEOREM FactorsAreOfShownReasons ==
    \A policy \in Policies, values \in Values : \A catalog, seen :
        FactorsOfShownReasons(policy, catalog, values, seen)
<1> SUFFICES ASSUME NEW policy \in Policies, NEW values \in Values, NEW catalog, NEW seen
             PROVE  FactorsOfShownReasons(policy, catalog, values, seen)
  OBVIOUS
<1> DEFINE result == Evaluate(policy, catalog, values)
<1>1. result.factors = FactorsOf(catalog, result.codes)
  BY ResultFactors
<1>2. result.codes = {} => Visible(result, seen) = result.codes
  BY DEF Visible
<1>3. VisibleFactors(result, catalog, seen) \subseteq FactorsOf(catalog, Visible(result, seen))
  BY <1>1, <1>2 DEF VisibleFactors
<1> QED BY <1>3 DEF FactorsOfShownReasons

-----------------------------------------------------------------------------
(* Where no limit is exceeded there is nothing to adjust. *)
LEMMA NothingToAdjust ==
    ASSUME NEW policy \in Policies, NEW values \in Values,
           \A limit \in policy.limits : Passes(TestOf(limit), values)
    PROVE  ~CanAdjust(policy, values)
<1> SUFFICES ASSUME Complete(values)
             PROVE  Adjusted(policy, Requested(values)) = Requested(values)
  BY DEF CanAdjust
<1>1. ASSUME NEW field \in TermFields
      PROVE  Least({Requested(values)[field]} \cup Maxima(policy, field)) = Requested(values)[field]
  <2> DEFINE term == Requested(values)[field]
             numbers == {term} \cup Maxima(policy, field)
  <2>1. term = values[field] /\ term \in Nat
    BY DEF Requested, Values, Complete, TermFields, Fields
  <2>2. Maxima(policy, field) \subseteq Nat
    BY DEF Maxima, Policies, Limits
  <2>3. ASSUME NEW limit \in policy.limits, limit.type.field = field, limit.type.op = "lte"
        PROVE  term <= limit.value
    <3>1. limit \in Limits /\ TestOf(limit) = [field |-> field, op |-> "lte", value |-> limit.value]
      BY <2>3, LimitTests DEF Policies
    <3>2. Passes(TestOf(limit), values)
      OBVIOUS
    <3>3. Compares("lte", values[field], limit.value)
      BY <3>1, <3>2 DEF Passes
    <3> QED BY <2>1, <3>3 DEF Compares
  <2>4. \A n \in numbers : term <= n
    BY <2>1, <2>3 DEF Maxima
  <2>5. Least(numbers) \in numbers /\ \A n \in numbers : Least(numbers) <= n
    <3>1. numbers \in SUBSET Nat /\ numbers # {}
      BY <2>1, <2>2
    <3> HIDE DEF numbers
    <3> QED BY <3>1, LeastExists
  <2>6. term \in numbers /\ Least(numbers) \in Nat
    BY <2>1, <2>2, <2>5
  <2>7. Least(numbers) <= term /\ term <= Least(numbers)
    BY <2>4, <2>5, <2>6
  <2> QED BY <2>1, <2>6, <2>7
<1> QED BY <1>1 DEF Adjusted, Requested

(* An evaluation without issues is what the rules agree on. *)
LEMMA WithoutIssues ==
    ASSUME NEW policy \in Policies, NEW catalog, NEW values \in Values,
           Evaluate(policy, catalog, values).issues = {}
    PROVE  LET result == Evaluate(policy, catalog, values) IN
           /\ OutcomesOf(Triggered(policy, values)) = {result.outcome}
           /\ result.outcome # Adjust
           /\ result.fallback = None
           /\ result.required = {}
           /\ \A test \in policy.criteria : Passes(test, values)
           /\ \A limit \in policy.limits : Passes(TestOf(limit), values)
<1> DEFINE issues == Issues(policy, values)
           triggered == Triggered(policy, values)
           outcomes == OutcomesOf(triggered)
           result == Evaluate(policy, catalog, values)
<1>1. ASSUME NEW more, issues \cup more # {}, NEW mayReject \in BOOLEAN
      PROVE  result # Fallback(policy, catalog, issues \cup more, triggered, mayReject)
  <2>1. Fallback(policy, catalog, issues \cup more, triggered, mayReject).issues = issues \cup more
    BY FallbackEnds DEF Result
  <2> QED BY <1>1, <2>1
<1>2. \/ outcomes = {Adjust} /\ result = Follow(catalog, triggered, Adjust, issues)
      \/ /\ issues = {}
         /\ \E outcome \in outcomes :
               outcomes = {outcome} /\ result = Follow(catalog, triggered, outcome, {})
  BY <1>1, EvaluationEnds
<1>3. issues = {} /\ outcomes = {result.outcome} /\ result.fallback = None /\ result.required = {}
  BY <1>2 DEF Follow, Result
<1>4. /\ \A test \in policy.criteria : Passes(test, values)
      /\ \A limit \in policy.limits : Passes(TestOf(limit), values)
  BY <1>3, NoIssues DEF Issues
<1>5. result.outcome # Adjust
  BY <1>4, NothingToAdjust, AdjustmentEnds
<1> QED BY <1>3, <1>4, <1>5

(* What publishes a policy is decided by its rules alone. *)
THEOREM CleanSimulationsAreDecidedByRules ==
    \A policy \in Policies : \A catalog, cases :
        (\A i \in DOMAIN cases : cases[i].values \in Values)
            => CleanIsDecidedByRules(policy, catalog, cases)
<1> SUFFICES ASSUME NEW policy \in Policies, NEW catalog, NEW cases,
                    \A i \in DOMAIN cases : cases[i].values \in Values,
                    IsClean(Simulate(policy, catalog, cases))
             PROVE  CleanIsDecidedByRules(policy, catalog, cases)
  BY DEF CleanIsDecidedByRules
<1> DEFINE simulation == Simulate(policy, catalog, cases)
           evaluation(i) == Evaluate(policy, catalog, cases[i].values)
<1>1. DOMAIN simulation.results = DOMAIN cases
  BY DEF Simulate
<1>2. \A i \in DOMAIN cases : simulation.results[i].evaluation = evaluation(i)
  BY DEF Simulate, CaseResult
<1>3. \A i \in DOMAIN cases : evaluation(i).issues = {}
  BY <1>1, <1>2 DEF IsClean, Simulate, IssuesOf
<1>4. ASSUME NEW i \in DOMAIN cases
      PROVE  LET values == cases[i].values IN
             /\ OutcomesOf(Triggered(policy, values)) = {evaluation(i).outcome}
             /\ evaluation(i).outcome # Adjust
             /\ evaluation(i).fallback = None
             /\ evaluation(i).required = {}
             /\ \A test \in policy.criteria : Passes(test, values)
             /\ \A limit \in policy.limits : Passes(TestOf(limit), values)
  BY <1>3, WithoutIssues
<1>5. FallbackCases(simulation) = {}
  BY <1>1, <1>2, <1>4, ConstantsAssumption DEF FallbackCases, Applied, AskData, Unable
<1>6. AskingCases(simulation) = {} /\ CasesWith(simulation, Adjust) = {}
  BY <1>1, <1>2, <1>4 DEF AskingCases, CasesWith
<1> QED BY <1>2, <1>4, <1>5, <1>6 DEF CleanIsDecidedByRules

-----------------------------------------------------------------------------
(* What an answer of an adapter makes of a job *)
LEMMA AnswersOfJobs ==
    ASSUME NEW answer \in AdapterAnswers
    PROVE  /\ FailureClass(answer) = NoItem <=> answer \in {"completed", "partial", "not_found"}
           /\ FailureClass(answer) \in FailureClasses \cup {NoItem}
           /\ FailureClass(answer) # NoItem <=> JobStatus(answer) \in {"failed", "timed_out"}
           /\ JobStatus(answer) = "completed" <=> answer = "completed"
<1>1. answer \in {"completed", "partial", "not_found", "failed", "late", "foreign", "timeout",
                  "denied", "raises"}
  BY DEF AdapterAnswers, ResultStatuses
<1>2. NoItem \notin FailureClasses
  BY ConstantsOfJobs
<1> QED BY <1>1, <1>2 DEF FailureClass, JobStatus, FailureClasses

(* The numbers of an item *)
LEMMA ItemTypes ==
    ASSUME NEW item \in Configurations
    PROVE  /\ item.attempts \in Nat /\ item.attempts >= 1 /\ item.attempts <= 5
           /\ item.attempts \in 1..MaxAttempts /\ MaxAttempts \in Nat
           /\ item.cost \in Nat /\ item.cost <= MaxCost
           /\ item.timeout \in Nat /\ item.timeout >= 50
<1>1. MaxAttempts \in 1..5
  BY ConstantsOfJobs
<1>2. /\ item.attempts \in 1..MaxAttempts
      /\ item.cost \in 0..MaxCost /\ item.timeout \in 50..MaxTimeout
  BY DEF Configurations
<1> QED BY <1>1, <1>2, ConstantsOfJobs

(* A job has a last attempt: the first that is not retried. *)
LEMMA LastAttemptIs ==
    ASSUME NEW item \in Configurations, NEW answers
    PROVE  LET n == LastAttempt(item, answers) IN
           /\ n \in 1..item.attempts
           /\ ~Retried(item, FailureClass(answers[n]), n)
           /\ \A k \in 1..(n - 1) : Retried(item, FailureClass(answers[k]), k)
<1> DEFINE final == {n \in 1..item.attempts : ~Retried(item, FailureClass(answers[n]), n)}
<1>1. item.attempts \in Nat /\ item.attempts >= 1
  BY ItemTypes
<1>2. item.attempts \in final
  BY <1>1 DEF Retried
<1>3. final \in SUBSET Nat /\ final # {}
  BY <1>1, <1>2
<1>4. PICK n \in final : \A m \in final : n <= m
  <2> HIDE DEF final
  <2> QED BY <1>3, LeastExists
<1>5. \A k \in 1..(n - 1) : k \notin final /\ k \in 1..item.attempts
  BY <1>1, <1>4
<1>6. \E m \in 1..item.attempts :
        /\ ~Retried(item, FailureClass(answers[m]), m)
        /\ \A k \in 1..(m - 1) : Retried(item, FailureClass(answers[k]), k)
  BY <1>4, <1>5
<1> QED BY <1>6 DEF LastAttempt

(* The parts of an execution *)
LEMMA PartsOfExecution ==
    ASSUME NEW plan, NEW scenarios, NEW answers
    PROVE  LET execution == Execute(plan, scenarios, answers) IN
           /\ execution.jobs =
                {Job(item, ScenarioOf(scenarios, item), answers[item.class]) :
                    item \in plan.items}
           /\ execution.status = ExecutionStatus(execution.jobs)
           /\ execution.costs = {CostRecord(job) : job \in execution.jobs}
           /\ execution.schedules =
                UNION {Schedules(item, answers[item.class]) : item \in plan.items}
           /\ execution.letters =
                {Letter(job, answers[job.item.class][job.attempts]) :
                    job \in {j \in execution.jobs : j.status \in {"failed", "timed_out"}}}
  BY DEF Execute

(* What a job says of the attempts that were made for its item *)
LEMMA JobsSay ==
    ASSUME NEW plan, NEW scenarios, NEW answers, Answerable(plan.items, answers),
           NEW item \in plan.items
    PROVE  LET n == LastAttempt(item, answers[item.class])
               answer == answers[item.class][n]
               job == Job(item, ScenarioOf(scenarios, item), answers[item.class])
           IN /\ n \in 1..item.attempts
              /\ answer \in AdapterAnswers
              /\ job \in Execute(plan, scenarios, answers).jobs
              /\ job.item = item
              /\ job.attempts = n
              /\ job.status = JobStatus(answer)
              /\ job.status \in {"failed", "timed_out"} <=> FailureClass(answer) # NoItem
              /\ FailureClass(answer) = NoItem => job.result.status = answer
              /\ FailureClass(answer) # NoItem => job.result.scenario = "synthetic_failure"
<1> DEFINE n == LastAttempt(item, answers[item.class])
           answer == answers[item.class][n]
           job == Job(item, ScenarioOf(scenarios, item), answers[item.class])
<1>1. item \in Configurations
  BY DEF Answerable
<1>2. n \in 1..item.attempts
  BY <1>1, LastAttemptIs
<1>3. answer \in AdapterAnswers
  BY <1>2 DEF Answerable
<1>4. job \in Execute(plan, scenarios, answers).jobs
  BY PartsOfExecution
<1>5. /\ job.item = item /\ job.attempts = n /\ job.status = JobStatus(answer)
      /\ job.result = ResultOf(item, ScenarioOf(scenarios, item), answer)
  BY DEF Job
<1>6. job.status \in {"failed", "timed_out"} <=> FailureClass(answer) # NoItem
  BY <1>3, <1>5, AnswersOfJobs
<1> QED BY <1>2, <1>3, <1>4, <1>5, <1>6 DEF ResultOf

(* Every job is for an item, every letter for a job that failed. *)
LEMMA LettersSay ==
    ASSUME NEW plan, NEW scenarios, NEW answers, Answerable(plan.items, answers),
           NEW letter \in Execute(plan, scenarios, answers).letters
    PROVE  \E item \in plan.items :
              LET n == LastAttempt(item, answers[item.class])
                  answer == answers[item.class][n]
              IN /\ FailureClass(answer) # NoItem
                 /\ letter = [class |-> item.class, failure |-> FailureClass(answer),
                              attempts |-> n]
<1> DEFINE jobOf(item) == Job(item, ScenarioOf(scenarios, item), answers[item.class])
<1>1. PICK item \in plan.items :
         /\ jobOf(item).status \in {"failed", "timed_out"}
         /\ letter = Letter(jobOf(item), answers[jobOf(item).item.class][jobOf(item).attempts])
  BY PartsOfExecution
<1> DEFINE n == LastAttempt(item, answers[item.class])
           answer == answers[item.class][n]
<1>2. /\ jobOf(item).item = item /\ jobOf(item).attempts = n
      /\ jobOf(item).status \in {"failed", "timed_out"} <=> FailureClass(answer) # NoItem
  BY JobsSay
<1> QED BY <1>1, <1>2 DEF Letter

(* An item whose last answer is a failure has a dead letter, and no other. *)
LEMMA LettersOfItems ==
    ASSUME NEW plan, NEW scenarios, NEW answers, Answerable(plan.items, answers),
           NEW item \in plan.items
    PROVE  LET n == LastAttempt(item, answers[item.class])
               answer == answers[item.class][n]
               letters == Execute(plan, scenarios, answers).letters
           IN /\ FailureClass(answer) = NoItem => Of(item.class, letters) = {}
              /\ FailureClass(answer) # NoItem =>
                    [class |-> item.class, failure |-> FailureClass(answer), attempts |-> n]
                        \in Of(item.class, letters)
<1> DEFINE n == LastAttempt(item, answers[item.class])
           answer == answers[item.class][n]
           letters == Execute(plan, scenarios, answers).letters
           job == Job(item, ScenarioOf(scenarios, item), answers[item.class])
<1>1. ASSUME NEW letter \in letters, letter.class = item.class
      PROVE  FailureClass(answer) # NoItem
  <2>1. PICK other \in plan.items :
          LET last == LastAttempt(other, answers[other.class]) IN
          /\ FailureClass(answers[other.class][last]) # NoItem
          /\ letter = [class |-> other.class, failure |-> FailureClass(answers[other.class][last]),
                       attempts |-> last]
    BY LettersSay
  <2>2. other = item
    BY <1>1, <2>1 DEF Answerable, OneEach
  <2> QED BY <2>1, <2>2
<1>2. ASSUME FailureClass(answer) # NoItem
      PROVE  [class |-> item.class, failure |-> FailureClass(answer), attempts |-> n]
                \in Of(item.class, letters)
  <2>1. /\ job \in Execute(plan, scenarios, answers).jobs
        /\ job.item = item /\ job.attempts = n
        /\ job.status \in {"failed", "timed_out"} <=> FailureClass(answer) # NoItem
    BY JobsSay
  <2>2. Letter(job, answers[job.item.class][job.attempts]) \in letters
    BY <1>2, <2>1, PartsOfExecution
  <2>3. Letter(job, answers[job.item.class][job.attempts])
           = [class |-> item.class, failure |-> FailureClass(answer), attempts |-> n]
    BY <2>1 DEF Letter
  <2> QED BY <2>2, <2>3 DEF Of
<1> QED BY <1>1, <1>2 DEF Of

(* A job fails for good only when it may not be called again. *)
THEOREM FailuresAreForGood ==
    \A plan, scenarios, answers :
        Answerable(plan.items, answers) => FailuresAreFinal(plan, scenarios, answers)
<1> SUFFICES ASSUME NEW plan, NEW scenarios, NEW answers, Answerable(plan.items, answers),
                    NEW letter \in Execute(plan, scenarios, answers).letters
             PROVE  \/ letter.failure \in {"non_recoverable", "invalid_result"}
                    \/ \E item \in Of(letter.class, plan.items) : letter.attempts = item.attempts
  BY DEF FailuresAreFinal
<1>1. PICK item \in plan.items :
         LET n == LastAttempt(item, answers[item.class])
             answer == answers[item.class][n]
         IN /\ FailureClass(answer) # NoItem
            /\ letter = [class |-> item.class, failure |-> FailureClass(answer), attempts |-> n]
  BY LettersSay
<1> DEFINE n == LastAttempt(item, answers[item.class])
           answer == answers[item.class][n]
<1>2. item \in Configurations /\ answer \in AdapterAnswers
  BY JobsSay DEF Answerable
<1>3. n \in 1..item.attempts /\ ~Retried(item, FailureClass(answer), n)
  BY <1>2, LastAttemptIs
<1>4. FailureClass(answer) \in FailureClasses
  BY <1>1, <1>2, AnswersOfJobs
<1>5. item.attempts \in Nat
  BY <1>2, ItemTypes
<1>6. FailureClass(answer) \in {"non_recoverable", "invalid_result"} \/ n = item.attempts
  BY <1>3, <1>4, <1>5 DEF Retried, FailureClasses
<1> QED BY <1>1, <1>6 DEF Of

(* An execution fails exactly when a class that must not fail does, and is    *)
(* completed only where every last answer is complete.                        *)
THEOREM ExecutionsFailClosed ==
    \A plan, scenarios, answers :
        Answerable(plan.items, answers) => FailsClosed(plan, scenarios, answers)
<1> SUFFICES ASSUME NEW plan, NEW scenarios, NEW answers, Answerable(plan.items, answers)
             PROVE  FailsClosed(plan, scenarios, answers)
  OBVIOUS
<1> DEFINE execution == Execute(plan, scenarios, answers)
           jobs == execution.jobs
           jobOf(item) == Job(item, ScenarioOf(scenarios, item), answers[item.class])
           last(item) == answers[item.class][LastAttempt(item, answers[item.class])]
<1>1. jobs = {jobOf(item) : item \in plan.items} /\ execution.status = ExecutionStatus(jobs)
  BY PartsOfExecution
<1>2. ASSUME NEW item \in plan.items
      PROVE  /\ last(item) \in AdapterAnswers
             /\ jobOf(item).item = item
             /\ jobOf(item).status = JobStatus(last(item))
             /\ jobOf(item).status \in {"failed", "timed_out"}
                    <=> FailureClass(last(item)) # NoItem
  <2> DEFINE n == LastAttempt(item, answers[item.class])
             answer == answers[item.class][n]
             job == Job(item, ScenarioOf(scenarios, item), answers[item.class])
  <2>1. /\ answer \in AdapterAnswers
        /\ job \in Execute(plan, scenarios, answers).jobs
        /\ job.item = item
        /\ job.status = JobStatus(answer)
        /\ job.status \in {"failed", "timed_out"} <=> FailureClass(answer) # NoItem
    BY JobsSay
  <2> QED BY <2>1
<1>3. \A item \in plan.items :
        FailureClass(last(item)) # NoItem <=> Of(item.class, execution.letters) # {}
  BY LettersOfItems
<1>4. \A item \in plan.items :
        FailsExecution(jobOf(item)) <=>
            /\ item.requirement = "required"
            /\ item.fallback = "fail_closed"
            /\ Of(item.class, execution.letters) # {}
  BY <1>2, <1>3 DEF FailsExecution
<1>5. execution.status = "failed" <=> \E job \in jobs : FailsExecution(job)
  BY <1>1 DEF ExecutionStatus
<1>6. execution.status = "failed" <=>
        \E item \in plan.items :
            /\ item.requirement = "required"
            /\ item.fallback = "fail_closed"
            /\ Of(item.class, execution.letters) # {}
  <2> HIDE DEF execution
  <2> QED BY <1>1, <1>4, <1>5
<1>7. ASSUME execution.status = "completed", NEW item \in plan.items
      PROVE  last(item) = "completed"
  <2>1. {job.status : job \in jobs} = {"completed"}
    BY <1>1, <1>7 DEF ExecutionStatus
  <2>2. jobOf(item).status = "completed"
    BY <1>1, <2>1
  <2> QED BY <1>2, <2>2, AnswersOfJobs
<1> QED BY <1>6, <1>7 DEF FailsClosed

(* With the mock adapters a reprocess repeats the failure. *)
THEOREM ReprocessesRepeatFailures ==
    \A plan, scenarios, answers :
        Answerable(plan.items, answers) => ReprocessesFailAgain(plan, scenarios, answers)
<1> SUFFICES ASSUME NEW plan, NEW scenarios, NEW answers, Answerable(plan.items, answers),
                    NEW letter \in Execute(plan, scenarios, answers).letters
             PROVE  \E job \in Execute(plan, scenarios, answers).jobs :
                       /\ job.item.class = letter.class
                       /\ FailureClass(MockAnswer(ScenarioAgain(job))) # NoItem
  BY DEF ReprocessesFailAgain
<1>1. PICK item \in plan.items :
         LET n == LastAttempt(item, answers[item.class])
             answer == answers[item.class][n]
         IN /\ FailureClass(answer) # NoItem
            /\ letter = [class |-> item.class, failure |-> FailureClass(answer), attempts |-> n]
  BY LettersSay
<1> DEFINE job == Job(item, ScenarioOf(scenarios, item), answers[item.class])
<1>2. /\ job \in Execute(plan, scenarios, answers).jobs
      /\ job.item = item
      /\ job.result.scenario = "synthetic_failure"
  BY <1>1, JobsSay
<1>3. MockAnswer("synthetic_failure") = "failed"
  BY DEF MockAnswer
<1>4. FailureClass("failed") # NoItem
  BY AnswersOfJobs DEF AdapterAnswers, ResultStatuses
<1> QED BY <1>1, <1>2, <1>3, <1>4 DEF ScenarioAgain

(* A ready plan covers what was required, with adapters that are allowed. *)
THEOREM ReadyPlansCoverRequired ==
    \A configurations \in SUBSET Configurations, required, others \in SUBSET Classes : \A allowed :
        ReadyPlansCover(configurations, required, others, allowed)
<1> SUFFICES ASSUME NEW configurations \in SUBSET Configurations,
                    NEW required \in SUBSET Classes, NEW others \in SUBSET Classes, NEW allowed,
                    BuildPlan(configurations, required, others, allowed).status = "ready"
             PROVE  ReadyPlansCover(configurations, required, others, allowed)
  BY DEF ReadyPlansCover
<1> DEFINE requested == required \cup others
           items == {c \in configurations : requested = {} \/ c.class \in requested}
           plan == BuildPlan(configurations, required, others, allowed)
<1>1. /\ InvalidClasses(configurations, required, allowed) = {}
      /\ required \ ClassesOf(configurations) = {}
      /\ plan.items = items
  BY DEF BuildPlan, Plan
<1>2. \A c \in configurations :
        <<c.class, c.adapter>> \in allowed /\ MeetsRequirement(c, required)
  BY <1>1 DEF InvalidClasses
<1>3. ASSUME NEW class \in required
      PROVE  \E item \in plan.items :
                item.class = class /\ item.requirement = "required"
                    /\ item.fallback # "skip_optional"
  <2>1. PICK c \in configurations : c.class = class
    BY <1>1 DEF ClassesOf
  <2>2. c \in plan.items
    BY <1>1, <2>1
  <2> QED BY <1>2, <2>1, <2>2 DEF MeetsRequirement
<1>4. \A item \in plan.items : <<item.class, item.adapter>> \in allowed
  BY <1>1, <1>2
<1>5. requested # {} => ClassesOf(plan.items) \subseteq requested
  BY <1>1 DEF ClassesOf
<1> QED BY <1>3, <1>4, <1>5 DEF ReadyPlansCover

-----------------------------------------------------------------------------
(* Backoffs double. *)
LEMMA DoubledIs ==
    /\ Doubled[1] = 250
    /\ \A n \in 2..MaxAttempts : Doubled[n] = 2 * Doubled[n - 1]
<1> DEFINE value(n) == IF n = 1 THEN 250 ELSE IF n = 2 THEN 500
                       ELSE IF n = 3 THEN 1000 ELSE IF n = 4 THEN 2000 ELSE 4000
<1>0. PICK f : f = [n \in 1..MaxAttempts |-> value(n)]
  OBVIOUS
<1>1. MaxAttempts \in 1..5
  BY ConstantsOfJobs
<1>2. ASSUME NEW n \in 1..MaxAttempts
      PROVE  value(n) = IF n = 1 THEN 250 ELSE 2 * f[n - 1]
  <2>1. n # 1 => n - 1 \in 1..MaxAttempts
    BY <1>1
  <2>2. n # 1 => f[n - 1] = value(n - 1)
    BY <1>0, <2>1
  <2>3. n \in {1, 2, 3, 4, 5}
    BY <1>1
  <2> QED BY <2>2, <2>3
<1>3. f = [n \in 1..MaxAttempts |-> IF n = 1 THEN 250 ELSE 2 * f[n - 1]]
  <2> HIDE DEF value
  <2> QED BY <1>0, <1>2
<1>4. Doubled = [n \in 1..MaxAttempts |-> IF n = 1 THEN 250 ELSE 2 * Doubled[n - 1]]
  BY <1>3 DEF Doubled
<1> QED BY <1>1, <1>4

LEMMA DoubledGrows ==
    /\ \A n \in 1..MaxAttempts : Doubled[n] \in Nat /\ Doubled[n] >= 250
    /\ \A n, m \in 1..MaxAttempts : n < m => 2 * Doubled[n] <= Doubled[m]
<1>1. MaxAttempts \in 1..5
  BY ConstantsOfJobs
<1>2. /\ MaxAttempts >= 2 => Doubled[2] = 2 * Doubled[1]
      /\ MaxAttempts >= 3 => Doubled[3] = 2 * Doubled[2]
      /\ MaxAttempts >= 4 => Doubled[4] = 2 * Doubled[3]
      /\ MaxAttempts >= 5 => Doubled[5] = 2 * Doubled[4]
  BY <1>1, DoubledIs
<1>3. /\ Doubled[1] = 250
      /\ MaxAttempts >= 2 => Doubled[2] = 500
      /\ MaxAttempts >= 3 => Doubled[3] = 1000
      /\ MaxAttempts >= 4 => Doubled[4] = 2000
      /\ MaxAttempts >= 5 => Doubled[5] = 4000
  BY <1>1, <1>2, DoubledIs
<1>4. ASSUME NEW n \in 1..MaxAttempts
      PROVE  /\ n \in {1, 2, 3, 4, 5} /\ n <= MaxAttempts
             /\ Doubled[n] = IF n = 1 THEN 250 ELSE IF n = 2 THEN 500
                             ELSE IF n = 3 THEN 1000 ELSE IF n = 4 THEN 2000 ELSE 4000
  <2>1. n \in {1, 2, 3, 4, 5} /\ n <= MaxAttempts
    BY <1>1
  <2> QED BY <1>1, <1>3, <2>1
<1> QED BY <1>4

(* The delays of the attempts of a job grow below its timeout and are bounded. *)
THEOREM DelaysGrowAndEnd ==
    \A plan, scenarios, answers :
        Answerable(plan.items, answers) => DelaysGrow(plan, scenarios, answers)
<1> SUFFICES ASSUME NEW plan, NEW scenarios, NEW answers, Answerable(plan.items, answers)
             PROVE  DelaysGrow(plan, scenarios, answers)
  OBVIOUS
<1> DEFINE schedules == Execute(plan, scenarios, answers).schedules
<1>1. ASSUME NEW one \in schedules
      PROVE  \E item \in plan.items : \E n \in 1..(item.attempts - 1) :
                /\ one.class = item.class
                /\ one.attempt = n
                /\ one.backoff = Backoff(item, n)
  <2>1. PICK item \in plan.items : one \in Schedules(item, answers[item.class])
    BY PartsOfExecution
  <2> DEFINE last == LastAttempt(item, answers[item.class])
  <2>2. PICK n \in 1..(last - 1) :
           one = [class |-> item.class, attempt |-> n, next |-> n + 1, backoff |-> Backoff(item, n)]
    BY <2>1 DEF Schedules
  <2>3. last \in 1..item.attempts /\ item.attempts \in Nat
    BY LastAttemptIs, ItemTypes DEF Answerable
  <2>4. n \in 1..(item.attempts - 1)
    BY <2>3
  <2> QED BY <2>2, <2>4
<1>2. ASSUME NEW item \in plan.items, NEW n \in 1..(item.attempts - 1)
      PROVE  LET backoff == Backoff(item, n) IN
             /\ JitterWindow(backoff) <= backoff
             /\ LongestDelay(backoff) <= item.timeout + 250
             /\ \A m \in 1..(item.attempts - 1) : n < m =>
                    /\ backoff <= Backoff(item, m)
                    /\ Backoff(item, m) < item.timeout =>
                        LongestDelay(backoff) < Backoff(item, m)
  <2>1. /\ item.attempts \in Nat /\ item.attempts \in 1..MaxAttempts /\ MaxAttempts \in Nat
        /\ item.timeout \in Nat /\ item.timeout >= 50
    BY ItemTypes DEF Answerable
  <2>2. \A m \in 1..(item.attempts - 1) : m \in 1..MaxAttempts
    BY <2>1
  <2>3. /\ Doubled[n] \in Nat /\ Doubled[n] >= 250
        /\ \A m \in 1..(item.attempts - 1) :
              Doubled[m] \in Nat /\ (n < m => 2 * Doubled[n] <= Doubled[m])
    BY <2>2, DoubledGrows
  <2>4. ASSUME NEW b \in Nat, b >= 50
        PROVE  JitterWindow(b) < b /\ JitterWindow(b) <= 250 /\ JitterWindow(b) \in Nat
    BY <2>4 DEF JitterWindow, AtMostOf
  <2> DEFINE b == Backoff(item, n)
  <2>5. b \in Nat /\ b >= 50 /\ b <= item.timeout /\ b <= Doubled[n]
    BY <2>1, <2>3 DEF Backoff, AtMostOf
  <2>6. JitterWindow(b) < b /\ JitterWindow(b) <= 250 /\ JitterWindow(b) \in Nat
    BY <2>4, <2>5
  <2>7. ASSUME NEW m \in 1..(item.attempts - 1), n < m
        PROVE  /\ b <= Backoff(item, m)
               /\ Backoff(item, m) < item.timeout => b + b <= Backoff(item, m)
    BY <2>1, <2>3, <2>7 DEF Backoff, AtMostOf
  <2>8. \A m \in 1..(item.attempts - 1) : Backoff(item, m) \in Nat
    BY <2>1, <2>3 DEF Backoff, AtMostOf
  <2> HIDE DEF b
  <2>9. /\ b + JitterWindow(b) <= item.timeout + 250
        /\ b + JitterWindow(b) < b + b
    BY <2>1, <2>5, <2>6
  <2>10. \A m \in 1..(item.attempts - 1) :
            b + b <= Backoff(item, m) => b + JitterWindow(b) < Backoff(item, m)
    BY <2>5, <2>6, <2>8, <2>9
  <2> QED BY <2>5, <2>6, <2>7, <2>9, <2>10 DEF b, LongestDelay
<1>3. ASSUME NEW one \in schedules, NEW item \in Of(one.class, plan.items)
      PROVE  \E n \in 1..(item.attempts - 1) :
                one.attempt = n /\ one.backoff = Backoff(item, n)
  BY <1>1 DEF Of, Answerable, OneEach
<1>4. ASSUME NEW one \in schedules
      PROVE  JitterWindow(one.backoff) <= one.backoff
  BY <1>1, <1>2
<1>5. ASSUME NEW one \in schedules, NEW item \in Of(one.class, plan.items)
      PROVE  /\ LongestDelay(one.backoff) <= item.timeout + 250
             /\ \A other \in Of(one.class, schedules) :
                    one.attempt < other.attempt =>
                        /\ one.backoff <= other.backoff
                        /\ other.backoff < item.timeout =>
                            LongestDelay(one.backoff) < other.backoff
  <2>1. item \in plan.items
    BY DEF Of
  <2>2. PICK n \in 1..(item.attempts - 1) : one.attempt = n /\ one.backoff = Backoff(item, n)
    BY <1>3
  <2>3. \A other \in Of(one.class, schedules) : \E m \in 1..(item.attempts - 1) :
           other.attempt = m /\ other.backoff = Backoff(item, m)
    BY <1>3 DEF Of
  <2> QED BY <1>2, <2>1, <2>2, <2>3
<1> QED BY <1>4, <1>5 DEF DelaysGrow

-----------------------------------------------------------------------------
(* A record of each job: no two jobs have one class. *)
LEMMA CostsAreOfJobs ==
    ASSUME NEW plan, NEW scenarios, NEW answers, Answerable(plan.items, answers)
    PROVE  LET execution == Execute(plan, scenarios, answers) IN
           Cardinality(execution.costs) = Cardinality(execution.jobs)
<1> DEFINE execution == Execute(plan, scenarios, answers)
           jobOf == [item \in plan.items |->
                        Job(item, ScenarioOf(scenarios, item), answers[item.class])]
           recordOf == [job \in execution.jobs |-> CostRecord(job)]
<1>1. execution.jobs = {jobOf[item] : item \in plan.items}
  <2>1. {jobOf[item] : item \in plan.items}
           = {Job(item, ScenarioOf(scenarios, item), answers[item.class]) : item \in plan.items}
    OBVIOUS
  <2>2. execution.jobs
           = {Job(item, ScenarioOf(scenarios, item), answers[item.class]) : item \in plan.items}
    BY PartsOfExecution
  <2> HIDE DEF jobOf, execution
  <2> QED BY <2>1, <2>2
<1>2. IsFiniteSet(execution.jobs)
  <2>1. jobOf \in Surjection(plan.items, execution.jobs)
    <3> HIDE DEF execution
    <3>1. jobOf \in [plan.items -> execution.jobs]
      BY <1>1
    <3>2. \A job \in execution.jobs : \E item \in plan.items : jobOf[item] = job
      BY <1>1
    <3> QED BY <3>1, <3>2 DEF Surjection
  <2>2. IsFiniteSet(plan.items)
    BY DEF Answerable
  <2> HIDE DEF execution, jobOf
  <2> QED BY <2>1, <2>2, FS_Surjection
<1>3. ASSUME NEW one \in execution.jobs, NEW other \in execution.jobs,
             CostRecord(one) = CostRecord(other)
      PROVE  one = other
  <2>1. PICK item \in plan.items : one = jobOf[item]
    BY <1>1
  <2>2. PICK another \in plan.items : other = jobOf[another]
    BY <1>1
  <2>3. one.item = item /\ other.item = another
    BY <2>1, <2>2 DEF Job
  <2>4. one.item.class = other.item.class
    BY <1>3 DEF CostRecord
  <2> QED BY <2>1, <2>2, <2>3, <2>4 DEF Answerable, OneEach
<1>4. execution.costs = {CostRecord(job) : job \in execution.jobs}
  BY PartsOfExecution
<1>5. recordOf \in Bijection(execution.jobs, execution.costs)
  <2> HIDE DEF execution
  <2>1. recordOf \in [execution.jobs -> execution.costs]
    BY <1>4
  <2>2. \A record \in execution.costs : \E job \in execution.jobs : recordOf[job] = record
    BY <1>4
  <2>3. \A one, other \in execution.jobs : recordOf[one] = recordOf[other] => one = other
    BY <1>3
  <2> QED BY <2>1, <2>2, <2>3 DEF Bijection, Surjection, Injection, IsInjective
<1>6. ExistsBijection(execution.jobs, execution.costs)
  BY <1>5 DEF ExistsBijection
<1> HIDE DEF execution
<1> QED BY <1>2, <1>6, FS_Bijection DEF execution

(* The cost of a job is within what a record may hold. *)
LEMMA CostsFit ==
    ASSUME NEW item \in Configurations, NEW n \in 1..item.attempts
    PROVE  item.cost * n \in 0..MaxActualCost
<1>1. /\ item.cost \in Nat /\ item.cost <= MaxCost
      /\ n \in {1, 2, 3, 4, 5} /\ n <= MaxAttempts
  BY ItemTypes
<1>2. /\ MaxAttempts \in {1, 2, 3, 4, 5} /\ MaxCost \in Nat
      /\ MaxActualCost \in Nat /\ MaxActualCost >= MaxAttempts * MaxCost
  BY ConstantsOfJobs
<1> DEFINE cost == item.cost
<1>3. cost \in Nat /\ cost <= MaxCost
  BY <1>1
<1> HIDE DEF cost
<1>4. cost * n \in Nat /\ cost * n <= n * MaxCost
  <2>1. CASE n = 1 BY <1>2, <1>3, <2>1
  <2>2. CASE n = 2 BY <1>2, <1>3, <2>2
  <2>3. CASE n = 3 BY <1>2, <1>3, <2>3
  <2>4. CASE n = 4 BY <1>2, <1>3, <2>4
  <2>5. CASE n = 5 BY <1>2, <1>3, <2>5
  <2> QED BY <1>1, <2>1, <2>2, <2>3, <2>4, <2>5
<1>5. n * MaxCost <= MaxAttempts * MaxCost
  <2>1. CASE MaxAttempts = 1 BY <1>1, <1>2, <2>1
  <2>2. CASE MaxAttempts = 2 BY <1>1, <1>2, <2>2
  <2>3. CASE MaxAttempts = 3 BY <1>1, <1>2, <2>3
  <2>4. CASE MaxAttempts = 4 BY <1>1, <1>2, <2>4
  <2>5. CASE MaxAttempts = 5 BY <1>1, <1>2, <2>5
  <2> QED BY <1>2, <2>1, <2>2, <2>3, <2>4, <2>5
<1>6. MaxAttempts * MaxCost \in Nat /\ n * MaxCost \in Nat
  BY <1>1, <1>2
<1>7. cost * n \in 0..MaxActualCost
  BY <1>2, <1>4, <1>5, <1>6
<1> QED BY <1>7 DEF cost

(* There are n numbers from 1 to n. *)
LEMMA NumbersUpTo ==
    ASSUME NEW n \in Nat
    PROVE  IsFiniteSet(1..n) /\ Cardinality(1..n) = n
<1>1. /\ IsFiniteSet(1..n)
      /\ Cardinality(1..n) = IF 1 > n THEN 0 ELSE n - 1 + 1
  BY FS_Interval
<1>2. (IF 1 > n THEN 0 ELSE n - 1 + 1) = n
  OBVIOUS
<1> QED BY <1>1, <1>2

(* An item has a schedule for every attempt but the last. *)
LEMMA SchedulesOfItems ==
    ASSUME NEW plan, NEW scenarios, NEW answers, Answerable(plan.items, answers),
           NEW item \in plan.items
    PROVE  LET schedules == Execute(plan, scenarios, answers).schedules IN
           Cardinality(Of(item.class, schedules)) = LastAttempt(item, answers[item.class]) - 1
<1> DEFINE n == LastAttempt(item, answers[item.class])
           schedules == Execute(plan, scenarios, answers).schedules
           mine == Of(item.class, schedules)
           schedule(k) == [class |-> item.class, attempt |-> k, next |-> k + 1,
                           backoff |-> Backoff(item, k)]
           f == [k \in 1..(n - 1) |-> schedule(k)]
<1>1. n \in Nat /\ n >= 1
  <2>1. n \in 1..item.attempts
    BY LastAttemptIs DEF Answerable
  <2> QED BY <2>1
<1>2. mine = {schedule(k) : k \in 1..(n - 1)}
  <2>1. ASSUME NEW one \in mine
        PROVE  one \in Schedules(item, answers[item.class])
    <3>1. one \in schedules /\ one.class = item.class
      BY DEF Of
    <3>2. PICK other \in plan.items : one \in Schedules(other, answers[other.class])
      BY <3>1, PartsOfExecution
    <3>3. one.class = other.class
      BY <3>2 DEF Schedules
    <3>4. other = item
      BY <3>1, <3>3 DEF Answerable, OneEach
    <3> QED BY <3>2, <3>4
  <2>2. ASSUME NEW one \in Schedules(item, answers[item.class])
        PROVE  one \in mine
    <3>1. one.class = item.class
      BY DEF Schedules
    <3>2. one \in schedules
      BY PartsOfExecution
    <3> QED BY <3>1, <3>2 DEF Of
  <2>3. mine = Schedules(item, answers[item.class])
    <3> HIDE DEF mine
    <3> QED BY <2>1, <2>2
  <2> QED BY <2>3 DEF Schedules
<1>3. f \in Bijection(1..(n - 1), mine)
  <2> HIDE DEF mine, n
  <2>1. f \in [1..(n - 1) -> mine]
    BY <1>2
  <2>2. \A one \in mine : \E k \in 1..(n - 1) : f[k] = one
    BY <1>2
  <2>3. \A k, m \in 1..(n - 1) : f[k] = f[m] => k = m
    OBVIOUS
  <2> HIDE DEF f
  <2> QED BY <2>1, <2>2, <2>3 DEF Bijection, Surjection, Injection, IsInjective
<1>4. ExistsBijection(1..(n - 1), mine)
  BY <1>3 DEF ExistsBijection
<1>5. IsFiniteSet(1..(n - 1)) /\ Cardinality(1..(n - 1)) = n - 1
  <2> DEFINE m == n - 1
  <2>1. m \in Nat
    BY <1>1
  <2> HIDE DEF m
  <2> QED BY <2>1, NumbersUpTo DEF m
<1>6. Cardinality(mine) = n - 1
  <2> HIDE DEF mine, n
  <2> QED BY <1>4, <1>5, FS_Bijection
<1> QED BY <1>6

(* The calls made are the calls paid for, and each of them has its record. *)
THEOREM CallsAreAccounted ==
    \A plan, scenarios, answers :
        Answerable(plan.items, answers) => CallsAccounted(plan, scenarios, answers)
<1> SUFFICES ASSUME NEW plan, NEW scenarios, NEW answers, Answerable(plan.items, answers)
             PROVE  CallsAccounted(plan, scenarios, answers)
  OBVIOUS
<1> DEFINE execution == Execute(plan, scenarios, answers)
<1>1. ASSUME NEW job \in execution.jobs
      PROVE  /\ job.attempts \in 1..5
             /\ \E record \in Of(job.item.class, execution.costs) :
                   /\ record.calls = job.attempts
                   /\ record.status = job.result.status
                   /\ record.actual = record.estimated * record.calls
                   /\ record.actual \in 0..MaxActualCost
             /\ Cardinality(Of(job.item.class, execution.schedules)) = job.attempts - 1
             /\ \A n \in 1..job.attempts :
                  LET answer == answers[job.item.class][n] IN
                  IF n < job.attempts
                  THEN FailureClass(answer) \in {"recoverable", "timeout"}
                  ELSE IF FailureClass(answer) = NoItem
                  THEN job.result.status = answer /\ Of(job.item.class, execution.letters) = {}
                  ELSE Letter(job, answer) \in execution.letters
  <2>1. PICK item \in plan.items :
           job = Job(item, ScenarioOf(scenarios, item), answers[item.class])
    BY PartsOfExecution
  <2> DEFINE last == LastAttempt(item, answers[item.class])
             final == answers[item.class][last]
  <2>2. /\ last \in 1..item.attempts
        /\ final \in AdapterAnswers
        /\ job \in execution.jobs
        /\ job.item = item
        /\ job.attempts = last
        /\ FailureClass(final) = NoItem => job.result.status = final
    BY <2>1, JobsSay
  <2>3. item \in Configurations
    BY DEF Answerable
  <2>4. job.attempts \in 1..5
    BY <2>2, <2>3, ItemTypes
  <2>5. \E record \in Of(job.item.class, execution.costs) :
           /\ record.calls = job.attempts
           /\ record.status = job.result.status
           /\ record.actual = record.estimated * record.calls
           /\ record.actual \in 0..MaxActualCost
    <3> DEFINE record == CostRecord(job)
    <3>1. record \in execution.costs
      BY PartsOfExecution
    <3>2. /\ record.class = job.item.class /\ record.calls = job.attempts
          /\ record.status = job.result.status
          /\ record.estimated = item.cost
          /\ record.actual = item.cost * job.attempts
      BY <2>2 DEF CostRecord, CostOf
    <3>3. item.cost * job.attempts \in 0..MaxActualCost
      BY <2>2, <2>3, CostsFit
    <3>4. record \in Of(job.item.class, execution.costs)
      BY <3>1, <3>2 DEF Of
    <3> QED BY <3>2, <3>3, <3>4
  <2>6. Cardinality(Of(job.item.class, execution.schedules)) = job.attempts - 1
    BY <2>2, SchedulesOfItems
  <2>7. ASSUME NEW n \in 1..job.attempts, n < job.attempts
        PROVE  FailureClass(answers[job.item.class][n]) \in {"recoverable", "timeout"}
    <3>1. n \in 1..(last - 1)
      BY <2>2, <2>4, <2>7
    <3>2. Retried(item, FailureClass(answers[item.class][n]), n)
      BY <2>3, <3>1, LastAttemptIs
    <3> QED BY <2>2, <3>2 DEF Retried
  <2>8. FailureClass(final) = NoItem =>
            job.result.status = final /\ Of(job.item.class, execution.letters) = {}
    BY <2>2, LettersOfItems
  <2>9. FailureClass(final) # NoItem => Letter(job, final) \in execution.letters
    <3>1. [class |-> item.class, failure |-> FailureClass(final), attempts |-> last]
             = Letter(job, final)
      BY <2>2 DEF Letter
    <3>2. FailureClass(final) # NoItem =>
             [class |-> item.class, failure |-> FailureClass(final), attempts |-> last]
                 \in Of(item.class, execution.letters)
      BY LettersOfItems
    <3> QED BY <3>1, <3>2 DEF Of
  <2>10. \A n \in 1..job.attempts : n < job.attempts \/ n = last
    BY <2>2, <2>4
  <2> HIDE DEF execution
  <2> QED BY <2>2, <2>4, <2>5, <2>6, <2>7, <2>8, <2>9, <2>10
<1>2. Cardinality(execution.costs) = Cardinality(execution.jobs)
  BY CostsAreOfJobs
<1>3. CostsValid(execution)
  <2> HIDE DEF execution
  <2> QED BY <1>1, <1>2 DEF CostsValid
<1> HIDE DEF execution
<1> QED BY <1>1, <1>3 DEF CallsAccounted, execution

-----------------------------------------------------------------------------
(* A grant is for the tenant, tier and time of the token it was made from. *)
THEOREM GrantsAreOfTheirTokens ==
    \A token, payloadTenant, roles, catalog, now, operation, resourceTenant :
        /\ token.issued \in Nat /\ token.expires \in Nat /\ now \in Nat
        /\ token.notBefore \in Nat \cup {NoId}
        /\ \A tenant \in DOMAIN catalog : catalog[tenant] \in TenantEntries
        => GrantsAreBacked(token, payloadTenant, roles, catalog, now, operation, resourceTenant)
<1> SUFFICES ASSUME NEW token, NEW payloadTenant, NEW roles, NEW catalog, NEW now,
                    NEW operation, NEW resourceTenant,
                    token.issued \in Nat, token.expires \in Nat, now \in Nat,
                    token.notBefore \in Nat \cup {NoId},
                    \A tenant \in DOMAIN catalog : catalog[tenant] \in TenantEntries
             PROVE  GrantsAreBacked(token, payloadTenant, roles, catalog, now, operation,
                                    resourceTenant)
  OBVIOUS
<1> DEFINE subject == SubjectOf(token, catalog, roles)
<1> SUFFICES ASSUME MayResolve(token, payloadTenant, catalog, now),
                    Granted(subject, operation, resourceTenant)
             PROVE  /\ resourceTenant = token.tenant
                    /\ catalog[resourceTenant] = [status |-> "active", tier |-> subject.tier]
                    /\ now + Skew >= token.issued /\ now - Skew < token.expires
                    /\ token.notBefore # NoId => token.notBefore \in 0..(now + Skew)
                    /\ Registry[operation].scopes \subseteq token.scopes
  BY DEF GrantsAreBacked
<1>1. /\ subject.tenant = token.tenant /\ subject.scopes = token.scopes
      /\ subject.tier = catalog[token.tenant].tier
  BY DEF SubjectOf, TierFor
<1>2. resourceTenant = token.tenant /\ Registry[operation].scopes \subseteq token.scopes
  BY <1>1 DEF Granted
<1>3. catalog[resourceTenant] = [status |-> "active", tier |-> subject.tier]
  <2>1. token.tenant \in DOMAIN catalog /\ catalog[token.tenant].status = "active"
    BY DEF MayResolve, MayReadTenant
  <2>2. catalog[token.tenant] \in TenantEntries
    BY <2>1
  <2> QED BY <1>1, <1>2, <2>1, <2>2 DEF TenantEntries
<1>4. InTime(token, now)
  BY DEF MayResolve, Verified
<1>5. /\ now + Skew >= token.issued /\ now - Skew < token.expires
      /\ token.notBefore # NoId => token.notBefore \in 0..(now + Skew)
  BY <1>4, SkewAssumption DEF InTime, NotExpired
<1> QED BY <1>2, <1>3, <1>5

(* An operator of one tenant reads that tenant alone, and adds none. *)
THEOREM TenantsAreApart ==
    \A catalog, id, read, trusted : TenantsStayApart(catalog, id, read, trusted)
  BY DEF TenantsStayApart, MayReadTenant, TenantOperator, PlatformOperator, MayUseCatalog, Create

-----------------------------------------------------------------------------
(* A key stands once among entries, with this value. *)
Once(entries, key, value) ==
    \E i \in DOMAIN entries :
        /\ entries[i].key = key /\ entries[i].value = value
        /\ \A j \in DOMAIN entries : entries[j].key = key => j = i

(* The places of two sequences in the one they make together *)
LEMMA PlacesOfConcat ==
    ASSUME NEW S, NEW s \in Seq(S), NEW t \in Seq(S)
    PROVE  /\ s \o t \in Seq(S)
           /\ \A i \in DOMAIN s : i \in DOMAIN (s \o t) /\ (s \o t)[i] = s[i]
           /\ \A i \in DOMAIN t :
                 Len(s) + i \in DOMAIN (s \o t) /\ (s \o t)[Len(s) + i] = t[i]
           /\ \A i \in DOMAIN (s \o t) :
                 i \in DOMAIN s \/ (i \notin DOMAIN s /\ i - Len(s) \in DOMAIN t)
           /\ \A i \in DOMAIN t : Len(s) + i \notin DOMAIN s
           /\ IsFiniteSet(DOMAIN (s \o t))
<1> DEFINE u == s \o t
<1>1. /\ u \in Seq(S) /\ Len(u) = Len(s) + Len(t)
      /\ \A i \in 1..Len(s) + Len(t) : u[i] = IF i <= Len(s) THEN s[i] ELSE t[i - Len(s)]
  BY ConcatProperties
<1>2. /\ Len(s) \in Nat /\ DOMAIN s = 1..Len(s)
      /\ Len(t) \in Nat /\ DOMAIN t = 1..Len(t)
  BY LenProperties
<1> HIDE DEF u
<1>3. DOMAIN u = 1..(Len(s) + Len(t))
  BY <1>1, <1>2, LenProperties
<1>4. /\ \A i \in DOMAIN s : i \in DOMAIN u /\ u[i] = s[i]
      /\ \A i \in DOMAIN t : Len(s) + i \in DOMAIN u /\ u[Len(s) + i] = t[i]
      /\ \A i \in DOMAIN u : i \in DOMAIN s \/ (i \notin DOMAIN s /\ i - Len(s) \in DOMAIN t)
      /\ \A i \in DOMAIN t : Len(s) + i \notin DOMAIN s
  BY <1>1, <1>2, <1>3
<1>5. IsFiniteSet(DOMAIN u)
  BY <1>2, <1>3, FS_Interval
<1> QED BY <1>1, <1>4, <1>5 DEF u

LEMMA KeysOfConcat ==
    ASSUME NEW S, NEW s \in Seq(S), NEW t \in Seq(S)
    PROVE  KeysOf(s \o t) = KeysOf(s) \cup KeysOf(t)
<1> DEFINE u == s \o t
<1>1. /\ \A i \in DOMAIN s : i \in DOMAIN u /\ u[i] = s[i]
      /\ \A i \in DOMAIN t : Len(s) + i \in DOMAIN u /\ u[Len(s) + i] = t[i]
      /\ \A i \in DOMAIN u : i \in DOMAIN s \/ (i \notin DOMAIN s /\ i - Len(s) \in DOMAIN t)
  BY PlacesOfConcat
<1>2. Len(s) \in Nat /\ DOMAIN t \subseteq Nat
  BY LenProperties
<1>3. \A i \in DOMAIN u : i \notin DOMAIN s => u[i] = t[i - Len(s)]
  <2>1. ASSUME NEW i \in DOMAIN u, i \notin DOMAIN s
        PROVE  u[i] = t[i - Len(s)]
    <3>1. PICK k \in DOMAIN t : k = i - Len(s)
      BY <1>1, <2>1
    <3>2. i = Len(s) + k
      <4>1. i \in Int
        <5>1. u \in Seq(S)
          BY PlacesOfConcat
        <5> HIDE DEF u
        <5> QED BY <5>1, LenProperties
      <4> QED BY <1>2, <3>1, <4>1
    <3> QED BY <1>1, <3>1, <3>2
  <2> QED BY <2>1
<1> HIDE DEF u
<1>4. ASSUME NEW i \in DOMAIN u
      PROVE  u[i].key \in KeysOf(s) \cup KeysOf(t)
  BY <1>1, <1>3 DEF KeysOf
<1>5. /\ \A i \in DOMAIN s : s[i].key \in KeysOf(u)
      /\ \A i \in DOMAIN t : t[i].key \in KeysOf(u)
  BY <1>1 DEF KeysOf
<1>6. KeysOf(u) = KeysOf(s) \cup KeysOf(t)
  BY <1>4, <1>5 DEF KeysOf
<1> QED BY <1>6 DEF u

(* A key that stands once in one part and not in the other stands once. *)
LEMMA OnceInConcat ==
    ASSUME NEW S, NEW s \in Seq(S), NEW t \in Seq(S), NEW key, NEW value,
           \/ Once(s, key, value) /\ key \notin KeysOf(t)
           \/ Once(t, key, value) /\ key \notin KeysOf(s)
    PROVE  Once(s \o t, key, value)
<1> DEFINE u == s \o t
<1>1. /\ \A i \in DOMAIN s : i \in DOMAIN u /\ u[i] = s[i]
      /\ \A i \in DOMAIN t : Len(s) + i \in DOMAIN u /\ u[Len(s) + i] = t[i]
      /\ \A i \in DOMAIN u : i \in DOMAIN s \/ (i \notin DOMAIN s /\ i - Len(s) \in DOMAIN t)
  BY PlacesOfConcat
<1>2. /\ Len(s) \in Nat /\ DOMAIN s = 1..Len(s) /\ DOMAIN t = 1..Len(t) /\ Len(t) \in Nat
      /\ DOMAIN u \subseteq Int
  <2>1. u \in Seq(S)
    BY PlacesOfConcat
  <2> HIDE DEF u
  <2> QED BY <2>1, LenProperties
<1> HIDE DEF u
<1>3. ASSUME NEW j \in DOMAIN u, j \notin DOMAIN s
      PROVE  /\ j - Len(s) \in DOMAIN t /\ j = Len(s) + (j - Len(s))
             /\ u[j] = t[j - Len(s)]
  <2>1. j - Len(s) \in DOMAIN t /\ j = Len(s) + (j - Len(s))
    BY <1>1, <1>2, <1>3
  <2> QED BY <1>1, <2>1
<1>4. CASE Once(s, key, value) /\ key \notin KeysOf(t)
  <2>1. PICK i \in DOMAIN s :
          /\ s[i].key = key /\ s[i].value = value
          /\ \A j \in DOMAIN s : s[j].key = key => j = i
    BY <1>4 DEF Once
  <2>2. \A k \in DOMAIN t : t[k].key # key
    BY <1>4 DEF KeysOf
  <2>3. \A j \in DOMAIN u : u[j].key = key => j = i
    BY <1>1, <1>3, <2>1, <2>2
  <2> QED BY <1>1, <2>1, <2>3 DEF Once, u
<1>5. CASE Once(t, key, value) /\ key \notin KeysOf(s)
  <2>1. PICK i \in DOMAIN t :
          /\ t[i].key = key /\ t[i].value = value
          /\ \A j \in DOMAIN t : t[j].key = key => j = i
    BY <1>5 DEF Once
  <2>2. \A k \in DOMAIN s : s[k].key # key
    BY <1>5 DEF KeysOf
  <2>3. \A j \in DOMAIN u : u[j].key = key => j = Len(s) + i
    BY <1>1, <1>3, <2>1, <2>2
  <2> QED BY <1>1, <2>1, <2>3 DEF Once, u
<1> QED BY <1>4, <1>5

(* A key that stands once is counted once and read as it stands. *)
LEMMA OnceIsRead ==
    ASSUME NEW entries, NEW key, NEW value, Once(entries, key, value)
    PROVE  /\ key \in KeysOf(entries)
           /\ CountOf(entries, key) <= 1
           /\ \A default : ValueOf(entries, key, default) = value
<1>1. PICK i \in DOMAIN entries :
         /\ entries[i].key = key /\ entries[i].value = value
         /\ \A j \in DOMAIN entries : entries[j].key = key => j = i
  BY DEF Once
<1>2. key \in KeysOf(entries)
  BY <1>1 DEF KeysOf
<1>3. {j \in DOMAIN entries : entries[j].key = key} = {i}
  BY <1>1
<1>4. CountOf(entries, key) = 1
  BY <1>3, FS_Singleton DEF CountOf
<1>5. (CHOOSE j \in DOMAIN entries : entries[j].key = key) = i
  BY <1>1
<1> QED BY <1>1, <1>2, <1>4, <1>5 DEF ValueOf

LEMMA AbsentIsRead ==
    ASSUME NEW entries, NEW key, key \notin KeysOf(entries)
    PROVE  /\ CountOf(entries, key) <= 1
           /\ \A default : ValueOf(entries, key, default) = default
<1>1. {j \in DOMAIN entries : entries[j].key = key} = {}
  BY DEF KeysOf
<1> QED BY <1>1, FS_EmptySet DEF CountOf, ValueOf

-----------------------------------------------------------------------------
(* The entries that a context may be made of *)
EntriesOf(subject, request) ==
    {Entry("correlation", request.correlation), Entry("request", request.id),
     Entry("tenant", subject.tenant), Entry("tier", subject.tier),
     Entry("subject", subject.id), Entry("principal", subject.principal),
     Entry("scopes", subject.scopes), Entry("client", subject.client),
     Entry("roles", subject.roles)}

LEMMA RequiredEntries ==
    ASSUME NEW S, NEW subject, NEW request, EntriesOf(subject, request) \subseteq S
    PROVE  LET entries == ContextEntries(subject, request)
           IN /\ entries \in Seq(S)
              /\ KeysOf(entries) = RequiredKeys
              /\ Once(entries, "correlation", request.correlation)
              /\ Once(entries, "request", request.id)
              /\ Once(entries, "tenant", subject.tenant)
              /\ Once(entries, "tier", subject.tier)
              /\ Once(entries, "subject", subject.id)
              /\ Once(entries, "principal", subject.principal)
              /\ Once(entries, "scopes", subject.scopes)
<1> DEFINE entries == ContextEntries(subject, request)
<1>1. entries \in Seq(S)
  BY DEF EntriesOf, ContextEntries
<1>2. /\ DOMAIN entries = {1, 2, 3, 4, 5, 6, 7}
      /\ entries[1] = Entry("correlation", request.correlation)
      /\ entries[2] = Entry("request", request.id)
      /\ entries[3] = Entry("tenant", subject.tenant)
      /\ entries[4] = Entry("tier", subject.tier)
      /\ entries[5] = Entry("subject", subject.id)
      /\ entries[6] = Entry("principal", subject.principal)
      /\ entries[7] = Entry("scopes", subject.scopes)
  BY DEF ContextEntries
<1> HIDE DEF entries
<1>3. /\ entries[1].key = "correlation" /\ entries[1].value = request.correlation
      /\ entries[2].key = "request" /\ entries[2].value = request.id
      /\ entries[3].key = "tenant" /\ entries[3].value = subject.tenant
      /\ entries[4].key = "tier" /\ entries[4].value = subject.tier
      /\ entries[5].key = "subject" /\ entries[5].value = subject.id
      /\ entries[6].key = "principal" /\ entries[6].value = subject.principal
      /\ entries[7].key = "scopes" /\ entries[7].value = subject.scopes
  BY <1>2 DEF Entry
<1>4. KeysOf(entries) = RequiredKeys
  BY <1>2, <1>3 DEF KeysOf, RequiredKeys
<1>5. /\ Once(entries, "correlation", request.correlation)
      /\ Once(entries, "request", request.id)
      /\ Once(entries, "tenant", subject.tenant)
      /\ Once(entries, "tier", subject.tier)
      /\ Once(entries, "subject", subject.id)
      /\ Once(entries, "principal", subject.principal)
      /\ Once(entries, "scopes", subject.scopes)
  BY <1>2, <1>3 DEF Once
<1> QED BY <1>1, <1>4, <1>5 DEF entries

LEMMA OptionalEntry ==
    ASSUME NEW S, NEW holds \in BOOLEAN, NEW key, NEW value, Entry(key, value) \in S
    PROVE  LET entries == EntryIf(holds, Entry(key, value))
           IN /\ entries \in Seq(S)
              /\ KeysOf(entries) = IF holds THEN {key} ELSE {}
              /\ holds => Once(entries, key, value)
<1> DEFINE entry == Entry(key, value)
<1>1. entry.key = key /\ entry.value = value
  BY DEF Entry
<1>2. CASE holds
  <2>1. EntryIf(holds, entry) = <<entry>>
    BY <1>2 DEF EntryIf
  <2>2. <<entry>> \in Seq(S) /\ DOMAIN <<entry>> = {1} /\ <<entry>>[1] = entry
    OBVIOUS
  <2>3. KeysOf(<<entry>>) = {key}
    BY <1>1, <2>2 DEF KeysOf
  <2>4. Once(<<entry>>, key, value)
    BY <1>1, <2>2 DEF Once
  <2> QED BY <1>2, <2>1, <2>2, <2>3, <2>4
<1>3. CASE ~holds
  <2>1. EntryIf(holds, entry) = <<>>
    BY <1>3 DEF EntryIf
  <2>2. <<>> \in Seq(S) /\ DOMAIN <<>> = {}
    OBVIOUS
  <2>3. KeysOf(<<>>) = {}
    BY <2>2 DEF KeysOf
  <2> QED BY <1>3, <2>1, <2>2, <2>3
<1> QED BY <1>2, <1>3

(* What is sent of a context: each of its parts once, empty ones not at all *)
LEMMA EncodedEntries ==
    ASSUME NEW S, NEW subject, NEW request, EntriesOf(subject, request) \subseteq S
    PROVE  LET entries == Encode(subject, request)
           IN /\ entries \in Seq(S)
              /\ KeysOf(entries) = RequiredKeys
                    \cup (IF subject.client # NoId THEN {"client"} ELSE {})
                    \cup (IF subject.roles # {} THEN {"roles"} ELSE {})
              /\ Once(entries, "correlation", request.correlation)
              /\ Once(entries, "request", request.id)
              /\ Once(entries, "tenant", subject.tenant)
              /\ Once(entries, "tier", subject.tier)
              /\ Once(entries, "subject", subject.id)
              /\ Once(entries, "principal", subject.principal)
              /\ Once(entries, "scopes", subject.scopes)
              /\ subject.client # NoId => Once(entries, "client", subject.client)
              /\ subject.roles # {} => Once(entries, "roles", subject.roles)
<1> DEFINE required == ContextEntries(subject, request)
           client == EntryIf(subject.client # NoId, Entry("client", subject.client))
           roles == EntryIf(subject.roles # {}, Entry("roles", subject.roles))
           entries == Encode(subject, request)
           AllOnce(list) == /\ Once(list, "correlation", request.correlation)
                            /\ Once(list, "request", request.id)
                            /\ Once(list, "tenant", subject.tenant)
                            /\ Once(list, "tier", subject.tier)
                            /\ Once(list, "subject", subject.id)
                            /\ Once(list, "principal", subject.principal)
                            /\ Once(list, "scopes", subject.scopes)
<1>1. required \in Seq(S) /\ KeysOf(required) = RequiredKeys /\ AllOnce(required)
  BY RequiredEntries, Zenon
<1>2. Entry("client", subject.client) \in S /\ Entry("roles", subject.roles) \in S
  BY DEF EntriesOf
<1>3. /\ client \in Seq(S)
      /\ KeysOf(client) = IF subject.client # NoId THEN {"client"} ELSE {}
      /\ subject.client # NoId => Once(client, "client", subject.client)
  BY <1>2, OptionalEntry, Zenon
<1>4. /\ roles \in Seq(S)
      /\ KeysOf(roles) = IF subject.roles # {} THEN {"roles"} ELSE {}
      /\ subject.roles # {} => Once(roles, "roles", subject.roles)
  BY <1>2, OptionalEntry, Zenon
<1>5. entries = (required \o client) \o roles
  BY DEF Encode
<1> HIDE DEF required, client, roles, entries
<1>6. required \o client \in Seq(S)
  BY <1>1, <1>3, PlacesOfConcat
<1>7. KeysOf(required \o client) = KeysOf(required) \cup KeysOf(client)
  BY <1>1, <1>3, KeysOfConcat
<1>8. /\ entries \in Seq(S)
      /\ KeysOf(entries) = KeysOf(required) \cup KeysOf(client) \cup KeysOf(roles)
  <2>1. (required \o client) \o roles \in Seq(S)
    BY <1>4, <1>6, PlacesOfConcat
  <2>2. PICK before : before = required \o client
    OBVIOUS
  <2>3. before \in Seq(S)
    BY <1>6, <2>2
  <2>4. KeysOf(before \o roles) = KeysOf(before) \cup KeysOf(roles)
    BY <1>4, <2>3, KeysOfConcat
  <2> QED BY <1>5, <1>7, <2>1, <2>2, <2>4
<1>9. /\ "client" \notin KeysOf(required) /\ "client" \notin KeysOf(roles)
      /\ "roles" \notin KeysOf(required \o client)
  BY <1>1, <1>3, <1>4, <1>7 DEF RequiredKeys
<1>10. ASSUME NEW key, NEW value, Once(required, key, value), key \in RequiredKeys
       PROVE  Once(entries, key, value)
  <2>1. key \notin KeysOf(client) /\ key \notin KeysOf(roles)
    BY <1>3, <1>4, <1>10 DEF RequiredKeys
  <2>2. Once(required \o client, key, value)
    BY <1>1, <1>3, <1>10, <2>1, OnceInConcat
  <2> QED BY <1>4, <1>5, <1>6, <2>1, <2>2, OnceInConcat
<1>11. AllOnce(entries)
  BY <1>1, <1>10 DEF RequiredKeys
<1>12. ASSUME subject.client # NoId
       PROVE  Once(entries, "client", subject.client)
  <2>1. Once(required \o client, "client", subject.client)
    BY <1>1, <1>3, <1>9, <1>12, OnceInConcat
  <2> QED BY <1>4, <1>5, <1>6, <1>9, <2>1, OnceInConcat
<1>13. ASSUME subject.roles # {}
       PROVE  Once(entries, "roles", subject.roles)
  BY <1>4, <1>5, <1>6, <1>9, <1>13, OnceInConcat
<1>14. KeysOf(entries) = RequiredKeys
          \cup (IF subject.client # NoId THEN {"client"} ELSE {})
          \cup (IF subject.roles # {} THEN {"roles"} ELSE {})
  BY <1>1, <1>3, <1>4, <1>8, Zenon
<1> QED BY <1>8, <1>11, <1>12, <1>13, <1>14 DEF entries

(* What another service reads of a context is what was sent, and is granted   *)
(* there what was granted here, whatever came along with it.                  *)
THEOREM ContextsDoArrive ==
    \A S : \A subject \in Subjects, others \in Seq(S) :
        \A request : ContextsArrive(subject, request, others)
<1> SUFFICES ASSUME NEW S, NEW subject \in Subjects, NEW others \in Seq(S), NEW request,
                    IsContext(subject, request),
                    KeysOf(others) \cap (ContextKeys \cup ForbiddenKeys) = {}
             PROVE  LET entries == Encode(subject, request) \o others
                    IN /\ MayReceive(entries, subject.tenant)
                       /\ Decode(entries) = subject
                       /\ \A operation \in DOMAIN Registry, tenant \in Ids :
                            Granted(Decode(entries), operation, tenant)
                                = Granted(subject, operation, tenant)
  BY DEF ContextsArrive
<1> DEFINE T == S \cup EntriesOf(subject, request)
           sent == Encode(subject, request)
           entries == sent \o others
<1>1. /\ sent \in Seq(T)
      /\ KeysOf(sent) = RequiredKeys
            \cup (IF subject.client # NoId THEN {"client"} ELSE {})
            \cup (IF subject.roles # {} THEN {"roles"} ELSE {})
      /\ Once(sent, "correlation", request.correlation)
      /\ Once(sent, "request", request.id)
      /\ Once(sent, "tenant", subject.tenant)
      /\ Once(sent, "tier", subject.tier)
      /\ Once(sent, "subject", subject.id)
      /\ Once(sent, "principal", subject.principal)
      /\ Once(sent, "scopes", subject.scopes)
      /\ subject.client # NoId => Once(sent, "client", subject.client)
      /\ subject.roles # {} => Once(sent, "roles", subject.roles)
  <2>1. EntriesOf(subject, request) \subseteq T
    OBVIOUS
  <2> HIDE DEF T
  <2> QED BY <2>1, EncodedEntries, Zenon
<1>2. others \in Seq(T)
  <2>1. S \subseteq T
    OBVIOUS
  <2> HIDE DEF T
  <2> QED BY <2>1
<1> HIDE DEF T, sent
<1>3. KeysOf(entries) = KeysOf(sent) \cup KeysOf(others)
  BY <1>1, <1>2, KeysOfConcat
<1>4. ASSUME NEW key \in ContextKeys, NEW value, Once(sent, key, value)
      PROVE  /\ key \in KeysOf(entries) /\ CountOf(entries, key) <= 1
             /\ \A default : ValueOf(entries, key, default) = value
  <2>1. key \notin KeysOf(others)
    OBVIOUS
  <2>2. Once(entries, key, value)
    BY <1>1, <1>2, <1>4, <2>1, OnceInConcat
  <2> HIDE DEF entries
  <2> QED BY <2>2, OnceIsRead
<1>5. ASSUME NEW key \in ContextKeys, key \notin KeysOf(sent)
      PROVE  /\ CountOf(entries, key) <= 1
             /\ \A default : ValueOf(entries, key, default) = default
  <2>1. key \notin KeysOf(entries)
    BY <1>3, <1>5
  <2> HIDE DEF entries
  <2> QED BY <2>1, AbsentIsRead
<1> HIDE DEF entries
<1>6. /\ ValueOf(entries, "correlation", NoId) = request.correlation
      /\ ValueOf(entries, "request", NoId) = request.id
      /\ ValueOf(entries, "tenant", NoId) = subject.tenant
      /\ ValueOf(entries, "tier", NoId) = subject.tier
      /\ ValueOf(entries, "subject", NoId) = subject.id
      /\ ValueOf(entries, "principal", NoId) = subject.principal
      /\ ValueOf(entries, "scopes", {}) = subject.scopes
      /\ \A key \in RequiredKeys : CountOf(entries, key) <= 1
  BY <1>1, <1>4 DEF ContextKeys, RequiredKeys
<1>7. /\ ValueOf(entries, "client", NoId) = subject.client
      /\ CountOf(entries, "client") <= 1
  <2>1. CASE subject.client # NoId
    BY <1>1, <1>4, <2>1 DEF ContextKeys
  <2>2. CASE subject.client = NoId
    <3>1. "client" \notin KeysOf(sent)
      BY <1>1, <2>2 DEF RequiredKeys
    <3> QED BY <1>5, <2>2, <3>1 DEF ContextKeys
  <2> QED BY <2>1, <2>2
<1>8. /\ ValueOf(entries, "roles", {}) = subject.roles
      /\ CountOf(entries, "roles") <= 1
  <2>1. CASE subject.roles # {}
    BY <1>1, <1>4, <2>1 DEF ContextKeys
  <2>2. CASE subject.roles = {}
    <3>1. "roles" \notin KeysOf(sent)
      BY <1>1, <2>2 DEF RequiredKeys
    <3> QED BY <1>5, <2>2, <3>1 DEF ContextKeys
  <2> QED BY <2>1, <2>2
<1>9. Decode(entries) = subject
  BY <1>6, <1>7, <1>8 DEF Decode, Subjects
<1>10. Readable(entries)
  <2>1. KeysOf(sent) \cap ForbiddenKeys = {} /\ RequiredKeys \subseteq KeysOf(sent)
    BY <1>1 DEF RequiredKeys, ForbiddenKeys
  <2>2. KeysOf(entries) \cap ForbiddenKeys = {} /\ RequiredKeys \subseteq KeysOf(entries)
    BY <1>3, <2>1
  <2>3. \A key \in ContextKeys : CountOf(entries, key) <= 1
    BY <1>6, <1>7, <1>8 DEF ContextKeys
  <2> QED BY <2>2, <2>3 DEF Readable
<1>11. IsContext(subject, RequestOf(entries))
  <2>1. /\ RequestOf(entries).correlation = request.correlation
        /\ RequestOf(entries).id = request.id
    BY <1>6 DEF RequestOf
  <2> QED BY <2>1 DEF IsContext
<1>12. MayReceive(entries, subject.tenant)
  BY <1>9, <1>10, <1>11 DEF MayReceive
<1> QED BY <1>9, <1>12 DEF entries, sent

(* A key that stands in both parts of a sequence is counted twice. *)
LEMMA CountedTwice ==
    ASSUME NEW S, NEW s \in Seq(S), NEW t \in Seq(S), NEW key,
           key \in KeysOf(s), key \in KeysOf(t)
    PROVE  ~(CountOf(s \o t, key) <= 1)
<1> DEFINE u == s \o t
           places == {i \in DOMAIN u : u[i].key = key}
<1>1. PICK i \in DOMAIN s : s[i].key = key
  BY DEF KeysOf
<1>2. PICK j \in DOMAIN t : t[j].key = key
  BY DEF KeysOf
<1>3. /\ i \in DOMAIN u /\ u[i] = s[i] /\ IsFiniteSet(DOMAIN u)
      /\ Len(s) + j \in DOMAIN u /\ u[Len(s) + j] = t[j] /\ Len(s) + j \notin DOMAIN s
  BY PlacesOfConcat
<1> HIDE DEF u
<1>4. IsFiniteSet(places)
  BY <1>3, FS_Subset
<1>5. PICK k : k = Len(s) + j
  OBVIOUS
<1>6. i \in places /\ k \in places /\ k # i
  BY <1>1, <1>2, <1>3, <1>5
<1>7. PICK one : one = {i}
  OBVIOUS
<1>8. PICK both : both = one \cup {k}
  OBVIOUS
<1>9. Cardinality(both) = 2
  <2>1. IsFiniteSet(one) /\ Cardinality(one) = 1 /\ k \notin one
    BY <1>6, <1>7, FS_Singleton
  <2>2. Cardinality(both) = Cardinality(one) + 1
    BY <1>8, <2>1, FS_AddElement
  <2> QED BY <2>1, <2>2
<1>10. both \subseteq places
  BY <1>6, <1>7, <1>8
<1> HIDE DEF places
<1>11. Cardinality(both) <= Cardinality(places) /\ Cardinality(places) \in Nat
  BY <1>4, <1>10, FS_Subset, FS_CardinalityType
<1>12. ~(Cardinality(places) <= 1)
  BY <1>9, <1>11
<1> QED BY <1>12 DEF CountOf, places, u

(* No metadata, before or after, takes the place of a part of a context. *)
THEOREM NothingTakesItsPlace ==
    \A S : \A subject, request : \A others \in Seq(S) :
        NothingReplaced(subject, request, others)
<1> SUFFICES ASSUME NEW S, NEW subject, NEW request, NEW others \in Seq(S),
                    NEW key \in KeysOf(others) \cap KeysOf(Encode(subject, request))
             PROVE  /\ ~Readable(others \o Encode(subject, request))
                    /\ ~Readable(Encode(subject, request) \o others)
  BY DEF NothingReplaced, MayReceive
<1> DEFINE T == S \cup EntriesOf(subject, request)
           sent == Encode(subject, request)
<1>1. /\ sent \in Seq(T)
      /\ KeysOf(sent) = RequiredKeys
            \cup (IF subject.client # NoId THEN {"client"} ELSE {})
            \cup (IF subject.roles # {} THEN {"roles"} ELSE {})
  <2>1. EntriesOf(subject, request) \subseteq T
    OBVIOUS
  <2> HIDE DEF T
  <2> QED BY <2>1, EncodedEntries, Zenon
<1>2. others \in Seq(T)
  <2>1. S \subseteq T
    OBVIOUS
  <2> HIDE DEF T
  <2> QED BY <2>1
<1> HIDE DEF T
<1>3. key \in ContextKeys
  BY <1>1 DEF ContextKeys
<1> HIDE DEF sent
<1>4. key \in KeysOf(others) /\ key \in KeysOf(sent)
  BY DEF sent
<1>5. ~(CountOf(others \o sent, key) <= 1)
  BY <1>1, <1>2, <1>4, CountedTwice
<1>6. ~(CountOf(sent \o others, key) <= 1)
  BY <1>1, <1>2, <1>4, CountedTwice
<1> QED BY <1>3, <1>5, <1>6 DEF Readable, sent

-----------------------------------------------------------------------------
(* An object of an accepted payload has the fields its contract asks for. *)
LEMMA ObjectsFit ==
    ASSUME NEW payload, Accepts(payload), NEW s \in DOMAIN payload, NEW i \in DOMAIN payload[s]
    PROVE  /\ DOMAIN payload[s][i] \subseteq DOMAIN Contract[s].values
           /\ Contract[s].required \subseteq DOMAIN payload[s][i]
           /\ \A field \in DOMAIN payload[s][i] :
                 payload[s][i][field] \in Contract[s].values[field]
  BY DEF Accepts, Fits

(* What is known of the borrower and of each participant of a proposal *)
LEMMA BorrowerIs ==
    ASSUME NEW payload, Accepts(payload)
    PROVE  LET borrower == One(payload, "borrower") IN
           /\ {"document_type", "document"} \subseteq DOMAIN borrower
           /\ borrower.document_type = DocumentTypeOf(One(payload, "body").person_type)
  BY DEF Accepts, IsIdentified

LEMMA BorrowerFields ==
    /\ "document_type" \in DOMAIN Borrower.values
    /\ "document" \in DOMAIN Borrower.values
  BY DEF Borrower, Object, Each, ++

LEMMA ParticipantFields ==
    /\ Participant.required = {"participant_ref", "role"}
    /\ Participant.values["participant_ref"] = Identifier
    /\ Participant.values["role"] = Roles
    /\ Participant.values["document_type"] = {"CPF", "CNPJ"}
    /\ "document_type" \in DOMAIN Participant.values
  BY DEF Participant, Object, Each, ++

LEMMA ParticipantIs ==
    ASSUME NEW payload, Accepts(payload), NEW i \in DOMAIN Objects(payload, "participants")
    PROVE  LET participant == Objects(payload, "participants")[i] IN
           /\ {"participant_ref", "role"} \subseteq DOMAIN participant
           /\ participant.participant_ref \in Identifier
           /\ participant.role \in Roles
           /\ participant.role \in CriticalRoles =>
                /\ {"document_type", "document", "person_type"} \subseteq DOMAIN participant
                /\ IsIdentified(participant, participant.person_type)
<1> DEFINE participants == Objects(payload, "participants")
<1>1. "participants" \in DOMAIN payload /\ participants = payload["participants"]
  <2>1. CASE "participants" \in DOMAIN payload
    BY <2>1 DEF Objects
  <2>2. CASE "participants" \notin DOMAIN payload
    <3>1. participants = <<>> /\ DOMAIN <<>> = {}
      BY <2>2 DEF Objects
    <3> QED BY <3>1
  <2> QED BY <2>1, <2>2
<1>2. Contract["participants"] = Participant
  BY DEF Contract
<1>3. /\ Participant.required \subseteq DOMAIN participants[i]
      /\ \A field \in DOMAIN participants[i] :
            participants[i][field] \in Participant.values[field]
  <2> HIDE DEF participants
  <2>1. i \in DOMAIN payload["participants"]
    BY <1>1 DEF participants
  <2> QED BY <1>1, <1>2, <2>1, ObjectsFit
<1>4. ParticipantsHold(participants)
  BY DEF Accepts
<1> HIDE DEF participants
<1>5. participants[i].role \in CriticalRoles =>
        /\ "person_type" \in DOMAIN participants[i]
        /\ IsIdentified(participants[i], participants[i].person_type)
  BY <1>4 DEF ParticipantsHold, participants
<1> QED BY <1>3, <1>5, ParticipantFields DEF participants, IsIdentified

(* Every receivable of an accepted proposal has an identified payer. *)
THEOREM PayersAreKnown == \A payload : PayersAreIdentified(payload)
<1> SUFFICES ASSUME NEW payload, Accepts(payload), "receivables" \in DOMAIN payload,
                    NEW i \in DOMAIN payload.receivables
             PROVE  \E j \in DOMAIN payload.participants :
                        LET payer == payload.participants[j]
                        IN /\ Stripped(payer.participant_ref)
                                = Stripped(payload.receivables[i].payer_ref)
                           /\ payer.role = "payer"
                           /\ payer.person_type = "PF" => payer.document \in CPFs
                           /\ payer.person_type = "PJ" => payer.document \in CNPJs
  BY DEF PayersAreIdentified
<1> DEFINE participants == Objects(payload, "participants")
<1>1. Stripped(payload.receivables[i].payer_ref) \in PayerRefs(participants)
  BY DEF Accepts, ProductHolds, ReceivablesHold
<1>2. PICK j \in DOMAIN participants :
         /\ participants[j].role = "payer"
         /\ Stripped(participants[j].participant_ref) = Stripped(payload.receivables[i].payer_ref)
  BY <1>1 DEF PayerRefs
<1>3. "participants" \in DOMAIN payload /\ participants = payload.participants
  <2>1. DOMAIN <<>> = {}
    OBVIOUS
  <2> QED BY <1>2, <2>1 DEF Objects
<1>4. IsIdentified(participants[j], participants[j].person_type)
  BY <1>2, ParticipantIs, RolesAssumption
<1>5. /\ participants[j].person_type = "PF" => participants[j].document \in CPFs
      /\ participants[j].person_type = "PJ" => participants[j].document \in CNPJs
  BY <1>4 DEF IsIdentified
<1> QED BY <1>2, <1>3, <1>5

-----------------------------------------------------------------------------
(* Fields that are kept and may hold any text, or else no identity *)
Revealing == Documents \cup {"email", "secret"}

Harmless(values, fields) ==
    \A field \in fields : values[field] = Text \/ values[field] \cap Revealing = {}

LEMMA HarmlessKinds ==
    /\ Identifier \cap Revealing = {}
    /\ MoneyOrZero \cap Revealing = {} /\ Money \cap Revealing = {} /\ CashFlow \cap Revealing = {}
    /\ Positive \cap Revealing = {} /\ NonNegative \cap Revealing = {}
    /\ BasisPoints \cap Revealing = {} /\ WaitTime \cap Revealing = {}
    /\ Bool \cap Revealing = {} /\ Enum \cap Revealing = {} /\ IsoDate \cap Revealing = {}
    /\ {"PF", "PJ"} \cap Revealing = {} /\ {"CPF", "CNPJ"} \cap Revealing = {}
    /\ Products \cap Revealing = {} /\ Roles \cap Revealing = {}
  BY RolesAssumption
     DEF Revealing, Documents, CPFs, CNPJs, Identifier, PublicTexts, MoneyOrZero, Money, CashFlow,
         Positive, NonNegative, BasisPoints, WaitTime, Bool, Enum, IsoDate, Products, Text

LEMMA HarmlessBody == Harmless(Body.values, DOMAIN Body.values)
  BY HarmlessKinds DEF Harmless, Body, Object, Each, ++, Products

LEMMA HarmlessTerms == Harmless(RequestedTerms.values, DOMAIN RequestedTerms.values)
  BY HarmlessKinds DEF Harmless, RequestedTerms, Object, Each, ++

LEMMA HarmlessBorrower == Harmless(Borrower.values, {"document_type"})
  BY HarmlessKinds DEF Harmless, Borrower, Object, Each, ++

LEMMA HarmlessParticipant ==
    Harmless(Participant.values, DOMAIN Participant.values \ NotKept("participants"))
<1>1. DOMAIN Participant.values \ NotKept("participants") =
          {"participant_ref", "role", "person_type", "document_type", "relationship",
           "ownership_percentage", "signature_required"}
  <2>1. DOMAIN Participant.values =
            {"participant_ref", "role", "person_type", "document_type", "document", "name",
             "legal_name", "relationship", "ownership_percentage", "signature_required"}
    <3> DEFINE upToRole == Each({"participant_ref"}, Identifier) ++ Each({"role"}, Roles)
               upToType == (upToRole ++ Each({"person_type"}, {"PF", "PJ"}))
                               ++ Each({"document_type"}, {"CPF", "CNPJ"})
               upToName == upToType ++ Each({"document", "name", "legal_name"}, Anything)
               upToShare == (upToName ++ Each({"relationship"}, Text))
                                ++ Each({"ownership_percentage"}, BasisPoints)
               all == upToShare ++ Each({"signature_required"}, Bool)
    <3>1. DOMAIN upToRole = {"participant_ref", "role"}
      BY DEF Each, ++
    <3>2. DOMAIN upToType = {"participant_ref", "role", "person_type", "document_type"}
      <4> HIDE DEF upToRole
      <4> QED BY <3>1 DEF Each, ++
    <3>3. DOMAIN upToName = {"participant_ref", "role", "person_type", "document_type",
                             "document", "name", "legal_name"}
      <4> HIDE DEF upToType
      <4> QED BY <3>2 DEF Each, ++
    <3>4. DOMAIN upToShare = {"participant_ref", "role", "person_type", "document_type", "document",
                              "name", "legal_name", "relationship", "ownership_percentage"}
      <4> HIDE DEF upToName
      <4> QED BY <3>3 DEF Each, ++
    <3>5. DOMAIN all = DOMAIN upToShare \cup {"signature_required"}
      <4> HIDE DEF upToShare
      <4> QED BY DEF Each, ++
    <3>6. Participant.values = all
      BY Zenon DEF Participant, Object
    <3> HIDE DEF upToShare, all
    <3> QED BY <3>4, <3>5, <3>6
  <2>2. NotKept("participants") = {"document", "name", "legal_name"}
    BY DEF NotKept
  <2> QED BY <2>1, <2>2
<1>2. /\ Participant.values["person_type"] = {"PF", "PJ"}
      /\ Participant.values["relationship"] = Text
      /\ Participant.values["ownership_percentage"] = BasisPoints
      /\ Participant.values["signature_required"] = Bool
  BY DEF Participant, Object, Each, ++
<1> QED BY <1>1, <1>2, ParticipantFields, HarmlessKinds DEF Harmless

LEMMA HarmlessReceivable ==
    Harmless(Receivable.values, DOMAIN Receivable.values \ NotKept("receivables"))
  BY HarmlessKinds DEF Harmless, Receivable, NotKept, Object, Each, ++

LEMMA HarmlessProducts ==
    /\ Harmless(PersonalCredit.values, DOMAIN PersonalCredit.values)
    /\ Harmless(Bnpl.values, DOMAIN Bnpl.values)
    /\ Harmless(BusinessCredit.values, DOMAIN BusinessCredit.values)
<1>1. Harmless(PersonalCredit.values, DOMAIN PersonalCredit.values)
  BY HarmlessKinds DEF Harmless, PersonalCredit, Object, Each, ++
<1>2. Harmless(Bnpl.values, DOMAIN Bnpl.values)
  BY HarmlessKinds DEF Harmless, Bnpl, Object, Each, ++
<1>3. Harmless(BusinessCredit.values, DOMAIN BusinessCredit.values)
  BY HarmlessKinds DEF Harmless, BusinessCredit, Object, Each, ++
<1> QED BY <1>1, <1>2, <1>3

LEMMA HarmlessContexts ==
    /\ Harmless(Callback.values, DOMAIN Callback.values)
    /\ Harmless(RiskContext.values, DOMAIN RiskContext.values)
    /\ Harmless(Geo.values, DOMAIN Geo.values)
    /\ Harmless(Transaction.values, DOMAIN Transaction.values)
    /\ Harmless(Signals.values, DOMAIN Signals.values)
    /\ Harmless(DecisionOptions.values, DOMAIN DecisionOptions.values)
<1>1. Harmless(Callback.values, DOMAIN Callback.values)
  BY HarmlessKinds DEF Harmless, Callback, Object, Each
<1>2. Harmless(RiskContext.values, DOMAIN RiskContext.values)
  BY HarmlessKinds DEF Harmless, RiskContext, Object, Each
<1>3. Harmless(Geo.values, DOMAIN Geo.values)
  BY HarmlessKinds DEF Harmless, Geo, Object, Each
<1>4. Harmless(Transaction.values, DOMAIN Transaction.values)
  BY HarmlessKinds DEF Harmless, Transaction, Object, Each, ++
<1>5. Harmless(Signals.values, DOMAIN Signals.values)
  BY HarmlessKinds DEF Harmless, Signals, Object, Each, ++
<1>6. Harmless(DecisionOptions.values, DOMAIN DecisionOptions.values)
  BY HarmlessKinds DEF Harmless, DecisionOptions, Object, Each, ++
<1> QED BY <1>1, <1>2, <1>3, <1>4, <1>5, <1>6

LEMMA KeptIsHarmless ==
    \A structure \in DOMAIN Contract \ Discarded :
        Harmless(Contract[structure].values,
                 DOMAIN Contract[structure].values \ NotKept(structure))
<1> SUFFICES ASSUME NEW structure \in DOMAIN Contract \ Discarded
             PROVE  Harmless(Contract[structure].values,
                             DOMAIN Contract[structure].values \ NotKept(structure))
  OBVIOUS
<1>1. structure \in {"body", "requested_terms", "borrower", "participants", "personal_credit",
                     "bnpl", "business_credit", "receivables", "callback", "risk_context", "geo",
                     "transaction", "customer_provided_signals", "decision_options"}
  BY DEF Contract, Discarded, ProvidedData
<1>2. CASE structure = "borrower"
  <2>1. Contract[structure].values = Borrower.values
    BY <1>2 DEF Contract
  <2>2. DOMAIN Borrower.values \ NotKept(structure) \subseteq {"document_type"}
    BY <1>2 DEF NotKept
  <2> QED BY <2>1, <2>2, HarmlessBorrower DEF Harmless
<1>3. CASE structure = "participants"
  BY <1>3, HarmlessParticipant DEF Contract
<1>4. CASE structure = "receivables"
  BY <1>4, HarmlessReceivable DEF Contract
<1>5. CASE structure \in {"body", "requested_terms"}
  BY <1>5, HarmlessBody, HarmlessTerms DEF Contract, Harmless
<1>6. CASE structure \in {"personal_credit", "bnpl", "business_credit"}
  BY <1>6, HarmlessProducts DEF Contract, Harmless
<1>7. CASE structure \in {"callback", "risk_context", "geo", "transaction",
                          "customer_provided_signals", "decision_options"}
  BY <1>7, HarmlessContexts DEF Contract, Harmless
<1> QED BY <1>1, <1>2, <1>3, <1>4, <1>5, <1>6, <1>7

(* What is kept of a proposal identifies nobody, but for free text. *)
THEOREM KeptIdentifiesInTextOnly ==
    \A payload : DOMAIN payload \subseteq DOMAIN Contract => IdentityOnlyInText(payload)
<1> SUFFICES ASSUME NEW payload, DOMAIN payload \subseteq DOMAIN Contract, Accepts(payload),
                    NEW structure \in DOMAIN Canonical(payload).kept,
                    NEW i \in DOMAIN Canonical(payload).kept[structure],
                    NEW field \in DOMAIN Canonical(payload).kept[structure][i],
                    Canonical(payload).kept[structure][i][field] \in Revealing
             PROVE  Contract[structure].values[field] = Text
  BY DEF IdentityOnlyInText, Revealing
<1> DEFINE kept == Canonical(payload).kept
<1>1. /\ structure \in (DOMAIN payload \ Discarded) \cup {"risk_context"}
      /\ kept[structure] = IF structure \notin DOMAIN payload THEN <<<<>>>>
                           ELSE [k \in DOMAIN payload[structure] |->
                                    Kept(structure, payload[structure][k])]
  BY DEF Canonical
<1>2. structure \in DOMAIN payload
  <2>1. SUFFICES ASSUME structure \notin DOMAIN payload PROVE FALSE
    OBVIOUS
  <2>2. kept[structure] = <<<<>>>>
    BY <1>1, <2>1
  <2>3. DOMAIN <<<<>>>> = {1} /\ <<<<>>>>[1] = <<>> /\ DOMAIN <<>> = {}
    OBVIOUS
  <2> QED BY <2>2, <2>3
<1>3. structure \in DOMAIN Contract \ Discarded
  BY <1>1, <1>2 DEF Discarded, ProvidedData
<1>4. /\ i \in DOMAIN payload[structure]
      /\ kept[structure][i] = Kept(structure, payload[structure][i])
  BY <1>1, <1>2
<1> DEFINE object == payload[structure][i]
<1>5. /\ field \in DOMAIN object \ NotKept(structure)
      /\ kept[structure][i][field] = Stripped(object[field])
  BY <1>4 DEF Kept
<1>6. object[field] \in Revealing
  <2>1. Stripped(object[field]) \in Revealing
    BY <1>5
  <2> QED BY <2>1 DEF Stripped, Revealing, Documents, CPFs, CNPJs
<1>7. field \in DOMAIN Contract[structure].values /\ object[field] \in Contract[structure].values[field]
  BY <1>2, <1>4, <1>5, ObjectsFit
<1> HIDE DEF object
<1> QED BY <1>3, <1>5, <1>6, <1>7, KeptIsHarmless DEF Harmless

-----------------------------------------------------------------------------
(* Two payloads that differ in one object, at most *)
ApartIn(payload, other, structure, i) ==
    /\ structure \in DOMAIN payload /\ i \in DOMAIN payload[structure]
    /\ DOMAIN other = DOMAIN payload
    /\ \A s \in DOMAIN payload \ {structure} : other[s] = payload[s]
    /\ DOMAIN other[structure] = DOMAIN payload[structure]
    /\ \A j \in DOMAIN payload[structure] \ {i} : other[structure][j] = payload[structure][j]

LEMMA EmptyIsEmpty == DOMAIN <<>> = {} /\ DOMAIN <<<<>>>> = {1} /\ <<<<>>>>[1] = <<>>
  OBVIOUS

LEMMA CanonicalsAgree ==
    ASSUME NEW payload, NEW other, NEW structure, NEW i, ApartIn(payload, other, structure, i)
    PROVE  Canonical(payload) = Canonical(other) <=>
               \/ structure \in Discarded
               \/ Kept(structure, payload[structure][i]) = Kept(structure, other[structure][i])
<1> DEFINE StructuresOf(p) ==
               {s \in DOMAIN p \ Discarded : ~(s = "participants" /\ p[s] = <<>>)}
                   \cup {"risk_context"}
           KeptOf(p) ==
               [s \in StructuresOf(p) |->
                   IF s \notin DOMAIN p THEN <<<<>>>>
                   ELSE [k \in DOMAIN p[s] |-> Kept(s, p[s][k])]]
<1>1. \A p : /\ Canonical(p).kept = KeptOf(p)
             /\ Canonical(p).provided = (DOMAIN p \cap ProvidedData # {})
             /\ Canonical(p).consented = (Objects(p, "consents") # <<>>)
             /\ Canonical(p) = [kept |-> KeptOf(p), provided |-> DOMAIN p \cap ProvidedData # {},
                                consented |-> Objects(p, "consents") # <<>>]
  BY DEF Canonical
<1>2. /\ DOMAIN other = DOMAIN payload
      /\ \A s \in DOMAIN payload : DOMAIN other[s] = DOMAIN payload[s]
      /\ \A s \in DOMAIN payload : other[s] = <<>> <=> payload[s] = <<>>
  BY EmptyIsEmpty DEF ApartIn
<1>3. StructuresOf(other) = StructuresOf(payload)
  BY <1>2
<1>4. (Objects(other, "consents") # <<>>) = (Objects(payload, "consents") # <<>>)
  BY <1>2 DEF Objects
<1>5. Canonical(payload) = Canonical(other) <=> KeptOf(payload) = KeptOf(other)
  <2> HIDE DEF KeptOf
  <2> QED BY <1>1, <1>2, <1>4
<1>6. ASSUME structure \in Discarded
      PROVE  KeptOf(payload) = KeptOf(other)
  <2>1. \A s \in StructuresOf(payload) \cap DOMAIN payload : other[s] = payload[s]
    BY <1>6 DEF ApartIn, Discarded, ProvidedData
  <2> QED BY <1>2, <1>3, <2>1
<1>7. ASSUME Kept(structure, payload[structure][i]) = Kept(structure, other[structure][i])
      PROVE  KeptOf(payload) = KeptOf(other)
  <2>1. \A s \in DOMAIN payload : \A k \in DOMAIN payload[s] :
            Kept(s, other[s][k]) = Kept(s, payload[s][k])
    BY <1>7 DEF ApartIn
  <2>2. \A s \in DOMAIN payload :
            [k \in DOMAIN payload[s] |-> Kept(s, payload[s][k])]
                = [k \in DOMAIN other[s] |-> Kept(s, other[s][k])]
    BY <1>2, <2>1
  <2> QED BY <1>2, <1>3, <2>2
<1>8. ASSUME KeptOf(payload) = KeptOf(other), structure \notin Discarded
      PROVE  Kept(structure, payload[structure][i]) = Kept(structure, other[structure][i])
  <2>1. structure \in DOMAIN payload /\ i \in DOMAIN payload[structure] /\ i \in DOMAIN other[structure]
    BY DEF ApartIn
  <2>2. structure \in StructuresOf(payload) /\ structure \in StructuresOf(other)
    BY <1>3, <1>8, <2>1, EmptyIsEmpty
  <2>3. /\ KeptOf(payload)[structure][i] = Kept(structure, payload[structure][i])
        /\ KeptOf(other)[structure][i] = Kept(structure, other[structure][i])
    BY <1>2, <2>1, <2>2
  <2> QED BY <1>8, <2>3
<1> HIDE DEF KeptOf
<1> QED BY <1>5, <1>6, <1>7, <1>8

LEMMA KeptAgree ==
    ASSUME NEW structure, NEW object, NEW field, NEW value
    PROVE  Kept(structure, object) = Kept(structure, WithField(object, field, value)) <=>
               \/ field \in NotKept(structure)
               \/ field \in DOMAIN object /\ Stripped(object[field]) = Stripped(value)
<1> DEFINE edited == WithField(object, field, value)
<1>1. /\ DOMAIN edited = DOMAIN object \cup {field}
      /\ edited[field] = value
      /\ \A f \in DOMAIN object \ {field} : edited[f] = object[f]
  BY DEF WithField
<1> HIDE DEF edited
<1>2. /\ DOMAIN Kept(structure, edited) = DOMAIN edited \ NotKept(structure)
      /\ \A f \in DOMAIN edited \ NotKept(structure) :
            Kept(structure, edited)[f] = Stripped(edited[f])
      /\ DOMAIN Kept(structure, object) = DOMAIN object \ NotKept(structure)
      /\ \A f \in DOMAIN object \ NotKept(structure) :
            Kept(structure, object)[f] = Stripped(object[f])
  BY DEF Kept
<1>3. ASSUME \/ field \in NotKept(structure)
             \/ field \in DOMAIN object /\ Stripped(object[field]) = Stripped(value)
      PROVE  Kept(structure, object) = Kept(structure, edited)
  <2>1. DOMAIN object \ NotKept(structure) = DOMAIN edited \ NotKept(structure)
    BY <1>1, <1>3
  <2>2. \A f \in DOMAIN object \ NotKept(structure) : Stripped(object[f]) = Stripped(edited[f])
    BY <1>1, <1>3
  <2> QED BY <2>1, <2>2 DEF Kept
<1>4. ASSUME Kept(structure, object) = Kept(structure, edited), field \notin NotKept(structure)
      PROVE  field \in DOMAIN object /\ Stripped(object[field]) = Stripped(value)
  BY <1>1, <1>2, <1>4
<1> QED BY <1>3, <1>4 DEF edited

(* The documents that a fingerprint sees *)
IdentityOf(participant) ==
    <<participant.participant_ref, participant.document_type, Digits(participant.document)>>

CriticalIn(participants) == {j \in DOMAIN participants : participants[j].role \in CriticalRoles}

LEMMA IdentitiesAre ==
    ASSUME NEW payload
    PROVE  LET borrower == One(payload, "borrower")
               participants == Objects(payload, "participants")
           IN Identities(payload) =
                 {<<"borrower", borrower.document_type, Digits(borrower.document)>>}
                 \cup {IdentityOf(participants[j]) : j \in CriticalIn(participants)}
  BY DEF Identities, IdentityOf, CriticalIn

LEMMA IdentitiesElsewhere ==
    ASSUME NEW payload, NEW other, NEW structure, NEW i, ApartIn(payload, other, structure, i),
           "borrower" \in DOMAIN payload, structure \notin {"borrower", "participants"}
    PROVE  Identities(payload) = Identities(other)
<1>1. One(other, "borrower") = One(payload, "borrower")
  BY DEF ApartIn, One
<1>2. Objects(other, "participants") = Objects(payload, "participants")
  BY DEF ApartIn, Objects
<1> QED BY <1>1, <1>2, IdentitiesAre

(* A participant's reference is never the word for the borrower. *)
LEMMA ReferencesAreApart ==
    ASSUME NEW payload, Accepts(payload), NEW j \in CriticalIn(Objects(payload, "participants")),
           NEW type, NEW digits
    PROVE  <<"borrower", type, digits>> # IdentityOf(Objects(payload, "participants")[j])
<1>1. Objects(payload, "participants")[j].participant_ref \in Identifier
  BY ParticipantIs DEF CriticalIn
<1>2. Objects(payload, "participants")[j].participant_ref # "borrower"
  BY <1>1 DEF Identifier, PublicTexts
<1> QED BY <1>2 DEF IdentityOf

LEMMA IdentitiesOfBorrower ==
    ASSUME NEW payload, NEW other, ApartIn(payload, other, "borrower", 1),
           Accepts(payload), Accepts(other)
    PROVE  Identities(payload) = Identities(other) <=>
               /\ One(payload, "borrower").document_type = One(other, "borrower").document_type
               /\ Digits(One(payload, "borrower").document) = Digits(One(other, "borrower").document)
<1> DEFINE participants == Objects(payload, "participants")
           one == <<"borrower", One(payload, "borrower").document_type,
                    Digits(One(payload, "borrower").document)>>
           two == <<"borrower", One(other, "borrower").document_type,
                    Digits(One(other, "borrower").document)>>
           rest == {IdentityOf(participants[j]) : j \in CriticalIn(participants)}
<1>1. Objects(other, "participants") = participants
  BY DEF ApartIn, Objects
<1>2. /\ Identities(payload) = {one} \cup rest
      /\ Identities(other) = {two} \cup rest
  BY <1>1, IdentitiesAre
<1>3. one \notin rest
  BY ReferencesAreApart
<1>4. one = two <=>
        /\ One(payload, "borrower").document_type = One(other, "borrower").document_type
        /\ Digits(One(payload, "borrower").document) = Digits(One(other, "borrower").document)
  OBVIOUS
<1> HIDE DEF one, two, rest
<1>5. {one} \cup rest = {two} \cup rest <=> one = two
  BY <1>3
<1> QED BY <1>2, <1>4, <1>5

LEMMA IdentitiesOfParticipant ==
    ASSUME NEW payload, NEW other, NEW i, ApartIn(payload, other, "participants", i),
           "borrower" \in DOMAIN payload, Accepts(payload), Accepts(other),
           payload.participants[i].role \in CriticalRoles
                <=> other.participants[i].role \in CriticalRoles
    PROVE  Identities(payload) = Identities(other) <=>
               (payload.participants[i].role \in CriticalRoles =>
                    IdentityOf(payload.participants[i]) = IdentityOf(other.participants[i]))
<1> DEFINE before == Objects(payload, "participants")
           after == Objects(other, "participants")
           borrower == One(payload, "borrower")
           first == <<"borrower", borrower.document_type, Digits(borrower.document)>>
<1>1. /\ before = payload.participants /\ after = other.participants
      /\ i \in DOMAIN before /\ DOMAIN after = DOMAIN before
      /\ \A j \in DOMAIN before \ {i} : after[j] = before[j]
  BY DEF ApartIn, Objects
<1>2. One(other, "borrower") = borrower
  BY DEF ApartIn, One
<1>3. Distinct(after, "participant_ref")
  BY DEF Accepts, ParticipantsHold
<1>4. \A j \in CriticalIn(after) : first # IdentityOf(after[j])
  BY ReferencesAreApart
<1>5. \A j \in CriticalIn(before) : first # IdentityOf(before[j])
  BY ReferencesAreApart
<1>6. /\ Identities(payload) = {first} \cup {IdentityOf(before[j]) : j \in CriticalIn(before)}
      /\ Identities(other) = {first} \cup {IdentityOf(after[j]) : j \in CriticalIn(after)}
  BY <1>2, IdentitiesAre
<1> HIDE DEF before, after, borrower, first
<1>7. CriticalIn(after) = CriticalIn(before)
  BY <1>1 DEF CriticalIn
<1>8. ASSUME before[i].role \in CriticalRoles => IdentityOf(before[i]) = IdentityOf(after[i])
      PROVE  Identities(payload) = Identities(other)
  <2>1. \A j \in CriticalIn(before) : IdentityOf(before[j]) = IdentityOf(after[j])
    BY <1>1, <1>8 DEF CriticalIn
  <2> QED BY <1>6, <1>7, <2>1
<1>9. ASSUME before[i].role \in CriticalRoles, Identities(payload) = Identities(other)
      PROVE  IdentityOf(before[i]) = IdentityOf(after[i])
  <2>1. i \in CriticalIn(before) /\ i \in CriticalIn(after)
    BY <1>1, <1>7, <1>9 DEF CriticalIn
  <2>2. PICK j \in CriticalIn(before) : IdentityOf(after[i]) = IdentityOf(before[j])
    BY <1>4, <1>6, <1>9, <2>1
  <2>3. CASE j = i
    BY <2>2, <2>3
  <2>4. CASE j # i
    <3>1. j \in DOMAIN after /\ i \in DOMAIN after /\ after[j] = before[j]
      BY <1>1, <2>4 DEF CriticalIn
    <3>2. after[i].participant_ref = after[j].participant_ref
      BY <2>2, <3>1 DEF IdentityOf
    <3> QED BY <1>3, <2>4, <3>1, <3>2 DEF Distinct
  <2> QED BY <2>3, <2>4
<1> QED BY <1>1, <1>8, <1>9

(* Only people have a document. *)
LEMMA DocumentsAreOfPeople ==
    \A structure \in DOMAIN Contract \ (Discarded \cup {"borrower", "participants"}) :
        "document" \notin DOMAIN Contract[structure].values
<1> SUFFICES ASSUME NEW structure \in DOMAIN Contract \ (Discarded \cup {"borrower", "participants"})
             PROVE  "document" \notin DOMAIN Contract[structure].values
  OBVIOUS
<1>1. structure \in {"body", "requested_terms", "personal_credit",
                     "bnpl", "business_credit", "receivables", "callback", "risk_context", "geo",
                     "transaction", "customer_provided_signals", "decision_options"}
  BY DEF Contract, Discarded, ProvidedData
<1>2. CASE structure \in {"body", "requested_terms", "receivables", "callback"}
  <2>1. /\ "document" \notin DOMAIN Body.values
        /\ "document" \notin DOMAIN RequestedTerms.values
        /\ "document" \notin DOMAIN Receivable.values
        /\ "document" \notin DOMAIN Callback.values
    BY DEF Body, RequestedTerms, Receivable, Callback, Object, Each, ++
  <2> QED BY <1>2, <2>1 DEF Contract
<1>3. CASE structure \in {"personal_credit", "bnpl", "business_credit"}
  <2>1. /\ "document" \notin DOMAIN PersonalCredit.values
        /\ "document" \notin DOMAIN Bnpl.values
        /\ "document" \notin DOMAIN BusinessCredit.values
    BY DEF PersonalCredit, Bnpl, BusinessCredit, Object, Each, ++
  <2> QED BY <1>3, <2>1 DEF Contract
<1>4. CASE structure \in {"risk_context", "geo", "transaction", "customer_provided_signals",
                          "decision_options"}
  <2>1. /\ "document" \notin DOMAIN RiskContext.values
        /\ "document" \notin DOMAIN Geo.values
        /\ "document" \notin DOMAIN Transaction.values
        /\ "document" \notin DOMAIN Signals.values
        /\ "document" \notin DOMAIN DecisionOptions.values
    BY DEF RiskContext, Geo, Transaction, Signals, DecisionOptions, Object, Each, ++
  <2> QED BY <1>4, <2>1 DEF Contract
<1> QED BY <1>1, <1>2, <1>3, <1>4

LEMMA EditedApart ==
    ASSUME NEW payload, NEW structure \in DOMAIN payload, NEW i \in DOMAIN payload[structure],
           NEW object
    PROVE  LET other == [payload EXCEPT ![structure][i] = object]
           IN ApartIn(payload, other, structure, i) /\ other[structure][i] = object
  BY DEF ApartIn

(* Two proposals that differ in one field have one fingerprint exactly when   *)
(* no fingerprint sees that field or its values mean the same.                *)
THEOREM FingerprintsDoTellApart ==
    \A payload : IsPayload(payload) =>
        \A structure \in DOMAIN payload : \A i \in DOMAIN payload[structure] :
            \A field, value : FingerprintsTellApart(payload, structure, i, field, value)
<1> SUFFICES ASSUME NEW payload, IsPayload(payload), NEW structure \in DOMAIN payload,
                    NEW i \in DOMAIN payload[structure], NEW field, NEW value
             PROVE  FingerprintsTellApart(payload, structure, i, field, value)
  OBVIOUS
<1>1. PICK object : object = payload[structure][i]
  OBVIOUS
<1>2. PICK edited : edited = WithField(object, field, value)
  OBVIOUS
<1>3. PICK other : other = [payload EXCEPT ![structure][i] = edited]
  OBVIOUS
<1>4. SUFFICES ASSUME Accepts(payload), Accepts(other)
               PROVE  Fingerprint(payload) = Fingerprint(other) <=>
                         (\/ Unseen(structure, object, field)
                          \/ field \in DOMAIN object /\ Same(structure, object, field, value))
  BY <1>1, <1>2, <1>3 DEF FingerprintsTellApart
<1>5. ApartIn(payload, other, structure, i) /\ other[structure][i] = edited
  BY <1>3, EditedApart
<1>6. /\ DOMAIN edited = DOMAIN object \cup {field} /\ edited[field] = value
      /\ \A f \in DOMAIN object \ {field} : edited[f] = object[f]
  BY <1>2 DEF WithField
<1>7. structure \in DOMAIN other /\ i \in DOMAIN other[structure]
      /\ structure \in DOMAIN Contract /\ "borrower" \in DOMAIN payload
  BY <1>4, <1>5 DEF ApartIn, IsPayload, Accepts
<1>8. field \in DOMAIN Contract[structure].values /\ value \in Contract[structure].values[field]
  BY <1>4, <1>5, <1>6, <1>7, ObjectsFit
<1>9. Canonical(payload) = Canonical(other) <=>
         \/ structure \in Discarded
         \/ field \in NotKept(structure)
         \/ field \in DOMAIN object /\ Stripped(object[field]) = Stripped(value)
  BY <1>1, <1>2, <1>5, CanonicalsAgree, KeptAgree
<1>10. Fingerprint(payload) = Fingerprint(other) <=>
          Canonical(payload) = Canonical(other) /\ Identities(payload) = Identities(other)
  BY DEF Fingerprint
<1>11. CASE structure \in Discarded
  <2>1. Identities(payload) = Identities(other)
    <3>1. structure \notin {"borrower", "participants"}
      BY <1>11 DEF Discarded, ProvidedData
    <3> QED BY <1>5, <1>7, <3>1, IdentitiesElsewhere
  <2> QED BY <1>9, <1>10, <1>11, <2>1 DEF Unseen
<1>12. CASE structure = "borrower"
  <2>1. i = 1
    BY <1>12 DEF IsPayload, Lists
  <2>2. One(payload, "borrower") = object /\ One(other, "borrower") = edited
    BY <1>1, <1>5, <1>12, <2>1 DEF One
  <2>3. Identities(payload) = Identities(other) <=>
          object.document_type = edited.document_type
            /\ Digits(object.document) = Digits(edited.document)
    BY <1>5, <1>12, <2>1, <2>2, <1>4, IdentitiesOfBorrower
  <2>4. /\ "document_type" \in DOMAIN object /\ "document" \in DOMAIN object
        /\ object.document_type = edited.document_type
    <3>1. One(other, "body") = One(payload, "body")
      BY <1>5, <1>7, <1>12, <1>4 DEF ApartIn, One, Accepts
    <3>2. /\ {"document_type", "document"} \subseteq DOMAIN object
          /\ object.document_type = DocumentTypeOf(One(payload, "body").person_type)
      BY <1>4, <2>2, BorrowerIs
    <3>3. edited.document_type = DocumentTypeOf(One(other, "body").person_type)
      BY <1>4, <2>2, BorrowerIs
    <3> QED BY <3>1, <3>2, <3>3
  <2>5. field \in NotKept(structure) <=> field # "document_type"
    BY <1>8, <1>12, BorrowerFields DEF NotKept, Contract
  <2>6. structure \notin Discarded
    BY <1>12 DEF Discarded, ProvidedData
  <2>7. CASE field = "document_type"
    <3>1. object[field] = value /\ object.document = edited.document
      BY <1>6, <2>4, <2>7
    <3> QED BY <1>9, <1>10, <2>3, <2>4, <2>7, <3>1 DEF Same
  <2>8. CASE field = "document"
    <3>1. edited.document = value
      BY <1>6, <2>8
    <3> QED BY <1>9, <1>10, <1>12, <2>3, <2>4, <2>5, <2>6, <2>8, <3>1 DEF Same, Unseen
  <2>9. CASE field \notin {"document_type", "document"}
    <3>1. edited.document = object.document
      BY <1>6, <2>4, <2>9
    <3> QED BY <1>9, <1>10, <1>12, <2>3, <2>4, <2>5, <2>9, <3>1 DEF Unseen
  <2> QED BY <2>7, <2>8, <2>9
<1>13. CASE structure = "participants"
  <2>1. /\ payload.participants[i] = object /\ other.participants[i] = edited
        /\ Objects(payload, "participants")[i] = object
        /\ Objects(other, "participants")[i] = edited
        /\ i \in DOMAIN Objects(payload, "participants")
        /\ i \in DOMAIN Objects(other, "participants")
    BY <1>1, <1>5, <1>7, <1>13 DEF Objects
  <2>2. /\ {"participant_ref", "role"} \subseteq DOMAIN object
        /\ object.participant_ref \in Identifier /\ object.role \in Roles
        /\ object.role \in CriticalRoles => {"document_type", "document"} \subseteq DOMAIN object
    BY <1>4, <2>1, ParticipantIs
  <2>3. edited.role \in Roles
    BY <1>4, <2>1, ParticipantIs
  <2>4. structure \notin Discarded
        /\ (field \in NotKept(structure) <=> field \in {"document", "name", "legal_name"})
    BY <1>13 DEF Discarded, ProvidedData, NotKept
  <2>5. ASSUME object.role \in CriticalRoles <=> edited.role \in CriticalRoles
        PROVE  Identities(payload) = Identities(other) <=>
                  (object.role \in CriticalRoles => IdentityOf(object) = IdentityOf(edited))
    BY <1>4, <1>5, <1>7, <1>13, <2>1, <2>5, IdentitiesOfParticipant
  <2>6. IdentityOf(object) = IdentityOf(edited) <=>
          /\ object.participant_ref = edited.participant_ref
          /\ object.document_type = edited.document_type
          /\ Digits(object.document) = Digits(edited.document)
    BY DEF IdentityOf
  <2>7. CASE field = "role"
    <3>1. Stripped(object[field]) = object[field] /\ Stripped(value) = value
      BY <1>6, <2>2, <2>3, <2>7, RolesAssumption DEF Stripped, Text, PublicTexts
    <3>2. CASE object[field] = value
      <4>1. object.role = edited.role
        BY <1>6, <2>7, <3>2
      <4>2. object.role \in CriticalRoles => IdentityOf(object) = IdentityOf(edited)
        BY <1>6, <2>2, <2>6, <2>7
      <4> QED BY <1>9, <1>10, <2>2, <2>5, <2>7, <3>2, <4>1, <4>2 DEF Same
    <3>3. CASE object[field] # value
      BY <1>9, <1>10, <1>13, <2>4, <2>7, <3>1, <3>3 DEF Same, Unseen
    <3> QED BY <3>2, <3>3
  <2>8. ASSUME field # "role"
        PROVE  /\ object.role = edited.role
               /\ Identities(payload) = Identities(other) <=>
                    (object.role \in CriticalRoles => IdentityOf(object) = IdentityOf(edited))
    BY <1>6, <2>2, <2>5, <2>8
  <2>9. CASE field \in {"name", "legal_name"}
    <3>1. object.role \in CriticalRoles => IdentityOf(object) = IdentityOf(edited)
      BY <1>6, <2>2, <2>6, <2>9
    <3> QED BY <1>9, <1>10, <1>13, <2>4, <2>8, <2>9, <3>1 DEF Unseen
  <2>10. CASE field = "document"
    <3>1. CASE object.role \notin CriticalRoles
      BY <1>9, <1>10, <1>13, <2>4, <2>8, <2>10, <3>1 DEF Unseen
    <3>2. CASE object.role \in CriticalRoles
      <4>1. IdentityOf(object) = IdentityOf(edited) <=> Digits(object.document) = Digits(value)
        BY <1>6, <2>2, <2>6, <2>10, <3>2
      <4> QED BY <1>9, <1>10, <1>13, <2>2, <2>4, <2>8, <2>10, <3>2, <4>1 DEF Unseen, Same
    <3> QED BY <3>1, <3>2
  <2>11. CASE field = "participant_ref"
    <3>1. CASE object.role \notin CriticalRoles
      BY <1>9, <1>10, <1>13, <2>2, <2>4, <2>8, <2>11, <3>1 DEF Unseen, Same
    <3>2. CASE object.role \in CriticalRoles
      <4>1. IdentityOf(object) = IdentityOf(edited) <=> object[field] = value
        BY <1>6, <2>2, <2>6, <2>11, <3>2
      <4> QED BY <1>9, <1>10, <1>13, <2>2, <2>4, <2>8, <2>11, <3>2, <4>1 DEF Unseen, Same
    <3> QED BY <3>1, <3>2
  <2>12. CASE field = "document_type"
    <3>1. value \in {"CPF", "CNPJ"} /\ Stripped(value) = value
      BY <1>8, <1>13, <2>12, ParticipantFields DEF Contract, Stripped
    <3>2. field \in DOMAIN object => Stripped(object[field]) = object[field]
      <4>1. field \in DOMAIN object => object[field] \in {"CPF", "CNPJ"}
        BY <1>1, <1>4, <1>13, <2>12, ObjectsFit, ParticipantFields DEF Contract
      <4> QED BY <4>1 DEF Stripped
    <3>3. object.role \in CriticalRoles /\ object[field] = value =>
              IdentityOf(object) = IdentityOf(edited)
      BY <1>6, <2>2, <2>6, <2>12
    <3> QED BY <1>9, <1>10, <1>13, <2>2, <2>4, <2>8, <2>12, <3>1, <3>2, <3>3 DEF Unseen, Same
  <2>13. CASE field \notin {"role", "name", "legal_name", "document", "participant_ref",
                            "document_type"}
    <3>1. object.role \in CriticalRoles => IdentityOf(object) = IdentityOf(edited)
      BY <1>6, <2>2, <2>6, <2>13
    <3> QED BY <1>9, <1>10, <1>13, <2>4, <2>8, <2>13, <3>1 DEF Unseen, Same
  <2> QED BY <2>7, <2>9, <2>10, <2>11, <2>12, <2>13
<1>14. CASE structure \notin Discarded \cup {"borrower", "participants"}
  <2>1. Identities(payload) = Identities(other)
    BY <1>5, <1>7, <1>14, IdentitiesElsewhere
  <2>2. field # "document"
    BY <1>7, <1>8, <1>14, DocumentsAreOfPeople
  <2>3. field \in NotKept(structure) <=> structure = "receivables" /\ field = "document_number"
    BY <1>14 DEF NotKept
  <2> QED BY <1>9, <1>10, <1>14, <2>1, <2>2, <2>3 DEF Unseen, Same
<1> QED BY <1>11, <1>12, <1>13, <1>14

-----------------------------------------------------------------------------
(* A finite set of numbers has a bound. *)
LEMMA FiniteIsBounded ==
    ASSUME NEW S \in SUBSET Int, IsFiniteSet(S)
    PROVE  \E n \in Nat : \A m \in S : m < n
<1> DEFINE Bounded(T) == \E n \in Nat : \A m \in T : m < n
           bad == {n \in Nat : \E T \in SUBSET S : Cardinality(T) = n /\ ~Bounded(T)}
<1>1. SUFFICES ASSUME bad # {} PROVE FALSE
  <2>1. Cardinality(S) \in Nat
    BY FS_CardinalityType
  <2> QED BY <2>1
<1>2. PICK n \in bad : \A m \in bad : n <= m
  BY <1>1, LeastExists
<1>3. PICK T \in SUBSET S : Cardinality(T) = n /\ ~Bounded(T)
  BY <1>2
<1>4. IsFiniteSet(T)
  BY FS_Subset
<1>5. PICK x \in T : TRUE
  BY <1>3
<1>6. Cardinality(T \ {x}) = n - 1 /\ n - 1 \in Nat
  <2>1. IsFiniteSet(T \ {x}) /\ Cardinality(T \ {x}) = n - 1
    BY <1>3, <1>4, <1>5, FS_RemoveElement
  <2> QED BY <2>1, FS_CardinalityType
<1>7. Bounded(T \ {x})
  <2> HIDE DEF Bounded
  <2>1. n - 1 \notin bad
    <3>1. n \in Nat
      BY <1>2
    <3> HIDE DEF bad
    <3> QED BY <1>2, <3>1
  <2> QED BY <1>6, <2>1
<1>8. PICK b \in Nat : \A m \in T \ {x} : m < b
  BY <1>7
<1>9. PICK c \in Nat : c >= b /\ c > x
  <2>1. CASE x < 0
    BY <2>1
  <2>2. CASE x >= 0
    <3>1. x + b + 1 \in Nat /\ x + b + 1 >= b /\ x + b + 1 > x
      BY <2>2
    <3> QED BY <3>1
  <2> QED BY <2>1, <2>2
<1>10. \A m \in T : m < c
  BY <1>8, <1>9
<1> QED BY <1>3, <1>10

(* Two elements are a sequence. *)
LEMMA PairIs ==
    ASSUME NEW S, NEW a \in S, NEW b \in S
    PROVE  /\ <<a, b>> \in Seq(S) /\ Len(<<a, b>>) = 2 /\ <<a, b>> # <<>>
           /\ <<a, b>>[1] = a /\ <<a, b>>[2] = b
  OBVIOUS

(* A set is no larger than one it is mapped into, one element to one. *)
LEMMA InjectionBound ==
    ASSUME NEW T, NEW used, IsFiniteSet(used), NEW f \in Injection(T, used)
    PROVE  Cardinality(T) <= Cardinality(used)
  BY FS_Injection

(* A path is its parent and its place. *)
LEMMA PathParts ==
    ASSUME NEW path \in Seq(Nat), path # <<>>
    PROVE  /\ Len(path) \in Nat \ {0}
           /\ Parent(path) \in Seq(Nat)
           /\ Len(Parent(path)) = Len(path) - 1
           /\ Place(path) \in Nat
           /\ path = Append(Parent(path), Place(path))
           /\ \A n \in 0..Len(path) - 1 :
                /\ SubSeq(Parent(path), 1, n) = SubSeq(path, 1, n)
                /\ SubSeq(path, 1, n) \in Seq(Nat)
                /\ Len(SubSeq(path, 1, n)) = n
<1> DEFINE m == Len(path) - 1
<1>1. Len(path) \in Nat \ {0}
  BY EmptySeq, LenProperties
<1>2. Parent(path) = [i \in 1..m |-> path[i]]
  BY <1>1 DEF Parent
<1>3. Parent(path) \in Seq(Nat) /\ Len(Parent(path)) = m
  BY <1>1, <1>2
<1>4. Place(path) \in Nat
  BY <1>1 DEF Place
<1>5. path = Append(Parent(path), Place(path))
  <2>1. Append(Parent(path), Place(path)) \in Seq(Nat)
        /\ Len(Append(Parent(path), Place(path))) = Len(path)
    BY <1>1, <1>3, <1>4
  <2>2. \A i \in 1..Len(path) : Append(Parent(path), Place(path))[i] = path[i]
    BY <1>1, <1>2, <1>3, <1>4 DEF Place
  <2> QED BY <2>1, <2>2, <1>1
<1>6. ASSUME NEW n \in 0..Len(path) - 1
      PROVE  /\ SubSeq(Parent(path), 1, n) = SubSeq(path, 1, n)
             /\ SubSeq(path, 1, n) \in Seq(Nat)
             /\ Len(SubSeq(path, 1, n)) = n
  BY <1>1, <1>2, <1>3
<1> QED BY <1>1, <1>3, <1>4, <1>5, <1>6

(* Two paths with one parent and one place are one. *)
LEMMA OnePath ==
    ASSUME NEW path \in Seq(Nat), NEW other \in Seq(Nat), path # <<>>, other # <<>>,
           Parent(path) = Parent(other), Place(path) = Place(other)
    PROVE  path = other
  BY PathParts

(* What the definition of a recursive function over places says *)
LEMMA OutputStep ==
    ASSUME NEW keys, DOMAIN keys \in SUBSET Nat, IsFiniteSet(DOMAIN keys)
    PROVE  /\ DOMAIN OutputKeys(keys) = DOMAIN keys
           /\ \A i \in DOMAIN keys :
                OutputKeys(keys)[i] =
                    Deduplicated(SafeKey(keys[i]),
                                 {OutputKeys(keys)[j] : j \in {k \in DOMAIN keys : k < i}})
<1> DEFINE D == DOMAIN keys
           Before(i) == {k \in D : k < i}
           Step(f, i) == Deduplicated(SafeKey(keys[i]), {f[j] : j \in Before(i)})
           Solves(f, n) ==
               /\ f = [i \in Before(n) |-> f[i]]
               /\ \A i \in Before(n) : f[i] = Step(f, i)
           bad == {n \in Nat : ~\E f : Solves(f, n)}
<1>1. bad = {}
  <2>1. SUFFICES ASSUME bad # {} PROVE FALSE
    OBVIOUS
  <2>2. PICK n \in bad : \A m \in bad : n <= m
    BY <2>1, LeastExists
  <2>3. CASE n = 0
    <3>1. Before(0) = {}
      OBVIOUS
    <3>2. Solves([i \in Before(0) |-> 0], 0)
      BY <3>1
    <3> HIDE DEF Solves
    <3> QED BY <3>2, <2>2, <2>3
  <2>4. CASE n # 0
    <3>1. n - 1 \in Nat /\ n - 1 \notin bad
      <4> n \in Nat
        BY <2>2
      <4> HIDE DEF bad
      <4> QED BY <2>2, <2>4
    <3>2. PICK f : Solves(f, n - 1)
      BY <3>1
    <3> DEFINE g == [i \in Before(n) |-> IF i = n - 1 THEN Step(f, n - 1) ELSE f[i]]
    <3>3. \A i \in Before(n) : i # n - 1 => i \in Before(n - 1)
      BY <2>2
    <3>4. ASSUME NEW i \in Before(n) PROVE \A j \in Before(i) : g[j] = f[j]
      BY <2>2
    <3>5. ASSUME NEW i \in Before(n) PROVE g[i] = Step(g, i)
      <4>1. {g[j] : j \in Before(i)} = {f[j] : j \in Before(i)}
        BY <3>4
      <4>2. Step(g, i) = Step(f, i)
        BY <4>1
      <4>3. g[i] = Step(f, i)
        <5> HIDE DEF Step
        <5> QED BY <3>2, <3>3
      <4> QED BY <4>2, <4>3
    <3>6. Solves(g, n)
      <4> HIDE DEF Step
      <4>1. g = [i \in Before(n) |-> g[i]]
        OBVIOUS
      <4> HIDE DEF g
      <4> QED BY <3>5, <4>1
    <3> HIDE DEF Solves, g
    <3> QED BY <3>6, <2>2
  <2> QED BY <2>3, <2>4
<1>2. PICK n \in Nat : \A i \in D : i < n
  BY FiniteIsBounded
<1>3. PICK f : Solves(f, n)
  BY <1>1
<1>4. Before(n) = D
  BY <1>2
<1> HIDE DEF Step
<1>5. f = [i \in D |-> Step(f, i)]
  BY <1>3, <1>4
<1>6. OutputKeys(keys) = CHOOSE output : output = [i \in D |-> Step(output, i)]
  BY DEF OutputKeys, Step
<1>7. OutputKeys(keys) = [i \in D |-> Step(OutputKeys(keys), i)]
  BY <1>5, <1>6
<1> QED BY <1>7 DEF Step

(* A numbered key has the same words and one more. *)
LEMMA NumberedIs ==
    ASSUME NEW key \in NodeKeys, NEW n \in 2..MaxEntries + 1
    PROVE  LET numbered == Numbered(key, n)
           IN /\ numbered.words = Append(key.words, Numeral[n])
              /\ numbered.style = key.style /\ numbered.noisy = key.noisy
              /\ numbered = [words |-> numbered.words, style |-> key.style, noisy |-> key.noisy]
              /\ Len(numbered.words) = Len(key.words) + 1
              /\ numbered.words[Len(key.words) + 1] = Numeral[n]
              /\ \A i \in 1..Len(key.words) : numbered.words[i] = key.words[i]
              /\ numbered.words \in Seq(Words) /\ Numeral[n] \in Words
              /\ key.words # <<>> => numbered \in NodeKeys
<1>1. key.words \in Seq(Words) /\ key = [words |-> key.words, style |-> key.style, noisy |-> key.noisy]
      /\ key.style \in {"snake", "camel", "upper"} /\ key.noisy \in BOOLEAN
      /\ (key.style = "camel" => Len(key.words) > 1)
  BY DEF NodeKeys
<1>2. Numeral[n] \in Words
  BY MaskingAssumption
<1> DEFINE more == Append(key.words, Numeral[n])
<1>3. /\ more \in Seq(Words) /\ Len(more) = Len(key.words) + 1
      /\ more[Len(key.words) + 1] = Numeral[n]
      /\ \A i \in 1..Len(key.words) : more[i] = key.words[i]
  BY <1>1, <1>2
<1>4. Numbered(key, n) = [words |-> more, style |-> key.style, noisy |-> key.noisy]
  BY <1>1 DEF Numbered
<1>5. more # <<>>
  BY <1>1, <1>3
<1> HIDE DEF more
<1>6. key.words # <<>> => Numbered(key, n) \in NodeKeys
  <2>1. key.style = "camel" => Len(more) > 1
    BY <1>1, <1>3
  <2> QED BY <1>1, <1>3, <1>4, <1>5, <2>1 DEF NodeKeys
<1> QED BY <1>1, <1>2, <1>3, <1>4, <1>6 DEF more

(* Numbered keys differ when their numbers do. *)
LEMMA NumbersDiffer ==
    ASSUME NEW key \in NodeKeys, NEW m \in 2..MaxEntries + 1, NEW n \in 2..MaxEntries + 1,
           Numbered(key, m) = Numbered(key, n)
    PROVE  m = n
<1>1. Numeral[m] = Numeral[n]
  BY NumberedIs
<1> QED BY <1>1, MaskingAssumption

(* A key that is used gets a number with which it is not. *)
LEMMA DeduplicatedIs ==
    ASSUME NEW key \in NodeKeys, NEW used, IsFiniteSet(used), Cardinality(used) < MaxEntries
    PROVE  /\ Deduplicated(key, used) \notin used
           /\ \/ key \notin used /\ Deduplicated(key, used) = key
              \/ /\ key \in used
                 /\ \E n \in 2..MaxEntries + 1 : Deduplicated(key, used) = Numbered(key, n)
<1>1. CASE key \notin used
  BY <1>1 DEF Deduplicated
<1>2. CASE key \in used
  <2> DEFINE c == Cardinality(used)
             free == {n \in 2..c + 2 : Numbered(key, n) \notin used}
  <2>1. c \in Nat /\ MaxEntries \in Nat /\ c + 2 <= MaxEntries + 1
    BY FS_CardinalityType, MaskingAssumption
  <2>2. free # {}
    <3>1. SUFFICES ASSUME free = {} PROVE FALSE
      OBVIOUS
    <3> DEFINE f == [n \in 2..c + 2 |-> Numbered(key, n)]
    <3>2. \A m, n \in 2..c + 2 : f[m] = f[n] => m = n
      BY <2>1, NumbersDiffer
    <3>3. f \in [2..c + 2 -> used]
      BY <3>1
    <3>4. f \in Injection(2..c + 2, used)
      BY <3>2, <3>3 DEF Injection, IsInjective
    <3>5. Cardinality(2..c + 2) <= c
      <4> HIDE DEF f
      <4> QED BY <3>4, InjectionBound
    <3>6. Cardinality(2..c + 2) = c + 1
      BY <2>1, FS_Interval
    <3> QED BY <2>1, <3>5, <3>6
  <2>3. PICK n \in free : \A m \in free : n <= m
    <3>1. free \in SUBSET Nat
      BY <2>1
    <3> QED BY <2>2, <3>1, LeastExists
  <2> DEFINE IsFirst(n1) == /\ Numbered(key, n1) \notin used
                            /\ \A m \in 2..n1 - 1 : Numbered(key, m) \in used
             first == CHOOSE n1 \in 2..c + 2 : IsFirst(n1)
  <2>4. IsFirst(n) /\ n \in 2..c + 2
    <3>1. \A m \in 2..n - 1 : m \in 2..c + 2 /\ m \notin free
      BY <2>1, <2>3
    <3> QED BY <2>3, <3>1
  <2>5. Deduplicated(key, used) = Numbered(key, first)
    BY <1>2 DEF Deduplicated
  <2>6. first \in 2..c + 2 /\ IsFirst(first)
    <3> HIDE DEF IsFirst
    <3> QED BY <2>4
  <2>7. Numbered(key, first) \notin used
    BY <2>6
  <2> HIDE DEF first
  <2>8. first \in 2..MaxEntries + 1
    BY <2>1, <2>6
  <2> QED BY <1>2, <2>5, <2>7, <2>8
<1> QED BY <1>1, <1>2

(* What is removed from a key leaves a key of words that are printed. *)
LEMMA SafeKeyIs ==
    ASSUME NEW key \in NodeKeys
    PROVE  /\ SafeKey(key) \in NodeKeys /\ SafeKey(key).words # <<>> /\ ~SafeKey(key).noisy
           /\ key.words # <<>> =>
                SafeKey(key) = [words |-> key.words, style |-> key.style, noisy |-> FALSE]
           /\ key.words = <<>> => SafeKey(key) = Key(<<"omitted", "key">>)
           /\ key.words # <<>> /\ ~key.noisy => SafeKey(key) = key
<1>1. key.words \in Seq(Words) /\ key = [words |-> key.words, style |-> key.style, noisy |-> key.noisy]
      /\ key.style \in {"snake", "camel", "upper"} /\ key.noisy \in BOOLEAN
      /\ (key.words = <<>> => key.style = "snake")
      /\ (key.style = "camel" => Len(key.words) > 1)
  BY DEF NodeKeys
<1>2. CASE key.words = <<>>
  <2>1. <<"omitted", "key">> \in Seq(Words) /\ <<"omitted", "key">> # <<>>
    BY MaskingAssumption, PairIs
  <2>2. SafeKey(key) = [words |-> <<"omitted", "key">>, style |-> "snake", noisy |-> FALSE]
    BY <1>2 DEF SafeKey, Key
  <2> QED BY <1>2, <2>1, <2>2 DEF NodeKeys, Key
<1>3. CASE key.words # <<>>
  <2>1. SafeKey(key) = [words |-> key.words, style |-> key.style, noisy |-> FALSE]
    BY <1>1, <1>3 DEF SafeKey
  <2> QED BY <1>1, <1>3, <2>1 DEF NodeKeys
<1> QED BY <1>2, <1>3

(* What a function makes of a finite set is no larger. *)
LEMMA ImageBound ==
    ASSUME NEW f, NEW B, IsFiniteSet(B)
    PROVE  IsFiniteSet({f[j] : j \in B}) /\ Cardinality({f[j] : j \in B}) <= Cardinality(B)
<1> DEFINE T == {f[j] : j \in B}
           g == [j \in B |-> f[j]]
<1>1. g \in Surjection(B, T)
  BY DEF Surjection
<1> HIDE DEF g, T
<1>2. IsFiniteSet(T) /\ Cardinality(T) <= Cardinality(B)
  BY <1>1, FS_Surjection
<1> QED BY <1>2 DEF T

(* The keys of a mapping of not too many entries *)
AreKeys(keys) ==
    /\ DOMAIN keys \in SUBSET Nat
    /\ IsFiniteSet(DOMAIN keys)
    /\ Cardinality(DOMAIN keys) <= MaxEntries
    /\ \A i \in DOMAIN keys : keys[i] \in NodeKeys

(* What each key becomes: itself without what is not printed, or a number of  *)
(* it when an earlier key took that; and no key is given twice.               *)
LEMMA OutputIs ==
    ASSUME NEW keys, AreKeys(keys)
    PROVE  LET out == OutputKeys(keys)
               D == DOMAIN keys
           IN /\ DOMAIN out = D
              /\ \A i \in D :
                  /\ \A j \in D : j < i => out[i] # out[j]
                  /\ \/ /\ out[i] = SafeKey(keys[i])
                        /\ \A j \in D : j < i => out[j] # SafeKey(keys[i])
                     \/ /\ \E j \in D : j < i /\ out[j] = SafeKey(keys[i])
                        /\ \E n \in 2..MaxEntries + 1 : out[i] = Numbered(SafeKey(keys[i]), n)
<1> DEFINE out == OutputKeys(keys)
           D == DOMAIN keys
           Before(i) == {k \in D : k < i}
           Used(i) == {out[j] : j \in Before(i)}
<1>1. /\ D \in SUBSET Nat /\ IsFiniteSet(D) /\ Cardinality(D) <= MaxEntries
      /\ \A i \in D : keys[i] \in NodeKeys
  BY DEF AreKeys
<1>2. DOMAIN out = D /\ \A i \in D : out[i] = Deduplicated(SafeKey(keys[i]), Used(i))
  BY <1>1, OutputStep
<1>3. ASSUME NEW i \in D
      PROVE  IsFiniteSet(Used(i)) /\ Cardinality(Used(i)) < MaxEntries
  <2>1. Before(i) \in SUBSET (D \ {i})
    BY <1>1
  <2>2. IsFiniteSet(D \ {i}) /\ Cardinality(D \ {i}) = Cardinality(D) - 1
    BY <1>1, FS_RemoveElement
  <2> HIDE DEF Before, D
  <2>3. IsFiniteSet(Before(i)) /\ Cardinality(Before(i)) <= Cardinality(D \ {i})
    BY <2>1, <2>2, FS_Subset
  <2> HIDE DEF out
  <2>4. IsFiniteSet(Used(i)) /\ Cardinality(Used(i)) <= Cardinality(Before(i))
    BY <2>3, ImageBound
  <2>5. Cardinality(Used(i)) \in Nat /\ Cardinality(Before(i)) \in Nat /\ Cardinality(D) \in Nat
    <3> HIDE DEF Used
    <3> QED BY <1>1, <2>3, <2>4, FS_CardinalityType
  <2>6. MaxEntries \in Nat
    BY MaskingAssumption
  <2> HIDE DEF Used
  <2> QED BY <1>1, <2>2, <2>3, <2>4, <2>5, <2>6
<1>4. ASSUME NEW i \in D
      PROVE  /\ out[i] \notin Used(i)
             /\ \/ SafeKey(keys[i]) \notin Used(i) /\ out[i] = SafeKey(keys[i])
                \/ /\ SafeKey(keys[i]) \in Used(i)
                   /\ \E n \in 2..MaxEntries + 1 : out[i] = Numbered(SafeKey(keys[i]), n)
  <2>1. SafeKey(keys[i]) \in NodeKeys
    BY <1>1, SafeKeyIs
  <2> HIDE DEF Used, out
  <2> QED BY <1>2, <1>3, <2>1, DeduplicatedIs
<1>5. ASSUME NEW i \in D, NEW j \in D, j < i
      PROVE  out[j] \in Used(i)
  BY <1>5
<1>6. ASSUME NEW i \in D, NEW key \in Used(i)
      PROVE  \E j \in D : j < i /\ out[j] = key
  OBVIOUS
<1> HIDE DEF out, Used
<1> SUFFICES ASSUME NEW i \in D
             PROVE  /\ \A j \in D : j < i => out[i] # out[j]
                    /\ \/ /\ out[i] = SafeKey(keys[i])
                          /\ \A j \in D : j < i => out[j] # SafeKey(keys[i])
                       \/ /\ \E j \in D : j < i /\ out[j] = SafeKey(keys[i])
                          /\ \E n \in 2..MaxEntries + 1 : out[i] = Numbered(SafeKey(keys[i]), n)
  BY <1>2 DEF out
<1> QED BY <1>4, <1>5, <1>6

(* Keys that are given are printed, have words and differ. *)
LEMMA OutputTypes ==
    ASSUME NEW keys, AreKeys(keys), NEW i \in DOMAIN keys
    PROVE  LET key == OutputKeys(keys)[i]
           IN /\ key \in NodeKeys /\ key.words # <<>> /\ ~key.noisy
              /\ \A j \in DOMAIN keys : OutputKeys(keys)[j] = key => i = j
<1> DEFINE out == OutputKeys(keys)
<1>1. DOMAIN keys \in SUBSET Nat /\ keys[i] \in NodeKeys
  BY DEF AreKeys
<1>2. \/ out[i] = SafeKey(keys[i])
      \/ \E n \in 2..MaxEntries + 1 : out[i] = Numbered(SafeKey(keys[i]), n)
  BY OutputIs
<1>3. SafeKey(keys[i]) \in NodeKeys /\ SafeKey(keys[i]).words # <<>> /\ ~SafeKey(keys[i]).noisy
  BY <1>1, SafeKeyIs
<1>4. out[i] \in NodeKeys /\ out[i].words # <<>> /\ ~out[i].noisy
  <2>1. CASE out[i] = SafeKey(keys[i])
    BY <2>1, <1>3
  <2>2. ASSUME NEW n \in 2..MaxEntries + 1, out[i] = Numbered(SafeKey(keys[i]), n)
        PROVE  out[i] \in NodeKeys /\ out[i].words # <<>> /\ ~out[i].noisy
    <3>1. /\ out[i] \in NodeKeys /\ out[i].noisy = SafeKey(keys[i]).noisy
          /\ out[i].words \in Seq(Words) /\ Len(out[i].words) = Len(SafeKey(keys[i]).words) + 1
      BY <1>3, <2>2, NumberedIs
    <3>2. Len(SafeKey(keys[i]).words) \in Nat
      BY <1>3 DEF NodeKeys
    <3>3. out[i].words # <<>>
      BY <3>1, <3>2
    <3> QED BY <1>3, <3>1, <3>3
  <2> QED BY <1>2, <2>1, <2>2
<1>5. \A j \in DOMAIN keys : out[j] = out[i] => i = j
  <2>1. \A j \in DOMAIN keys : ~(j < i /\ out[i] = out[j]) /\ ~(i < j /\ out[j] = out[i])
    BY OutputIs
  <2> HIDE DEF out
  <2> QED BY <1>1, <2>1
<1> QED BY <1>4, <1>5

(* Keys that are printed, have words and differ are given as they are. *)
LEMMA OutputOfSafeKeys ==
    ASSUME NEW keys, AreKeys(keys),
           \A i \in DOMAIN keys : keys[i].words # <<>> /\ ~keys[i].noisy,
           \A i, j \in DOMAIN keys : keys[i] = keys[j] => i = j
    PROVE  \A i \in DOMAIN keys : OutputKeys(keys)[i] = keys[i]
<1> DEFINE out == OutputKeys(keys)
           bad == {i \in DOMAIN keys : out[i] # keys[i]}
<1>1. SUFFICES ASSUME bad # {} PROVE FALSE
  OBVIOUS
<1>2. bad \in SUBSET Nat
  BY DEF AreKeys
<1>3. PICK i \in bad : \A j \in bad : i <= j
  BY <1>1, <1>2, LeastExists
<1>4. SafeKey(keys[i]) = keys[i]
  BY SafeKeyIs DEF AreKeys
<1>5. PICK j \in DOMAIN keys : j < i /\ out[j] = keys[i]
  BY <1>3, <1>4, OutputIs
<1>6. j \notin bad
  BY <1>2, <1>3, <1>5
<1> QED BY <1>5, <1>6, <1>3, <1>2

(* Values by their kinds *)
LEMMA ValueKinds ==
    ASSUME NEW value \in NodeValues
    PROVE  /\ value.kind \in {"text", "omitted", "number", "bytes", "set", "back", "list", "mapping"}
           /\ value.kind = "text" <=> value \in TextValues
           /\ value.kind = "omitted" <=> value \in {Omitted, FinancialOmitted}
           /\ value.kind = "bytes" <=> value = Bytes
           /\ value.kind = "set" <=> value = Other
           /\ value.kind = "back" <=> value = Back
           /\ value.kind = "list" <=> value = List
           /\ value.kind = "mapping" <=> value = Mapping
           /\ value.kind \in {"list", "mapping"} <=> value \in Containers
<1>1. \A text \in TextValues : text.kind = "text"
  BY DEF TextValues
<1>2. \A number \in [kind : {"number"}, shows : SUBSET Shown] : number.kind = "number"
  OBVIOUS
<1>3. /\ Omitted.kind = "omitted" /\ FinancialOmitted.kind = "omitted" /\ Bytes.kind = "bytes"
      /\ Other.kind = "set" /\ Back.kind = "back" /\ List.kind = "list" /\ Mapping.kind = "mapping"
  BY DEF Omitted, FinancialOmitted, Bytes, Other, Back, List, Mapping
<1> QED BY <1>1, <1>2, <1>3 DEF NodeValues, Containers

(* A text of which less is shown is a text. *)
LEMMA MaskTextIs ==
    ASSUME NEW text \in TextValues
    PROVE  LET less == MaskText(text)
           IN /\ less \in TextValues /\ less.kind = "text" /\ less.words = text.words
              /\ less.shows = text.shows \ {"cpf", "cnpj", "email", "phone", "credential"}
              /\ "digest" \in text.shows => less = text
              /\ MaskText(less) = less
<1> DEFINE hidden == {"cpf", "cnpj", "email", "phone", "credential"}
           less == MaskText(text)
<1>1. /\ text = [kind |-> "text", shows |-> text.shows, words |-> text.words]
      /\ text.shows \subseteq Shown /\ text.words \subseteq Seq(Words)
      /\ "digest" \in text.shows => text.shows \subseteq {"digest", "run"}
  BY DEF TextValues
<1>2. less = [kind |-> "text", shows |-> text.shows \ hidden, words |-> text.words]
  <2>1. \A a, b, c : [[kind |-> "text", shows |-> a, words |-> b] EXCEPT !.shows = @ \ c]
            = [kind |-> "text", shows |-> a \ c, words |-> b]
    OBVIOUS
  <2>2. MaskText(text) = [text EXCEPT !.shows = @ \ hidden]
    BY DEF MaskText
  <2> HIDE DEF hidden
  <2> QED BY <1>1, <2>1, <2>2
<1>3. "digest" \in text.shows => text.shows \ hidden = text.shows
  BY <1>1
<1>4. (text.shows \ hidden) \ hidden = text.shows \ hidden
  OBVIOUS
<1> HIDE DEF hidden
<1>5. MaskText(less) = less
  BY <1>2, <1>4 DEF MaskText, hidden
<1>6. less \in TextValues
  <2>1. "digest" \in text.shows \ hidden => text.shows \ hidden \subseteq {"digest", "run"}
    BY <1>1
  <2>2. text.shows \ hidden \subseteq Shown
    BY <1>1
  <2> HIDE DEF less
  <2> QED BY <1>1, <1>2, <2>1, <2>2 DEF TextValues
<1> QED BY <1>1, <1>2, <1>3, <1>5, <1>6 DEF hidden

(* No list has the empty key. *)
LEMMA NoWords ==
    /\ ~IsOmitted(<<>>) /\ ~IsFinancial(<<>>)
    /\ <<>> \notin SafeReferences /\ <<>> \notin SafeTechnical
<1> DEFINE Some(fragments) == \A f \in fragments : Len(f) > 0
<1>1. Len(<<>>) = 0
  OBVIOUS
<1>2. \A m, n \in 0..0 : SubSeq(<<>>, m + 1, n) = <<>>
  OBVIOUS
<1>3. /\ Some(SecretFragments) /\ Some(SecretSuffixes) /\ Some(PayloadFragments)
      /\ Some(IdentifierFragments) /\ Some(FinancialFragments) /\ Some(FinancialKeys)
      /\ Some(PayloadKeys) /\ Some(SafeReferences) /\ Some(SafeTechnical)
  BY DEF SecretFragments, SecretSuffixes, PayloadFragments, IdentifierFragments,
         FinancialFragments, FinancialKeys, PayloadKeys, SafeReferences, SafeTechnical
<1>4. ASSUME NEW fragments, Some(fragments)
      PROVE  /\ ~Among(<<>>, fragments) /\ <<>> \notin fragments
             /\ \A m \in 0..Len(<<>>) : SubSeq(<<>>, m + 1, Len(<<>>)) \notin fragments
  <2>1. <<>> \notin fragments
    BY <1>1, <1>4
  <2> HIDE DEF Some
  <2>2. 0..Len(<<>>) = {0}
    BY <1>1
  <2>3. SubSeq(<<>>, 0 + 1, 0) = <<>>
    BY <1>2
  <2>4. \A m, n \in {0} : SubSeq(<<>>, m + 1, n) \notin fragments
    BY <2>1, <2>3
  <2>5. \A m \in {0} : SubSeq(<<>>, m + 1, Len(<<>>)) \notin fragments
    BY <1>1, <2>4
  <2>6. ~Among(<<>>, fragments)
    BY <2>2, <2>4 DEF Among
  <2> QED BY <2>1, <2>2, <2>5, <2>6
<1> HIDE DEF Some
<1> QED BY <1>3, <1>4 DEF IsOmitted, IsFinancial, IsSecret

(* What masking makes of a value: the value of a container or nothing of it *)
LEMMA MaskedValueIs ==
    ASSUME NEW value \in NodeValues, NEW key \in NodeKeys, NEW depth \in Nat
    PROVE  LET masked == MaskedValue(value, key, depth)
           IN /\ masked \in NodeValues
              /\ masked \in Containers => masked = value
              /\ masked.kind \notin {"bytes", "back"}
<1> DEFINE masked == MaskedValue(value, key, depth)
<1>1. MaxMaskingDepth \in Nat
  BY MaskingAssumption
<1>2. \/ masked \in {Omitted, FinancialOmitted}
      \/ value.kind = "text" /\ masked \in {value, MaskText(value)}
      \/ masked = TextOf({}, {})
      \/ value.kind \notin {"bytes", "back", "text"} /\ masked = value
  BY <1>1 DEF MaskedValue, SafeReference, SafeTechnicalValue
<1>3. TextOf({}, {}) \in TextValues
  BY DEF TextOf, TextValues
<1>4. TextValues \subseteq NodeValues /\ {Omitted, FinancialOmitted} \subseteq NodeValues
  BY DEF NodeValues
<1>5. masked \in NodeValues
  <2>1. value.kind = "text" => value \in TextValues /\ MaskText(value) \in TextValues
    BY ValueKinds, MaskTextIs
  <2> HIDE DEF masked
  <2> QED BY <1>2, <1>3, <1>4, <2>1
<1>6. \/ masked.kind \in {"text", "omitted"}
      \/ value.kind \notin {"bytes", "back", "text"} /\ masked = value
  <2>1. value.kind = "text" => value \in TextValues /\ MaskText(value) \in TextValues
    BY ValueKinds, MaskTextIs
  <2>2. \A text \in TextValues : text.kind = "text"
    BY <1>4, ValueKinds
  <2>3. Omitted.kind = "omitted" /\ FinancialOmitted.kind = "omitted"
    BY DEF Omitted, FinancialOmitted
  <2> QED BY <1>2, <1>3, <2>1, <2>2, <2>3
<1> QED BY <1>5, <1>6, ValueKinds DEF masked

(* A container without a key is not left out above the limit. *)
LEMMA MaskedWithoutKey ==
    ASSUME NEW value \in NodeValues, NEW depth \in 0..MaxMaskingDepth
    PROVE  MaskedValue(value, NoKey, depth) =
             CASE value.kind \in {"bytes", "back"} -> Omitted
               [] value.kind = "text" -> MaskText(value)
               [] OTHER -> value
<1>1. Normalized(NoKey) = <<>>
  BY DEF Normalized, NoKey, Key
<1>2. MaxMaskingDepth \in Nat
  BY MaskingAssumption
<1> QED BY <1>1, <1>2, NoWords DEF MaskedValue

(* Nodes of a tree and their parents *)
LEMMA TreeNodes ==
    ASSUME NEW payload, IsTree(payload)
    PROVE  /\ <<>> \in DOMAIN payload /\ IsFiniteSet(DOMAIN payload)
           /\ \A path \in DOMAIN payload :
                /\ path \in Seq(Nat) /\ Len(path) \in Nat
                /\ payload[path] = Node(payload[path].key, payload[path].value)
                /\ payload[path].key \in NodeKeys /\ payload[path].value \in NodeValues
                /\ ~IsEntry(payload, path) => payload[path].key = NoKey
                /\ path # <<>> =>
                    /\ Parent(path) \in DOMAIN payload
                    /\ payload[Parent(path)].value \in Containers
<1>1. \A path \in DOMAIN payload : path \in Seq(Nat) /\ Len(path) \in Nat
  BY DEF IsTree
<1>2. \A path \in DOMAIN payload : payload[path] \in [key : NodeKeys, value : NodeValues]
  BY DEF IsTree
<1>3. \A path \in DOMAIN payload :
        /\ payload[path] = Node(payload[path].key, payload[path].value)
        /\ payload[path].key \in NodeKeys /\ payload[path].value \in NodeValues
  BY <1>2 DEF Node
<1> QED BY <1>1, <1>3 DEF IsTree

(* The keys of the entries of a mapping *)
LEMMA TreeKeys ==
    ASSUME NEW payload, IsTree(payload), NEW parent \in DOMAIN payload
    PROVE  LET keys == KeysUnder(payload, parent)
           IN /\ AreKeys(keys)
              /\ \A path \in DOMAIN payload :
                   path # <<>> /\ Parent(path) = parent =>
                       Place(path) \in DOMAIN keys /\ keys[Place(path)] = payload[path].key
              /\ \A i \in DOMAIN keys :
                   \E path \in DOMAIN payload :
                       path # <<>> /\ Parent(path) = parent /\ Place(path) = i
<1> DEFINE Q == {p \in DOMAIN payload \ {<<>>} : Parent(p) = parent}
           D == {Place(path) : path \in Q}
           keys == KeysUnder(payload, parent)
<1>1. DOMAIN keys = D /\ \A i \in D : keys[i] = payload[Append(parent, i)].key
  BY DEF KeysUnder
<1>2. ASSUME NEW path \in Q
      PROVE  Place(path) \in Nat /\ Append(parent, Place(path)) = path
  BY TreeNodes, PathParts
<1>3. \A i \in D : keys[i] \in NodeKeys
  BY <1>1, <1>2, TreeNodes
<1>4. IsFiniteSet(D)
  <2> DEFINE f == [path \in Q |-> Place(path)]
  <2>1. Q \in SUBSET DOMAIN payload /\ IsFiniteSet(DOMAIN payload)
    BY TreeNodes
  <2> HIDE DEF Q
  <2>2. IsFiniteSet(Q)
    BY <2>1, FS_Subset
  <2> HIDE DEF f
  <2>3. IsFiniteSet({f[path] : path \in Q})
    BY <2>2, ImageBound
  <2>4. {f[path] : path \in Q} = D
    BY DEF f
  <2> HIDE DEF D
  <2> QED BY <2>3, <2>4
<1>5. Cardinality(DOMAIN keys) <= MaxEntries
  BY DEF IsTree
<1>6. AreKeys(keys)
  <2>1. D \in SUBSET Nat
    BY <1>2
  <2> HIDE DEF D, keys
  <2> QED BY <1>1, <1>3, <1>4, <1>5, <2>1 DEF AreKeys
<1>7. \A path \in Q : Place(path) \in D /\ keys[Place(path)] = payload[path].key
  BY <1>1, <1>2
<1> HIDE DEF keys
<1> QED BY <1>1, <1>6, <1>7 DEF keys

(* What masking makes of the value at a path *)
LEMMA MaskedAtIs ==
    ASSUME NEW payload, IsTree(payload), NEW path \in DOMAIN payload
    PROVE  LET masked == MaskedAt(payload, path)
           IN /\ masked \in NodeValues
              /\ masked \in Containers => masked = payload[path].value
              /\ masked.kind \notin {"bytes", "back"}
<1>1. NoKey \in NodeKeys
  <2>1. NoKey = [words |-> <<>>, style |-> "snake", noisy |-> FALSE]
    BY DEF NoKey, Key
  <2>2. <<>> \in Seq(Words)
    OBVIOUS
  <2> QED BY <2>1, <2>2 DEF NodeKeys
<1>2. SafeKey(payload[path].key) \in NodeKeys
  BY TreeNodes, SafeKeyIs
<1>3. payload[path].value \in NodeValues /\ Len(path) \in Nat
  BY TreeNodes
<1> QED BY <1>1, <1>2, <1>3, MaskedValueIs DEF MaskedAt

(* A path is kept with its parent, when that stays a container. *)
LEMMA KeptWithParents ==
    ASSUME NEW payload, IsTree(payload)
    PROVE  /\ <<>> \in KeptPaths(payload)
           /\ \A path \in DOMAIN payload \ {<<>>} :
                path \in KeptPaths(payload) <=>
                    /\ Parent(path) \in KeptPaths(payload)
                    /\ MaskedAt(payload, Parent(path)) \in Containers
<1>1. <<>> \in KeptPaths(payload)
  <2>1. 0..Len(<<>>) - 1 = {}
    OBVIOUS
  <2> QED BY <2>1, TreeNodes DEF KeptPaths
<1>2. ASSUME NEW path \in DOMAIN payload \ {<<>>}
      PROVE  path \in KeptPaths(payload) <=>
                    /\ Parent(path) \in KeptPaths(payload)
                    /\ MaskedAt(payload, Parent(path)) \in Containers
  <2> DEFINE m == Len(path) - 1
             Stays(p) == MaskedAt(payload, p) \in Containers
  <2>1. /\ path \in Seq(Nat) /\ path # <<>> /\ m \in Nat
        /\ Parent(path) \in DOMAIN payload /\ Len(Parent(path)) = m
        /\ \A n \in 0..m : SubSeq(Parent(path), 1, n) = SubSeq(path, 1, n)
    BY TreeNodes, PathParts
  <2>2. 0..m = (0..m - 1) \cup {m}
    BY <2>1
  <2>3. SubSeq(path, 1, m) = Parent(path)
    BY DEF Parent
  <2>4. path \in KeptPaths(payload) <=> \A n \in 0..m : Stays(SubSeq(path, 1, n))
    BY DEF KeptPaths
  <2>5. Parent(path) \in KeptPaths(payload) <=> \A n \in 0..m - 1 : Stays(SubSeq(Parent(path), 1, n))
    BY <2>1 DEF KeptPaths
  <2> HIDE DEF Stays, m
  <2>6. \A n \in 0..m - 1 : SubSeq(Parent(path), 1, n) = SubSeq(path, 1, n)
    BY <2>1, <2>2
  <2>7. (\A n \in 0..m : Stays(SubSeq(path, 1, n)))
        <=> (\A n \in 0..m - 1 : Stays(SubSeq(path, 1, n))) /\ Stays(SubSeq(path, 1, m))
    BY <2>2
  <2>8. (\A n \in 0..m - 1 : Stays(SubSeq(path, 1, n)))
        <=> \A n \in 0..m - 1 : Stays(SubSeq(Parent(path), 1, n))
    BY <2>6
  <2> QED BY <2>3, <2>4, <2>5, <2>7, <2>8 DEF Stays
<1> QED BY <1>1, <1>2

(* The nodes of a masked payload *)
LEMMA MaskedNodes ==
    ASSUME NEW payload, IsTree(payload)
    PROVE  LET masked == MaskSensitiveData(payload)
           IN /\ DOMAIN masked = KeptPaths(payload) /\ DOMAIN masked \subseteq DOMAIN payload
              /\ <<>> \in DOMAIN masked
              /\ \A path \in DOMAIN masked :
                   /\ masked[path] = Node(masked[path].key, masked[path].value)
                   /\ masked[path].value = MaskedAt(payload, path)
                   /\ IsEntry(masked, path) <=> IsEntry(payload, path)
                   /\ ~IsEntry(payload, path) => masked[path].key = NoKey
                   /\ IsEntry(payload, path) =>
                        masked[path].key =
                            OutputKeys(KeysUnder(payload, Parent(path)))[Place(path)]
                   /\ path # <<>> =>
                        /\ Parent(path) \in DOMAIN masked
                        /\ masked[Parent(path)].value \in Containers
                        /\ masked[Parent(path)].value = payload[Parent(path)].value
<1> DEFINE masked == MaskSensitiveData(payload)
<1>1. DOMAIN masked = KeptPaths(payload) /\ DOMAIN masked \subseteq DOMAIN payload
  BY DEF MaskSensitiveData, KeptPaths
<1>2. <<>> \in DOMAIN masked
  BY <1>1, KeptWithParents
<1>3. ASSUME NEW path \in DOMAIN masked
      PROVE  masked[path] =
                Node(IF IsEntry(payload, path)
                     THEN OutputKeys(KeysUnder(payload, Parent(path)))[Place(path)] ELSE NoKey,
                     MaskedAt(payload, path))
  BY <1>1 DEF MaskSensitiveData
<1> HIDE DEF masked
<1>4. ASSUME NEW path \in DOMAIN masked, path # <<>>
      PROVE  /\ Parent(path) \in DOMAIN masked
             /\ masked[Parent(path)].value \in Containers
             /\ masked[Parent(path)].value = payload[Parent(path)].value
  <2>1. Parent(path) \in DOMAIN masked /\ MaskedAt(payload, Parent(path)) \in Containers
    BY <1>1, <1>4, KeptWithParents
  <2>2. masked[Parent(path)].value = MaskedAt(payload, Parent(path))
    BY <1>3, <2>1 DEF Node
  <2>3. MaskedAt(payload, Parent(path)) = payload[Parent(path)].value
    BY <1>1, <2>1, MaskedAtIs
  <2> QED BY <2>1, <2>2, <2>3
<1>5. ASSUME NEW path \in DOMAIN masked
      PROVE  IsEntry(masked, path) <=> IsEntry(payload, path)
  BY <1>4 DEF IsEntry
<1>6. ASSUME NEW path \in DOMAIN masked
      PROVE  /\ masked[path] = Node(masked[path].key, masked[path].value)
             /\ masked[path].value = MaskedAt(payload, path)
             /\ ~IsEntry(payload, path) => masked[path].key = NoKey
             /\ IsEntry(payload, path) =>
                  masked[path].key = OutputKeys(KeysUnder(payload, Parent(path)))[Place(path)]
  BY <1>3 DEF Node
<1> QED BY <1>1, <1>2, <1>4, <1>5, <1>6 DEF masked

(* The keys of a masked payload are printed, have words and differ. *)
LEMMA MaskedKeys ==
    ASSUME NEW payload, IsTree(payload),
           NEW path \in DOMAIN MaskSensitiveData(payload), IsEntry(payload, path)
    PROVE  LET masked == MaskSensitiveData(payload)
           IN /\ masked[path].key \in NodeKeys
              /\ masked[path].key.words # <<>> /\ ~masked[path].key.noisy
              /\ \A other \in DOMAIN masked \ {<<>>} :
                   Parent(other) = Parent(path) /\ masked[other].key = masked[path].key
                   => other = path
<1> DEFINE masked == MaskSensitiveData(payload)
           keys == KeysUnder(payload, Parent(path))
<1>1. /\ path \in DOMAIN payload /\ path # <<>> /\ Parent(path) \in DOMAIN payload
      /\ DOMAIN masked \subseteq DOMAIN payload
  BY MaskedNodes, TreeNodes DEF IsEntry
<1>2. AreKeys(keys)
  BY <1>1, TreeKeys
<1>3. ASSUME NEW other \in DOMAIN masked \ {<<>>}, Parent(other) = Parent(path)
      PROVE  /\ Place(other) \in DOMAIN keys
             /\ masked[other].key = OutputKeys(keys)[Place(other)]
  <2>1. IsEntry(payload, other)
    BY <1>3 DEF IsEntry
  <2>2. masked[other].key = OutputKeys(keys)[Place(other)]
    BY <1>3, <2>1, MaskedNodes
  <2>3. Place(other) \in DOMAIN keys
    BY <1>1, <1>3, TreeKeys
  <2> QED BY <2>2, <2>3
<1>4. Place(path) \in DOMAIN keys /\ masked[path].key = OutputKeys(keys)[Place(path)]
  BY <1>1, <1>3
<1>5. /\ masked[path].key \in NodeKeys
      /\ masked[path].key.words # <<>> /\ ~masked[path].key.noisy
      /\ \A j \in DOMAIN keys : OutputKeys(keys)[j] = masked[path].key => j = Place(path)
  <2> HIDE DEF masked, keys
  <2> QED BY <1>2, <1>4, OutputTypes
<1>6. ASSUME NEW other \in DOMAIN masked \ {<<>>},
             Parent(other) = Parent(path), masked[other].key = masked[path].key
      PROVE  other = path
  <2>1. Place(other) = Place(path)
    BY <1>3, <1>5, <1>6
  <2>2. path \in Seq(Nat) /\ other \in Seq(Nat) /\ other # <<>>
    BY <1>1, TreeNodes
  <2> HIDE DEF masked, keys
  <2> QED BY <1>1, <1>6, <2>1, <2>2, OnePath
<1> QED BY <1>5, <1>6

(* What masking makes of a payload is a payload. *)
LEMMA MaskedIsTree ==
    ASSUME NEW payload, IsTree(payload)
    PROVE  IsTree(MaskSensitiveData(payload))
<1> DEFINE masked == MaskSensitiveData(payload)
<1>1. /\ DOMAIN masked \subseteq DOMAIN payload /\ <<>> \in DOMAIN masked
      /\ IsFiniteSet(DOMAIN payload) /\ DOMAIN payload \subseteq Seq(Nat)
  BY MaskedNodes, TreeNodes
<1>2. IsFiniteSet(DOMAIN masked)
  <2> HIDE DEF masked
  <2> QED BY <1>1, FS_Subset
<1>3. NoKey \in NodeKeys
  BY <1>1, TreeNodes DEF IsEntry
<1>4. ASSUME NEW path \in DOMAIN masked
      PROVE  masked[path] \in [key : NodeKeys, value : NodeValues]
  <2>1. masked[path] = Node(masked[path].key, masked[path].value)
    BY MaskedNodes
  <2>2. masked[path].value \in NodeValues
    BY <1>1, MaskedNodes, MaskedAtIs
  <2>3. masked[path].key \in NodeKeys
    BY <1>3, MaskedNodes, MaskedKeys
  <2> HIDE DEF masked
  <2> QED BY <2>1, <2>2, <2>3 DEF Node
<1>5. masked \in [DOMAIN masked -> [key : NodeKeys, value : NodeValues]]
  <2>1. masked = [path \in DOMAIN masked |-> masked[path]]
    BY DEF MaskSensitiveData
  <2> HIDE DEF masked
  <2> QED BY <1>4, <2>1
<1>6. ASSUME NEW path \in DOMAIN masked
      PROVE  Cardinality(DOMAIN KeysUnder(masked, path)) <= MaxEntries
  <2> DEFINE Places(tree) == {Place(p) : p \in {q \in DOMAIN tree \ {<<>>} : Parent(q) = path}}
  <2>1. DOMAIN KeysUnder(masked, path) = Places(masked)
        /\ DOMAIN KeysUnder(payload, path) = Places(payload)
    BY DEF KeysUnder
  <2>2. Places(masked) \in SUBSET Places(payload)
    BY <1>1
  <2>3. IsFiniteSet(Places(payload)) /\ Cardinality(Places(payload)) <= MaxEntries
    BY <1>1, <2>1, TreeKeys DEF AreKeys
  <2> HIDE DEF Places, masked
  <2>4. IsFiniteSet(Places(masked)) /\ Cardinality(Places(masked)) <= Cardinality(Places(payload))
    BY <2>2, <2>3, FS_Subset
  <2>5. Cardinality(Places(masked)) \in Nat /\ Cardinality(Places(payload)) \in Nat /\ MaxEntries \in Nat
    BY <2>3, <2>4, FS_CardinalityType, MaskingAssumption
  <2> QED BY <2>1, <2>3, <2>4, <2>5
<1>7. ASSUME NEW path \in DOMAIN masked, NEW other \in DOMAIN masked,
             IsEntry(masked, path), other # <<>>, Parent(other) = Parent(path),
             masked[path].key = masked[other].key
      PROVE  path = other
  BY <1>7, MaskedNodes, MaskedKeys
<1>8. \A path \in DOMAIN masked \ {<<>>} :
        Parent(path) \in DOMAIN masked /\ masked[Parent(path)].value \in Containers
  BY MaskedNodes
<1>9. \A path \in DOMAIN masked : ~IsEntry(masked, path) => masked[path].key = NoKey
  BY MaskedNodes
<1> HIDE DEF masked
<1>10. IsTree(masked)
  BY <1>1, <1>2, <1>5, <1>6, <1>7, <1>8, <1>9 DEF IsTree
<1> QED BY <1>10 DEF masked

(* Masking loses no entry of a mapping that stays, however many keys become   *)
(* equal (_deduplicated_key of packages/security).                            *)
THEOREM EntriesAreKept ==
    ASSUME NEW payload, IsTree(payload)
    PROVE  EntriesKept(payload)
<1> DEFINE masked == MaskSensitiveData(payload)
<1> SUFFICES ASSUME NEW path \in DOMAIN payload \ {<<>>}, NEW other \in DOMAIN payload \ {<<>>},
                    Parent(path) \in DOMAIN masked, masked[Parent(path)].value = Mapping,
                    Parent(other) \in DOMAIN masked, masked[Parent(other)].value = Mapping
             PROVE  /\ path \in DOMAIN masked
                    /\ Parent(path) = Parent(other) /\ masked[path].key = masked[other].key
                       => path = other
  BY DEF EntriesKept
<1>1. ASSUME NEW p \in {path, other}
      PROVE  p \in DOMAIN masked /\ IsEntry(payload, p)
  <2>1. /\ Parent(p) \in DOMAIN masked /\ DOMAIN masked = KeptPaths(payload)
        /\ masked[Parent(p)].value = MaskedAt(payload, Parent(p))
    BY MaskedNodes
  <2>2. masked[Parent(p)].value = Mapping
    OBVIOUS
  <2> HIDE DEF masked
  <2>3. MaskedAt(payload, Parent(p)) \in Containers
    BY <2>1, <2>2 DEF Containers
  <2>4. p \in DOMAIN masked
    BY <2>1, <2>3, KeptWithParents
  <2>5. payload[Parent(p)].value = Mapping
    BY <2>1, <2>2, <2>3, TreeNodes, MaskedAtIs
  <2> QED BY <2>4, <2>5 DEF IsEntry
<1> QED BY <1>1, MaskedKeys

(* What is first in a key is among its words. *)
LEMMA FirstAmong ==
    ASSUME NEW words \in Seq(Words), Len(words) > 0, NEW fragments, <<words[1]>> \in fragments
    PROVE  Among(words, fragments)
<1>1. SubSeq(words, 0 + 1, 1) = <<words[1]>>
  <2>1. SubSeq(words, 0 + 1, 1) \in Seq(Words) /\ Len(SubSeq(words, 0 + 1, 1)) = 1
        /\ SubSeq(words, 0 + 1, 1)[1] = words[1]
    OBVIOUS
  <2>2. <<words[1]>> \in Seq(Words) /\ Len(<<words[1]>>) = 1 /\ <<words[1]>>[1] = words[1]
    OBVIOUS
  <2>3. \A i \in 1..1 : SubSeq(words, 0 + 1, 1)[i] = <<words[1]>>[i]
    BY <2>1, <2>2
  <2> QED BY <2>1, <2>2, <2>3, SeqEqual
<1>2. 0 \in 0..Len(words) /\ 1 \in 0..Len(words)
  OBVIOUS
<1> QED BY <1>1, <1>2 DEF Among

(* A prompt is left out, but for its version. *)
LEMMA PromptsAreOmitted ==
    ASSUME NEW words \in Seq(Words), Len(words) > 0, words[1] = "prompt"
    PROVE  IsOmitted(words)
<1>1. <<"prompt">> \in PayloadFragments
  BY DEF PayloadFragments
<1> QED BY <1>1, FirstAmong DEF IsOmitted

(* The words of the version of a prompt *)
LEMMA PromptVersionIs ==
    LET words == <<"prompt", "version">>
    IN Len(words) = 2 /\ words[1] = "prompt" /\ words[2] = "version"
  OBVIOUS

(* Names that are shown have two words. *)
LEMMA SafeNamesAreTwo == \A f \in SafeReferences \cup SafeTechnical : Len(f) = 2
  BY DEF SafeReferences, SafeTechnical

(* What a key is made of *)
LEMMA KeyParts ==
    ASSUME NEW key \in NodeKeys
    PROVE  /\ key.words \in Seq(Words) /\ Len(key.words) \in Nat
           /\ key = [words |-> key.words, style |-> key.style, noisy |-> key.noisy]
           /\ key.style \in {"snake", "camel", "upper"} /\ key.noisy \in BOOLEAN
           /\ key.words = <<>> => key.style = "snake"
           /\ key.style = "camel" => Len(key.words) > 1
           /\ Normalized(key) \in {key.words, <<>>} /\ Normalized(key) \in Seq(Words)
  BY DEF NodeKeys, Normalized

(* A value that is masked once more is as it was or is left out. *)
LEMMA TwiceMaskedValue ==
    ASSUME NEW value \in NodeValues, NEW key \in NodeKeys, NEW second \in NodeKeys,
           NEW depth \in Nat,
           second = key \/ \E n \in 2..MaxEntries + 1 : second = Numbered(key, n)
    PROVE  LET once == MaskedValue(value, key, depth)
               twice == MaskedValue(once, second, depth)
           IN \/ twice \in {once, Omitted, FinancialOmitted}
              \/ second.words \in SafeTechnical /\ once = Omitted
<1> DEFINE once == MaskedValue(value, key, depth)
           twice == MaskedValue(once, second, depth)
           first == Normalized(key)
           again == Normalized(second)
<1> SUFFICES \/ twice \in {once, Omitted, FinancialOmitted}
             \/ second.words \in SafeTechnical /\ once = Omitted
  OBVIOUS
<1>1. MaxMaskingDepth \in Nat
  BY MaskingAssumption
<1>2. CASE depth > MaxMaskingDepth
  <2>1. twice = Omitted
    BY <1>1, <1>2 DEF MaskedValue
  <2> QED BY <2>1
<1>3. CASE depth <= MaxMaskingDepth
  <2>1. CASE first = <<"prompt", "version">>
    <3>1. key.words = first /\ key.style # "upper"
      <4>1. <<"prompt", "version">> # <<>>
        BY PairIs
      <4> QED BY <2>1, <4>1 DEF Normalized
    <3>2. once = SafeTechnicalValue(value)
      <4>1. first \notin SafeReferences
        <5>1. \A f \in SafeReferences : f # <<"prompt", "version">>
          BY PairIs DEF SafeReferences
        <5> QED BY <2>1, <5>1
      <4>2. first \in SafeTechnical
        BY <2>1 DEF SafeTechnical
      <4> HIDE DEF first
      <4> QED BY <1>1, <1>3, <4>1, <4>2 DEF MaskedValue, first
    <3>3. once \in TextValues \/ once = Omitted
      <4>1. TextOf({}, {}) \in TextValues
        BY DEF TextOf, TextValues
      <4> QED BY <3>2, <4>1, ValueKinds DEF SafeTechnicalValue
    <3>4. CASE second = key
      <4>1. again = first /\ second.words \in SafeTechnical
        BY <3>1, <3>4, <2>1 DEF SafeTechnical
      <4>2. twice = SafeTechnicalValue(once)
        <5>1. again \notin SafeReferences
          <6>1. \A f \in SafeReferences : f # <<"prompt", "version">>
            BY PairIs DEF SafeReferences
          <6> QED BY <2>1, <4>1, <6>1
        <5>2. again \in SafeTechnical
          BY <2>1, <4>1 DEF SafeTechnical
        <5> HIDE DEF again, once
        <5> QED BY <1>1, <1>3, <5>1, <5>2 DEF MaskedValue, again
      <4>3. once.kind = "text" => twice = once
        <5> HIDE DEF once, twice
        <5> QED BY <4>2 DEF SafeTechnicalValue
      <4>4. once \in TextValues => once.kind = "text"
        BY DEF TextValues
      <4> HIDE DEF once, twice, first, again
      <4>5. CASE once \in TextValues
        BY <4>3, <4>4, <4>5
      <4>6. CASE once = Omitted
        BY <4>1, <4>6
      <4> QED BY <3>3, <4>5, <4>6
    <3>5. ASSUME NEW n \in 2..MaxEntries + 1, second = Numbered(key, n)
          PROVE  twice \in {once, Omitted, FinancialOmitted}
      <4>1. /\ second.words \in Seq(Words) /\ Len(second.words) = 3
            /\ second.words[1] = "prompt" /\ second.style = key.style
        <5>1. key.words = <<"prompt", "version">> /\ Len(key.words) = 2 /\ key.words[1] = "prompt"
          <6> HIDE DEF first
          <6> QED BY <2>1, <3>1, PromptVersionIs
        <5>2. /\ second.words \in Seq(Words) /\ Len(second.words) = Len(key.words) + 1
              /\ second.style = key.style
              /\ \A i \in 1..Len(key.words) : second.words[i] = key.words[i]
          BY <3>5, NumberedIs
        <5> QED BY <5>1, <5>2
      <4>2. again = second.words
        BY <3>1, <4>1 DEF Normalized
      <4>3. IsOmitted(again)
        BY <4>1, <4>2, PromptsAreOmitted
      <4>4. again \notin SafeReferences /\ again \notin SafeTechnical
        <5>1. \A f \in SafeReferences \cup SafeTechnical : Len(f) = 2
          BY SafeNamesAreTwo
        <5>2. Len(again) = 3
          BY <4>1, <4>2, Zenon
        <5> HIDE DEF again
        <5> QED BY <5>1, <5>2
      <4> HIDE DEF again, once
      <4>5. twice = Omitted
        BY <1>1, <1>3, <4>3, <4>4 DEF MaskedValue, again
      <4> QED BY <4>5
    <3> QED BY <3>4, <3>5
  <2>2. CASE first # <<"prompt", "version">>
    <3>1. once \in TextValues => MaskText(once) = once
      <4>1. first \notin SafeTechnical
        BY <2>2 DEF SafeTechnical
      <4>2. \/ once \in {Omitted, FinancialOmitted}
            \/ value.kind = "text" /\ once = MaskText(value)
            \/ value.kind = "text" /\ "digest" \in value.shows /\ once = value
            \/ value.kind # "text" /\ once = value
        <5> HIDE DEF first
        <5> QED BY <1>1, <1>3, <4>1 DEF MaskedValue, SafeReference, first
      <4>3. Omitted \notin TextValues /\ FinancialOmitted \notin TextValues
        BY DEF TextValues, Omitted, FinancialOmitted
      <4>4. value.kind = "text" <=> value \in TextValues
        BY ValueKinds
      <4>5. CASE value \in TextValues
        <5>1. MaskText(MaskText(value)) = MaskText(value)
              /\ ("digest" \in value.shows => MaskText(value) = value)
          BY <4>5, MaskTextIs
        <5> HIDE DEF once
        <5> QED BY <4>2, <4>3, <4>4, <5>1
      <4>6. CASE value \notin TextValues
        <5> HIDE DEF once
        <5> QED BY <4>2, <4>3, <4>4, <4>6
      <4> QED BY <4>5, <4>6
    <3>2. once \in NodeValues /\ once.kind \notin {"bytes", "back"}
      BY MaskedValueIs
    <3>3. once.kind = "text" => once \in TextValues
      <4> HIDE DEF once
      <4> QED BY <3>2, ValueKinds
    <3>4. CASE again \in SafeTechnical
      <4>1. again = <<"prompt", "version">> /\ again # <<>>
        BY <3>4, PairIs DEF SafeTechnical
      <4>2. second.words = again /\ second.style # "upper"
        <5> HIDE DEF again
        <5> QED BY <4>1 DEF Normalized, again
      <4>3. PICK n \in 2..MaxEntries + 1 : second = Numbered(key, n)
        <5>1. second # key
          BY <2>2, <4>1
        <5> QED BY <5>1
      <4>4. /\ key.words \in Seq(Words) /\ Len(key.words) = 1 /\ key.words[1] = "prompt"
            /\ key.style # "upper"
        <5>1. Len(second.words) = 2 /\ second.words[1] = "prompt"
          <6> HIDE DEF again
          <6> QED BY <4>1, <4>2, PromptVersionIs
        <5>2. Len(second.words) = Len(key.words) + 1 /\ second.style = key.style
              /\ \A i \in 1..Len(key.words) : second.words[i] = key.words[i]
          BY <4>3, NumberedIs
        <5>3. key.words \in Seq(Words) /\ Len(key.words) \in Nat
          BY KeyParts
        <5>4. Len(key.words) = 1
          <6> HIDE DEF first, again
          <6>1. 2 = Len(key.words) + 1
            BY <5>1, <5>2, Zenon
          <6>2. Len(key.words) \in Nat
            BY <5>3
          <6>3. \A m \in Nat : 2 = m + 1 => m = 1
            OBVIOUS
          <6> QED BY <6>1, <6>2, <6>3, Zenon
        <5> QED BY <4>2, <5>1, <5>2, <5>3, <5>4
      <4>5. IsOmitted(first) /\ first \notin SafeTechnical /\ first \notin SafeReferences
        <5>1. \A f \in SafeReferences \cup SafeTechnical : Len(f) = 2
          BY SafeNamesAreTwo
        <5>2. first = key.words
          BY <4>4 DEF Normalized
        <5>3. Len(key.words) # 2 /\ IsOmitted(key.words)
          BY <4>4, PromptsAreOmitted
        <5> HIDE DEF first
        <5> QED BY <5>1, <5>2, <5>3
      <4>6. once = Omitted
        <5> HIDE DEF first
        <5> QED BY <1>1, <1>3, <4>5 DEF MaskedValue, first
      <4> QED BY <3>4, <4>2, <4>6
    <3>5. CASE again \notin SafeTechnical
      <4>1. \/ twice \in {once, Omitted, FinancialOmitted}
            \/ once.kind = "text" /\ twice = MaskText(once)
        <5> HIDE DEF again, once
        <5> QED BY <1>1, <1>3, <3>2, <3>5 DEF MaskedValue, SafeReference, again
      <4> HIDE DEF once, twice, first, again
      <4>2. once.kind = "text" => MaskText(once) = once
        BY <3>1, <3>3
      <4> QED BY <4>1, <4>2
    <3> QED BY <3>4, <3>5
  <2> QED BY <2>1, <2>2
<1> QED BY <1>1, <1>2, <1>3

(* What the key of an entry became *)
LEMMA MaskedKeyIs ==
    ASSUME NEW payload, IsTree(payload),
           NEW path \in DOMAIN MaskSensitiveData(payload), IsEntry(payload, path)
    PROVE  LET key == MaskSensitiveData(payload)[path].key
               safe == SafeKey(payload[path].key)
           IN key = safe \/ \E n \in 2..MaxEntries + 1 : key = Numbered(safe, n)
<1> DEFINE keys == KeysUnder(payload, Parent(path))
<1>1. path \in DOMAIN payload /\ path # <<>> /\ Parent(path) \in DOMAIN payload
  BY MaskedNodes, TreeNodes DEF IsEntry
<1>2. AreKeys(keys) /\ Place(path) \in DOMAIN keys /\ keys[Place(path)] = payload[path].key
  BY <1>1, TreeKeys
<1>3. MaskSensitiveData(payload)[path].key = OutputKeys(keys)[Place(path)]
  BY MaskedNodes
<1> HIDE DEF keys
<1> QED BY <1>2, <1>3, OutputIs

(* What is masked twice has the keys that it had once. *)
LEMMA KeysMaskedTwice ==
    ASSUME NEW payload, IsTree(payload),
           NEW path \in DOMAIN MaskSensitiveData(MaskSensitiveData(payload))
    PROVE  MaskSensitiveData(MaskSensitiveData(payload))[path].key
             = MaskSensitiveData(payload)[path].key
<1> DEFINE once == MaskSensitiveData(payload)
           twice == MaskSensitiveData(once)
           keys == KeysUnder(once, Parent(path))
<1> SUFFICES twice[path].key = once[path].key
  OBVIOUS
<1>0. path \in DOMAIN twice
  OBVIOUS
<1>1. IsTree(once)
  BY MaskedIsTree
<1>2. path \in DOMAIN once
  BY <1>1, MaskedNodes
<1>3. CASE ~IsEntry(once, path)
  <2> HIDE DEF once
  <2> QED BY <1>0, <1>1, <1>2, <1>3, MaskedNodes, TreeNodes
<1>4. CASE IsEntry(once, path)
  <2>1. path # <<>> /\ Parent(path) \in DOMAIN once
    BY <1>1, <1>2, <1>4, TreeNodes DEF IsEntry
  <2>2. /\ AreKeys(keys) /\ Place(path) \in DOMAIN keys /\ keys[Place(path)] = once[path].key
        /\ \A i \in DOMAIN keys :
             \E p \in DOMAIN once : p # <<>> /\ Parent(p) = Parent(path) /\ Place(p) = i
    <3> HIDE DEF once
    <3> QED BY <1>1, <1>2, <2>1, TreeKeys
  <2>3. ASSUME NEW p \in DOMAIN once, p # <<>>, Parent(p) = Parent(path)
        PROVE  /\ keys[Place(p)] = once[p].key
               /\ once[p].key.words # <<>> /\ ~once[p].key.noisy
               /\ \A q \in DOMAIN once \ {<<>>} :
                    Parent(q) = Parent(p) /\ once[q].key = once[p].key => q = p
    <3>1. IsEntry(payload, p)
      <4>1. IsEntry(once, p)
        BY <1>4, <2>3 DEF IsEntry
      <4> QED BY <4>1, MaskedNodes
    <3>2. keys[Place(p)] = once[p].key
      <4> HIDE DEF once
      <4> QED BY <1>1, <2>1, <2>3, TreeKeys
    <3> QED BY <3>1, <3>2, MaskedKeys
  <2>4. \A i \in DOMAIN keys : keys[i].words # <<>> /\ ~keys[i].noisy
    <3> HIDE DEF once, keys
    <3> QED BY <2>2, <2>3
  <2>5. \A i, j \in DOMAIN keys : keys[i] = keys[j] => i = j
    <3> HIDE DEF once, keys
    <3> QED BY <2>2, <2>3
  <2>6. OutputKeys(keys)[Place(path)] = keys[Place(path)]
    <3> HIDE DEF once, keys
    <3> QED BY <2>2, <2>4, <2>5, OutputOfSafeKeys
  <2>7. twice[path].key = OutputKeys(keys)[Place(path)]
    <3> HIDE DEF once
    <3> QED BY <1>0, <1>1, <1>4, MaskedNodes
  <2> QED BY <2>2, <2>6, <2>7
<1> QED BY <1>3, <1>4

(* Masking what is masked changes no key and shows no more                    *)
(* (build_structured_log of packages/observability masks twice).              *)
THEOREM MaskingMayBeRepeated ==
    ASSUME NEW payload, IsTree(payload)
    PROVE  TwiceOmitsMore(payload)
<1> DEFINE once == MaskSensitiveData(payload)
           twice == MaskSensitiveData(once)
<1>1. IsTree(once)
  BY MaskedIsTree
<1>2. DOMAIN twice \subseteq DOMAIN once
  <2> HIDE DEF once
  <2> QED BY <1>1, MaskedNodes
<1>3. ASSUME NEW path \in DOMAIN twice
      PROVE  /\ twice[path].key = once[path].key
             /\ \/ twice[path].value \in {once[path].value, Omitted, FinancialOmitted}
                \/ once[path].key.words \in SafeTechnical /\ once[path].value = Omitted
  <2>1. twice[path].key = once[path].key
    BY KeysMaskedTwice
  <2>2. path \in DOMAIN once /\ path \in DOMAIN payload
    BY <1>2, MaskedNodes
  <2> DEFINE key == IF IsEntry(payload, path) THEN SafeKey(payload[path].key) ELSE NoKey
             second == once[path].key
  <2>3. once[path].value = MaskedValue(payload[path].value, key, Len(path))
    BY <2>2, MaskedNodes DEF MaskedAt
  <2>4. twice[path].value = MaskedValue(once[path].value, second, Len(path))
    <3>1. twice[path].value = MaskedAt(once, path)
      <4> HIDE DEF once
      <4> QED BY <1>1, MaskedNodes
    <3>2. IsEntry(once, path) => SafeKey(second) = second
      <4>1. IsEntry(once, path) =>
              second \in NodeKeys /\ second.words # <<>> /\ ~second.noisy
        BY <2>2, MaskedNodes, MaskedKeys
      <4> HIDE DEF second
      <4> QED BY <4>1, SafeKeyIs
    <3>3. ~IsEntry(once, path) => second = NoKey
      BY <2>2, MaskedNodes
    <3> HIDE DEF once, twice
    <3> QED BY <3>1, <3>2, <3>3 DEF MaskedAt
  <2>5. second = key \/ \E n \in 2..MaxEntries + 1 : second = Numbered(key, n)
    BY <2>2, MaskedNodes, MaskedKeyIs
  <2>6. /\ payload[path].value \in NodeValues /\ key \in NodeKeys /\ second \in NodeKeys
        /\ Len(path) \in Nat
    <3>1. payload[path].value \in NodeValues /\ Len(path) \in Nat /\ payload[path].key \in NodeKeys
          /\ (~IsEntry(payload, path) => payload[path].key = NoKey)
      BY <2>2, TreeNodes
    <3>2. second \in NodeKeys
      <4> HIDE DEF once
      <4> QED BY <1>1, <2>2, TreeNodes
    <3> HIDE DEF second
    <3> QED BY <3>1, <3>2, SafeKeyIs
  <2> HIDE DEF key, once, twice
  <2>7. \/ twice[path].value \in {once[path].value, Omitted, FinancialOmitted}
        \/ second.words \in SafeTechnical /\ once[path].value = Omitted
    <3> HIDE DEF second
    <3> QED BY <2>3, <2>4, <2>5, <2>6, TwiceMaskedValue
  <2> QED BY <2>1, <2>7
<1> QED BY <1>2, <1>3 DEF TwiceOmitsMore

(* What the technical gate finds in a masked payload is no identifier that    *)
(* stands by itself (mask_text and _scan_payload).                            *)
THEOREM MaskedPayloadsAreAccepted ==
    ASSUME NEW payload, IsTree(payload)
    PROVE  MaskedIsAccepted(payload)
<1> DEFINE once == MaskSensitiveData(payload)
           Remains == {"key", "term", "glued", "run", "number", "set", "max_depth"}
<1> SUFFICES ASSUME NEW finding \in Findings(once, "technical_internal"),
                    finding.about \notin Remains
             PROVE  SubSeq(finding.key.words, 1, 2) \in SafeTechnical
  BY DEF MaskedIsAccepted
<1>1. PICK path \in DOMAIN once :
        /\ finding.key = once[path].key
        /\ finding.about \in ValueFindings(once[path].value, once[path].key,
                                           "technical_internal", Len(path))
  <2> HIDE DEF once
  <2> QED BY DEF Findings
<1> DEFINE key == IF IsEntry(payload, path) THEN SafeKey(payload[path].key) ELSE NoKey
           value == payload[path].value
           masked == once[path].value
<1>2. /\ path \in DOMAIN payload /\ value \in NodeValues /\ key \in NodeKeys /\ Len(path) \in Nat
      /\ masked = MaskedValue(value, key, Len(path))
      /\ masked \in NodeValues /\ masked.kind \notin {"bytes", "back"}
  <2>1. path \in DOMAIN payload /\ masked = MaskedAt(payload, path)
    BY MaskedNodes
  <2>2. payload[path].value \in NodeValues /\ Len(path) \in Nat /\ payload[path].key \in NodeKeys
        /\ (~IsEntry(payload, path) => payload[path].key = NoKey)
    BY <2>1, TreeNodes
  <2>3. key \in NodeKeys
    BY <2>2, SafeKeyIs
  <2>4. masked \in NodeValues /\ masked.kind \notin {"bytes", "back"}
    BY <2>1, MaskedAtIs
  <2> HIDE DEF masked
  <2> QED BY <2>1, <2>2, <2>3, <2>4 DEF MaskedAt
<1>3. masked.kind = "text" /\ finding.about \in {"cpf", "cnpj", "email", "phone"}
      /\ finding.about \in masked.shows /\ Len(path) <= MaxScanDepth
  <2> HIDE DEF masked
  <2> QED BY <1>1, <1>2 DEF ValueFindings, TextFindings, masked
<1>4. Normalized(key) = <<"prompt", "version">>
  <2>1. SUFFICES ASSUME Normalized(key) # <<"prompt", "version">> PROVE FALSE
    OBVIOUS
  <2>2. Normalized(key) \notin SafeTechnical
    BY <2>1 DEF SafeTechnical
  <2>3. value.kind = "text" <=> value \in TextValues
    BY <1>2, ValueKinds
  <2>4. \/ masked \in {Omitted, FinancialOmitted}
        \/ value \in TextValues /\ masked = MaskText(value)
        \/ value \in TextValues /\ "digest" \in value.shows /\ masked = value
        \/ value.kind # "text" /\ masked = value
    <3>1. MaxMaskingDepth \in Nat
      BY MaskingAssumption
    <3> HIDE DEF masked, key, value
    <3> QED BY <1>2, <2>2, <2>3, <3>1 DEF MaskedValue, SafeReference
  <2>5. value \in TextValues =>
          /\ MaskText(value).shows = value.shows \ {"cpf", "cnpj", "email", "phone", "credential"}
          /\ "digest" \in value.shows => value.shows \subseteq {"digest", "run"}
    BY MaskTextIs DEF TextValues
  <2>6. Omitted.kind = "omitted" /\ FinancialOmitted.kind = "omitted"
    BY DEF Omitted, FinancialOmitted
  <2> HIDE DEF masked, value
  <2> QED BY <1>3, <2>4, <2>5, <2>6
<1>5. key.words = <<"prompt", "version">> /\ IsEntry(payload, path)
  <2>1. <<"prompt", "version">> # <<>>
    BY PairIs
  <2>2. key.words = <<"prompt", "version">>
    BY <1>4, <2>1 DEF Normalized
  <2>3. NoKey.words = <<>>
    BY DEF NoKey, Key
  <2> QED BY <2>1, <2>2, <2>3
<1>6. key = finding.key \/ \E n \in 2..MaxEntries + 1 : finding.key = Numbered(key, n)
  BY <1>1, <1>5, MaskedKeyIs
<1>7. SubSeq(finding.key.words, 1, 2) = <<"prompt", "version">>
  <2>1. finding.key.words \in Seq(Words) /\ Len(finding.key.words) >= 2
        /\ finding.key.words[1] = "prompt" /\ finding.key.words[2] = "version"
    <3>1. Len(key.words) = 2 /\ key.words[1] = "prompt" /\ key.words[2] = "version"
      <4> HIDE DEF key
      <4> QED BY <1>5, PromptVersionIs
    <3>2. key.words \in Seq(Words)
      BY <1>2, KeyParts
    <3> HIDE DEF key
    <3>3. CASE key = finding.key
      BY <3>1, <3>2, <3>3
    <3>4. ASSUME NEW n \in 2..MaxEntries + 1, finding.key = Numbered(key, n)
          PROVE  /\ finding.key.words \in Seq(Words) /\ Len(finding.key.words) >= 2
                 /\ finding.key.words[1] = "prompt" /\ finding.key.words[2] = "version"
      <4>1. /\ finding.key.words \in Seq(Words) /\ Len(finding.key.words) = Len(key.words) + 1
            /\ \A i \in 1..Len(key.words) : finding.key.words[i] = key.words[i]
        BY <1>2, <3>4, NumberedIs
      <4> QED BY <3>1, <4>1
    <3> QED BY <1>6, <3>3, <3>4
  <2> DEFINE words == finding.key.words
  <2>2. /\ SubSeq(words, 1, 2) \in Seq(Words) /\ Len(SubSeq(words, 1, 2)) = 2
        /\ SubSeq(words, 1, 2)[1] = words[1] /\ SubSeq(words, 1, 2)[2] = words[2]
    <3> HIDE DEF words
    <3>1. words \in Seq(Words) /\ Len(words) >= 2
      BY <2>1 DEF words
    <3> QED BY <3>1
  <2>3. /\ <<words[1], words[2]>> \in Seq(Words) /\ Len(<<words[1], words[2]>>) = 2
        /\ <<words[1], words[2]>>[1] = words[1] /\ <<words[1], words[2]>>[2] = words[2]
    <3>1. words[1] \in Words /\ words[2] \in Words
      BY <2>1
    <3> HIDE DEF words
    <3> QED BY <3>1, PairIs
  <2>4. \A i \in 1..2 : SubSeq(words, 1, 2)[i] = <<words[1], words[2]>>[i]
    <3> HIDE DEF words
    <3> QED BY <2>2, <2>3
  <2>5. SubSeq(words, 1, 2) = <<words[1], words[2]>>
    <3> HIDE DEF words
    <3> QED BY <2>2, <2>3, <2>4, SeqEqual
  <2> QED BY <2>1, <2>5
<1> QED BY <1>7 DEF SafeTechnical

(* Keys that come of an entry whose key has no words *)
PlainWords == {"omitted", "key"} \cup {Numeral[n] : n \in DOMAIN Numeral}

IsPlain(key) ==
    /\ key.style = "snake"
    /\ Len(key.words) > 0 /\ key.words[1] = "omitted"
    /\ \A i \in 1..Len(key.words) : key.words[i] \in PlainWords

(* A plain key with a number is plain. *)
LEMMA PlainNumbered ==
    ASSUME NEW key \in NodeKeys, IsPlain(key), NEW n \in 2..MaxEntries + 1
    PROVE  IsPlain(Numbered(key, n))
<1> DEFINE numbered == Numbered(key, n)
<1>1. /\ numbered.style = key.style
      /\ Len(numbered.words) = Len(key.words) + 1
      /\ numbered.words[Len(key.words) + 1] = Numeral[n]
      /\ \A i \in 1..Len(key.words) : numbered.words[i] = key.words[i]
      /\ Len(key.words) \in Nat
  BY NumberedIs, KeyParts
<1>2. Numeral[n] \in PlainWords
  BY MaskingAssumption DEF PlainWords
<1> HIDE DEF numbered
<1>3. \A i \in 1..Len(numbered.words) : numbered.words[i] \in PlainWords
  <2>1. \A i \in 1..Len(key.words) + 1 : i \in 1..Len(key.words) \/ i = Len(key.words) + 1
    BY <1>1
  <2>2. \A i \in 1..Len(key.words) : key.words[i] \in PlainWords
    BY DEF IsPlain
  <2> QED BY <1>1, <1>2, <2>1, <2>2
<1>4. IsPlain(numbered)
  BY <1>1, <1>3 DEF IsPlain
<1> QED BY <1>4 DEF numbered

(* The key in the place of one that is left out is plain. *)
LEMMA OmittedKeyIsPlain == IsPlain(Key(<<"omitted", "key">>))
<1> DEFINE words == <<"omitted", "key">>
<1>1. Len(words) = 2 /\ words[1] = "omitted" /\ words[2] = "key"
  OBVIOUS
<1>2. Key(words).words = words /\ Key(words).style = "snake"
  BY DEF Key
<1>3. \A i \in 1..2 : i = 1 \/ i = 2
  OBVIOUS
<1> HIDE DEF words
<1>4. IsPlain(Key(words))
  <2>1. \A i \in 1..Len(words) : words[i] \in PlainWords
    BY <1>1, <1>3 DEF PlainWords
  <2>2. Key(words).words[1] = "omitted" /\ Len(Key(words).words) > 0
    <3>1. Key(words).words[1] = "omitted" /\ Len(Key(words).words) = 2
      BY <1>1, <1>2, Zenon
    <3> QED BY <3>1
  <2>3. \A i \in 1..Len(Key(words).words) : Key(words).words[i] \in PlainWords
    BY <1>2, <2>1
  <2> QED BY <1>2, <2>2, <2>3 DEF IsPlain
<1> QED BY <1>4 DEF words

(* Of keys that are printed only those without words change, and those that   *)
(* the keys of these took.                                                    *)
LEMMA OutputOfPrintedKeys ==
    ASSUME NEW keys, AreKeys(keys),
           \A i \in DOMAIN keys : ~keys[i].noisy,
           \A i, j \in DOMAIN keys : keys[i] = keys[j] => i = j
    PROVE  \A i \in DOMAIN keys :
             \/ OutputKeys(keys)[i] = keys[i]
             \/ IsPlain(OutputKeys(keys)[i]) /\ IsPlain(SafeKey(keys[i]))
<1> DEFINE out == OutputKeys(keys)
           Good(i) == \/ out[i] = keys[i]
                      \/ IsPlain(out[i]) /\ IsPlain(SafeKey(keys[i]))
           bad == {i \in DOMAIN keys : ~Good(i)}
<1>1. SUFFICES ASSUME bad # {} PROVE FALSE
  OBVIOUS
<1>2. bad \in SUBSET Nat /\ DOMAIN keys \in SUBSET Nat
  BY DEF AreKeys
<1>3. PICK i \in bad : \A j \in bad : i <= j
  <2> HIDE DEF bad
  <2> QED BY <1>1, <1>2, LeastExists
<1>4. i \in DOMAIN keys /\ ~Good(i)
  BY <1>3
<1>5. \A j \in DOMAIN keys : j < i => Good(j)
  <2> HIDE DEF Good
  <2> QED BY <1>2, <1>3, <1>4
<1>6. keys[i] \in NodeKeys /\ SafeKey(keys[i]) \in NodeKeys
      /\ (keys[i].words # <<>> => SafeKey(keys[i]) = keys[i])
  BY <1>4, SafeKeyIs DEF AreKeys
<1>7. keys[i].words = <<>> => IsPlain(SafeKey(keys[i]))
  BY <1>6, SafeKeyIs, OmittedKeyIsPlain
<1>8. CASE out[i] = SafeKey(keys[i])
  <2> HIDE DEF bad
  <2>1. CASE keys[i].words = <<>>
    BY <1>4, <1>7, <1>8, <2>1
  <2>2. CASE keys[i].words # <<>>
    <3>1. out[i] = keys[i]
      BY <1>6, <1>8, <2>2
    <3> QED BY <1>4, <3>1
  <2> QED BY <2>1, <2>2
<1>9. CASE out[i] # SafeKey(keys[i])
  <2>1. /\ \E j \in DOMAIN keys : j < i /\ out[j] = SafeKey(keys[i])
        /\ \E n \in 2..MaxEntries + 1 : out[i] = Numbered(SafeKey(keys[i]), n)
    BY <1>4, <1>9, OutputIs
  <2>2. PICK j \in DOMAIN keys : j < i /\ out[j] = SafeKey(keys[i])
    BY <2>1
  <2>3. IsPlain(SafeKey(keys[i]))
    <3>1. Good(j)
      BY <1>5, <2>2
    <3>2. j # i
      BY <1>2, <1>4, <2>2
    <3> QED BY <1>4, <1>6, <1>7, <2>2, <3>1, <3>2
  <2>4. IsPlain(out[i])
    <3> HIDE DEF out
    <3> QED BY <1>6, <2>1, <2>3, PlainNumbered
  <2> QED BY <1>4, <2>3, <2>4
<1> QED BY <1>8, <1>9

(* No list of a gate has these keys. *)
LEMMA PlainIsNotRefused ==
    ASSUME NEW key \in NodeKeys, IsPlain(key), NEW value, NEW exposure \in Exposures
    PROVE  ~KeyRefused(key, value, exposure)
<1>1. SUFFICES ASSUME NEW term \in ForbiddenKeyTerms(exposure), Among(key.words, {term})
               PROVE  FALSE
  <2>1. key.style = "snake"
    BY DEF IsPlain
  <2> QED BY <2>1 DEF KeyRefused, Matches
<1>2. Len(term) > 0 /\ DOMAIN term = 1..Len(term) /\ term[1] \notin {"omitted", "key"}
      /\ Len(term) \in Nat
  <2> DEFINE Differs(words) == /\ Len(words) > 0 /\ DOMAIN words = 1..Len(words)
                            /\ words[1] \notin {"omitted", "key"} /\ Len(words) \in Nat
  <2>1. ASSUME NEW a, NEW b, a \notin {"omitted", "key"}
        PROVE  Differs(<<a>>) /\ Differs(<<a, b>>)
    BY <2>1
  <2> HIDE DEF Differs
  <2>2. \A words \in Common : Differs(words)
    BY <2>1 DEF Common
  <2>3. \A words \in RawSignals : Differs(words)
    BY <2>1 DEF RawSignals
  <2>4. \A words \in OfRequests : Differs(words)
    BY <2>1 DEF OfRequests
  <2>5. Differs(term)
    BY <2>1, <2>2, <2>3, <2>4 DEF ForbiddenKeyTerms
  <2> QED BY <2>5 DEF Differs
<1>3. term[1] \notin PlainWords
  <2>1. \A n \in DOMAIN Numeral : term[1] # Numeral[n]
    <3>1. term \in UNION {ForbiddenKeyTerms(e) : e \in Exposures}
      OBVIOUS
    <3>2. 1 \in DOMAIN term
      BY <1>2
    <3> QED BY <3>1, <3>2, NumeralsAssumption
  <2> QED BY <1>2, <2>1 DEF PlainWords
<1>4. PICK m, n \in 0..Len(key.words) : SubSeq(key.words, m + 1, n) = term
  BY <1>1 DEF Among
<1>5. key.words \in Seq(Words) /\ Len(key.words) \in Nat
  BY KeyParts
<1>6. m + 1 <= n /\ term[1] = key.words[m + 1] /\ m + 1 \in 1..Len(key.words)
  <2>1. m \in Nat /\ n \in Nat /\ m <= Len(key.words) /\ n <= Len(key.words)
    BY <1>5
  <2>2. m + 1 <= n
    <3>1. SUFFICES ASSUME m + 1 > n PROVE FALSE
      BY <2>1
    <3>2. Len(SubSeq(key.words, m + 1, n)) = 0
      BY <1>5, <2>1, <3>1
    <3> QED BY <1>2, <1>4, <3>2
  <2>3. SubSeq(key.words, m + 1, n)[1] = key.words[m + 1]
    BY <1>5, <2>1, <2>2
  <2> QED BY <1>4, <2>1, <2>2, <2>3
<1> QED BY <1>3, <1>6 DEF IsPlain

(* The key of a hash is not plain. *)
LEMMA HashKeysAreNotPlain ==
    ASSUME NEW key \in NodeKeys, IsHashKey(key)
    PROVE  key.words # <<>> /\ ~IsPlain(SafeKey(key))
<1>1. Len(key.words) = 2 /\ key.words[1] # "omitted"
  BY DEF IsHashKey
<1>2. key.words # <<>>
  BY <1>1
<1>3. SafeKey(key).words = key.words
  BY <1>2, SafeKeyIs
<1> QED BY <1>1, <1>2, <1>3 DEF IsPlain

(* A gate finds nothing when it finds nothing at a path that it reaches. *)
LEMMA NothingIsFound ==
    ASSUME NEW payload, NEW exposure
    PROVE  Findings(payload, exposure) = {} <=>
             \A path \in DOMAIN payload :
               Len(path) <= MaxScanDepth + 1 =>
                 /\ ~(/\ IsEntry(payload, path)
                      /\ KeyRefused(payload[path].key, payload[path].value, exposure))
                 /\ ValueFindings(payload[path].value, payload[path].key, exposure,
                                  Len(path)) = {}
<1> DEFINE reached == {path \in DOMAIN payload : Len(path) <= MaxScanDepth + 1}
           Refused(path) == /\ IsEntry(payload, path)
                            /\ KeyRefused(payload[path].key, payload[path].value, exposure)
           Found(path) == ValueFindings(payload[path].value, payload[path].key, exposure, Len(path))
           keys == {[key |-> payload[path].key, about |-> "key"] : path \in {p \in reached : Refused(p)}}
           At(path) == {[key |-> payload[path].key, about |-> about] : about \in Found(path)}
           values == UNION {At(path) : path \in reached}
<1>1. Findings(payload, exposure) = keys \cup values
  BY DEF Findings
<1>2. keys = {} <=> \A path \in reached : ~Refused(path)
  <2> HIDE DEF Refused, reached
  <2> QED OBVIOUS
<1>3. \A path \in reached : At(path) = {} <=> Found(path) = {}
  <2> HIDE DEF Found, reached
  <2> QED OBVIOUS
<1>4. values = {} <=> \A path \in reached : At(path) = {}
  <2> HIDE DEF At, reached
  <2> QED OBVIOUS
<1>5. Findings(payload, exposure) = {} <=> \A path \in reached : ~Refused(path) /\ Found(path) = {}
  <2> HIDE DEF Refused, Found, At, reached, keys, values
  <2> QED BY <1>1, <1>2, <1>3, <1>4
<1> HIDE DEF Refused, Found
<1>6. (\A path \in reached : ~Refused(path) /\ Found(path) = {})
      <=> \A path \in DOMAIN payload :
            Len(path) <= MaxScanDepth + 1 => ~Refused(path) /\ Found(path) = {}
  OBVIOUS
<1> QED BY <1>5, <1>6 DEF Refused, Found

(* Masking gives no value that a gate refuses. *)
LEMMA MaskedFindsNothing ==
    ASSUME NEW value \in NodeValues, NEW key \in NodeKeys, NEW printed \in NodeKeys,
           NEW second \in NodeKeys, NEW depth \in Nat, NEW exposure,
           IsHashKey(key) => IsHashKey(second),
           ValueFindings(value, key, exposure, depth) = {}
    PROVE  ValueFindings(MaskedValue(value, printed, depth), second, exposure, depth) = {}
<1> DEFINE masked == MaskedValue(value, printed, depth)
<1>1. MaxScanDepth \in Nat /\ MaxMaskingDepth \in Nat
  BY GatesAssumption, MaskingAssumption
<1>2. depth <= MaxScanDepth
  <2>1. depth > MaxScanDepth => ValueFindings(value, key, exposure, depth) = {"max_depth"}
    BY <1>1 DEF ValueFindings
  <2> QED BY <1>1, <2>1
<1>3. \/ masked \in {Omitted, FinancialOmitted}
      \/ value.kind = "text" /\ masked \in {value, MaskText(value)}
      \/ masked = TextOf({}, {})
      \/ value.kind \notin {"text", "bytes", "back"} /\ masked = value
  BY <1>1 DEF MaskedValue, SafeReference, SafeTechnicalValue
<1>4. ASSUME NEW text, text.kind = "text",
             \/ text.words = {} /\ text.shows = {}
             \/ /\ value.kind = "text" /\ text.words = value.words
                /\ text.shows \subseteq value.shows
                /\ "hash" \in value.shows => "hash" \in text.shows
      PROVE  ValueFindings(text, second, exposure, depth) = {}
  <2>1. ValueFindings(text, second, exposure, depth) = TextFindings(text, second, exposure)
    BY <1>1, <1>2, <1>4 DEF ValueFindings
  <2>2. value.kind = "text" => TextFindings(value, key, exposure) = {}
    BY <1>1, <1>2 DEF ValueFindings
  <2>3. text.shows \cap {"cpf", "cnpj", "email", "phone", "glued"} = {}
    BY <1>4, <2>2 DEF TextFindings
  <2>4. ~("run" \in text.shows /\ ~("hash" \in text.shows /\ IsHashKey(second)))
    <3>1. SUFFICES ASSUME "run" \in text.shows PROVE "hash" \in text.shows /\ IsHashKey(second)
      OBVIOUS
    <3>2. value.kind = "text" /\ "run" \in value.shows
      BY <1>4, <3>1
    <3>3. "hash" \in value.shows /\ IsHashKey(key)
      BY <2>2, <3>2 DEF TextFindings
    <3> QED BY <1>4, <3>1, <3>2, <3>3
  <2>5. text.words \cap ForbiddenTextTerms(exposure) = {}
    BY <1>4, <2>2 DEF TextFindings
  <2> QED BY <2>1, <2>3, <2>4, <2>5 DEF TextFindings
<1>5. CASE masked \in {Omitted, FinancialOmitted}
  <2>1. masked.kind = "omitted"
    BY <1>5 DEF Omitted, FinancialOmitted
  <2> HIDE DEF masked
  <2>2. ValueFindings(masked, second, exposure, depth) = {}
    BY <1>1, <1>2, <2>1 DEF ValueFindings
  <2> QED BY <2>2 DEF masked
<1>6. CASE value.kind = "text" /\ masked \in {value, MaskText(value)}
  <2>1. value \in TextValues
    BY <1>6, ValueKinds
  <2>2. /\ MaskText(value).kind = "text" /\ MaskText(value).words = value.words
        /\ MaskText(value).shows = value.shows \ {"cpf", "cnpj", "email", "phone", "credential"}
    BY <2>1, MaskTextIs
  <2>3. ValueFindings(value, second, exposure, depth) = {}
    BY <1>4, <1>6
  <2>4. ValueFindings(MaskText(value), second, exposure, depth) = {}
    BY <1>4, <1>6, <2>2
  <2> QED BY <1>6, <2>3, <2>4
<1>7. CASE masked = TextOf({}, {})
  <2>1. TextOf({}, {}).kind = "text" /\ TextOf({}, {}).words = {} /\ TextOf({}, {}).shows = {}
    BY DEF TextOf
  <2>2. ValueFindings(TextOf({}, {}), second, exposure, depth) = {}
    BY <1>4, <2>1
  <2> QED BY <1>7, <2>2
<1>8. CASE value.kind \notin {"text", "bytes", "back"} /\ masked = value
  <2>1. ValueFindings(value, second, exposure, depth) = ValueFindings(value, key, exposure, depth)
    BY <1>1, <1>2, <1>8 DEF ValueFindings
  <2> QED BY <1>8, <2>1
<1> QED BY <1>3, <1>5, <1>6, <1>7, <1>8

(* What was left out stays left out. *)
LEMMA OmittedStaysOmitted ==
    ASSUME NEW value \in NodeValues, value.kind = "omitted", NEW key \in NodeKeys, NEW depth \in Nat,
           key.words = <<"payload">>
    PROVE  MaskedValue(value, key, depth).kind = "omitted"
<1>1. MaxMaskingDepth \in Nat
  BY MaskingAssumption
<1>2. Normalized(key) \notin SafeTechnical
  <2>1. Len(<<"payload">>) = 1 /\ Len(<<>>) = 0
    OBVIOUS
  <2>2. Normalized(key) \in {<<"payload">>, <<>>}
    BY KeyParts
  <2> QED BY <2>1, <2>2, SafeNamesAreTwo
<1>3. MaskedValue(value, key, depth) \in {Omitted, FinancialOmitted, value}
  BY <1>1, <1>2 DEF MaskedValue, SafeReference
<1> QED BY <1>3 DEF Omitted, FinancialOmitted

(* The reference to a tenant is in no list of masking. *)
LEMMA TenantReferenceIsShown ==
    ASSUME NEW value \in TextValues, NEW key \in NodeKeys,
           key.words = <<"tenant", "ref">>, key.style = "snake"
    PROVE  MaskedValue(value, key, 1) = MaskText(value)
<1> DEFINE words == <<"tenant", "ref">>
<1>1. Normalized(key) = words
  BY DEF Normalized
<1>2. 1 <= MaxMaskingDepth /\ MaxMaskingDepth \in Nat
  BY MaskingAssumption
<1>3. Len(words) = 2 /\ words[1] = "tenant" /\ words[2] = "ref"
  OBVIOUS
<1>4. ASSUME NEW fragments,
             \A f \in fragments : Len(f) > 0 /\ f[1] \notin {"tenant", "ref"}
      PROVE  /\ ~Among(words, fragments) /\ words \notin fragments
             /\ \A m \in 0..Len(words) : SubSeq(words, m + 1, Len(words)) \notin fragments
  <2>1. ASSUME NEW m \in 0..2, NEW n \in 0..2
        PROVE  \/ Len(SubSeq(words, m + 1, n)) = 0
               \/ SubSeq(words, m + 1, n)[1] \in {"tenant", "ref"}
    <3>1. words \in Seq({"tenant", "ref"})
      BY PairIs
    <3>2. CASE m + 1 > n
      <4> HIDE DEF words
      <4> QED BY <1>3, <3>1, <3>2
    <3>3. CASE m + 1 <= n
      <4>1. m + 1 \in 1..2
        BY <3>3
      <4> HIDE DEF words
      <4>2. SubSeq(words, m + 1, n)[1] = words[m + 1]
        BY <1>3, <3>1, <3>3
      <4>3. words[m + 1] \in {"tenant", "ref"}
        BY <1>3, <3>1, <4>1
      <4> QED BY <4>2, <4>3
    <3> QED BY <3>2, <3>3
  <2>2. \A m, n \in 0..2 : SubSeq(words, m + 1, n) \notin fragments
    <3> HIDE DEF words
    <3>1. SUFFICES ASSUME NEW m \in 0..2, NEW n \in 0..2, SubSeq(words, m + 1, n) \in fragments
                   PROVE  FALSE
      OBVIOUS
    <3>2. /\ Len(SubSeq(words, m + 1, n)) > 0
          /\ SubSeq(words, m + 1, n)[1] \notin {"tenant", "ref"}
      BY <1>4, <3>1
    <3> QED BY <2>1, <3>2
  <2>3. words \notin fragments
    <3> HIDE DEF words
    <3> QED BY <1>3, <1>4
  <2> HIDE DEF words
  <2> QED BY <1>3, <2>2, <2>3 DEF Among
<1> DEFINE Apart(fragments) == \A f \in fragments : Len(f) > 0 /\ f[1] \notin {"tenant", "ref"}
<1>5. ASSUME NEW a, NEW b, a \notin {"tenant", "ref"}
      PROVE  /\ Len(<<a>>) > 0 /\ <<a>>[1] \notin {"tenant", "ref"}
             /\ Len(<<a, b>>) > 0 /\ <<a, b>>[1] \notin {"tenant", "ref"}
  BY <1>5
<1>6. /\ Apart(SecretFragments) /\ Apart(SecretSuffixes) /\ Apart(PayloadFragments)
      /\ Apart(IdentifierFragments) /\ Apart(FinancialFragments) /\ Apart(FinancialKeys)
      /\ Apart(PayloadKeys) /\ Apart(SafeReferences) /\ Apart(SafeTechnical)
  BY <1>5 DEF SecretFragments, SecretSuffixes, PayloadFragments, IdentifierFragments,
         FinancialFragments, FinancialKeys, PayloadKeys, SafeReferences, SafeTechnical
<1> HIDE DEF words
<1>7. ~IsOmitted(words) /\ ~IsFinancial(words)
      /\ words \notin SafeReferences /\ words \notin SafeTechnical
  BY <1>4, <1>6 DEF IsOmitted, IsFinancial, IsSecret
<1>8. value.kind = "text"
  BY DEF TextValues
<1> QED BY <1>1, <1>2, <1>7, <1>8 DEF MaskedValue

(* Entries of the root have the root for a parent. *)
LEMMA PathOfRoot ==
    ASSUME NEW path \in Seq(Nat), Len(path) = 1
    PROVE  path # <<>> /\ Parent(path) = <<>>
<1>1. path # <<>>
  <2>1. Len(<<>>) = 0 /\ 0 # 1
    OBVIOUS
  <2> QED BY <2>1, Zenon
<1>2. Parent(path) \in Seq(Nat) /\ Len(Parent(path)) = 0
  BY <1>1, PathParts
<1> QED BY <1>1, <1>2

(* Masking changes no key that is printed, but for those without words and    *)
(* those that they took.                                                      *)
LEMMA PrintedKeysStay ==
    ASSUME NEW payload, IsTree(payload), \A path \in DOMAIN payload : ~payload[path].key.noisy,
           NEW path \in DOMAIN MaskSensitiveData(payload), IsEntry(payload, path)
    PROVE  LET key == MaskSensitiveData(payload)[path].key
           IN \/ key = payload[path].key
              \/ IsPlain(key) /\ IsPlain(SafeKey(payload[path].key))
<1> DEFINE keys == KeysUnder(payload, Parent(path))
<1>1. path \in DOMAIN payload /\ path # <<>> /\ Parent(path) \in DOMAIN payload
  BY MaskedNodes, TreeNodes DEF IsEntry
<1>2. /\ AreKeys(keys) /\ Place(path) \in DOMAIN keys /\ keys[Place(path)] = payload[path].key
      /\ \A i \in DOMAIN keys : \E p \in DOMAIN payload :
            p # <<>> /\ Parent(p) = Parent(path) /\ Place(p) = i
      /\ \A p \in DOMAIN payload :
            p # <<>> /\ Parent(p) = Parent(path) => keys[Place(p)] = payload[p].key
  BY <1>1, TreeKeys
<1>3. MaskSensitiveData(payload)[path].key = OutputKeys(keys)[Place(path)]
  BY MaskedNodes
<1>4. ASSUME NEW p \in DOMAIN payload, NEW q \in DOMAIN payload, p # <<>>, q # <<>>,
             Parent(p) = Parent(path), Parent(q) = Parent(path),
             payload[p].key = payload[q].key
      PROVE  p = q
  <2>1. IsEntry(payload, p) /\ ~payload[p].key.noisy
    BY <1>4 DEF IsEntry
  <2> QED BY <1>4, <2>1 DEF IsTree
<1> HIDE DEF keys
<1>5. \A i \in DOMAIN keys : ~keys[i].noisy
  BY <1>2
<1>6. \A i, j \in DOMAIN keys : keys[i] = keys[j] => i = j
  BY <1>2, <1>4
<1> QED BY <1>2, <1>3, <1>5, <1>6, OutputOfPrintedKeys

(* A payload that a gate accepts is accepted when it is masked                *)
(* (validate_observability_exposure_payload), also when it is shown to a      *)
(* customer whose tenant's reference is a text that masking does not change.  *)
THEOREM AcceptedPayloadsStayAccepted ==
    ASSUME NEW payload, IsTree(payload), NEW exposure \in Exposures,
           NEW expectedTenant \in TextValues, MaskText(expectedTenant) = expectedTenant,
           NEW scopes, NEW source
    PROVE  AcceptedStaysAccepted(payload, exposure, expectedTenant, scopes, source)
<1> DEFINE once == MaskSensitiveData(payload)
<1> SUFFICES ASSUME \A path \in DOMAIN payload : ~payload[path].key.noisy,
                    MayExpose(payload, exposure, expectedTenant, scopes, source)
             PROVE  MayExpose(once, exposure, expectedTenant, scopes, source)
  BY DEF AcceptedStaysAccepted
<1>1. DOMAIN once \subseteq DOMAIN payload /\ <<>> \in DOMAIN once
  BY MaskedNodes
<1>2. ASSUME NEW path \in DOMAIN once
      PROVE  /\ once[path].value = MaskedAt(payload, path)
             /\ IsEntry(once, path) <=> IsEntry(payload, path)
             /\ once[path].key \in NodeKeys
             /\ \/ once[path].key = payload[path].key
                \/ /\ IsEntry(payload, path)
                   /\ IsPlain(once[path].key) /\ IsPlain(SafeKey(payload[path].key))
  <2>1. once[path].key \in NodeKeys
    BY MaskedIsTree, TreeNodes
  <2>2. CASE IsEntry(payload, path)
    BY <2>1, <2>2, MaskedNodes, PrintedKeysStay
  <2>3. CASE ~IsEntry(payload, path)
    <3>1. once[path].key = NoKey /\ payload[path].key = NoKey
      BY <1>1, <2>3, MaskedNodes, TreeNodes
    <3> QED BY <2>1, <3>1, MaskedNodes
  <2> QED BY <2>2, <2>3
<1>3. Findings(once, exposure) = {}
  <2>1. SUFFICES ASSUME NEW path \in DOMAIN once, Len(path) <= MaxScanDepth + 1
                 PROVE  /\ ~(/\ IsEntry(once, path)
                             /\ KeyRefused(once[path].key, once[path].value, exposure))
                        /\ ValueFindings(once[path].value, once[path].key, exposure, Len(path)) = {}
    <3> HIDE DEF once
    <3> QED BY NothingIsFound
  <2> DEFINE value == payload[path].value
             key == payload[path].key
             printed == IF IsEntry(payload, path) THEN SafeKey(key) ELSE NoKey
             second == once[path].key
  <2>2. /\ value \in NodeValues /\ key \in NodeKeys /\ Len(path) \in Nat
        /\ SafeKey(key) \in NodeKeys /\ printed \in NodeKeys /\ second \in NodeKeys
        /\ ~(IsEntry(payload, path) /\ KeyRefused(key, value, exposure))
        /\ ValueFindings(value, key, exposure, Len(path)) = {}
    <3>1. /\ value \in NodeValues /\ key \in NodeKeys /\ Len(path) \in Nat
          /\ (~IsEntry(payload, path) => key = NoKey)
      BY <1>1, TreeNodes
    <3>2. Findings(payload, exposure) = {}
      BY DEF MayExpose
    <3>3. /\ ~(IsEntry(payload, path) /\ KeyRefused(key, value, exposure))
          /\ ValueFindings(value, key, exposure, Len(path)) = {}
      BY <1>1, <2>1, <3>2, NothingIsFound
    <3>4. second \in NodeKeys
      BY <1>2
    <3> QED BY <3>1, <3>3, <3>4, SafeKeyIs
  <2>3. once[path].value = MaskedValue(value, printed, Len(path))
    BY <1>2 DEF MaskedAt
  <2>4. IsHashKey(key) => IsHashKey(second)
    BY <1>2, <2>2, HashKeysAreNotPlain
  <2>5. ValueFindings(once[path].value, second, exposure, Len(path)) = {}
    <3> HIDE DEF value, key, printed, second
    <3> QED BY <2>2, <2>3, <2>4, MaskedFindsNothing
  <2>6. ASSUME IsEntry(once, path), KeyRefused(second, once[path].value, exposure)
        PROVE  FALSE
    <3>1. IsEntry(payload, path) /\ ~KeyRefused(key, value, exposure)
      BY <1>2, <2>2, <2>6
    <3>2. second = key
      <4> HIDE DEF key
      <4> QED BY <1>2, <2>2, <2>6, PlainIsNotRefused DEF key
    <3>3. exposure = "technical_internal" /\ key.words = <<"payload">> /\ value.kind = "omitted"
          /\ once[path].value.kind # "omitted"
      <4> HIDE DEF key, value, once
      <4> QED BY <2>6, <3>1, <3>2 DEF KeyRefused
    <3>4. printed.words = <<"payload">>
      <4>1. <<"payload">> # <<>>
        BY PairIs
      <4>2. key.words # <<>>
        BY <3>3, <4>1
      <4>3. SafeKey(key).words = key.words
        <5> HIDE DEF key
        <5> QED BY <2>2, <4>2, SafeKeyIs
      <4> QED BY <3>1, <3>3, <4>3
    <3>5. once[path].value.kind = "omitted"
      <4> HIDE DEF key, value, printed
      <4> QED BY <2>2, <2>3, <3>3, <3>4, OmittedStaysOmitted
    <3> QED BY <3>3, <3>5
  <2> QED BY <2>5, <2>6
<1>4. ASSUME exposure = "customer_facing"
      PROVE  MayShowCustomer(once, expectedTenant, scopes, source)
  <2>1. MayShowCustomer(payload, expectedTenant, scopes, source)
    BY <1>4 DEF MayExpose
  <2>2. once[<<>>].value = Mapping
    <3>1. payload[<<>>].value = Mapping /\ ~IsEntry(payload, <<>>) /\ Len(<<>>) = 0
      BY <2>1 DEF MayShowCustomer, IsEntry
    <3>2. 0 \in 0..MaxMaskingDepth
      BY MaskingAssumption
    <3>3. Mapping \in NodeValues /\ Mapping.kind = "mapping"
      BY DEF Mapping, NodeValues, Containers
    <3>4. MaskedAt(payload, <<>>) = Mapping
      BY <3>1, <3>2, <3>3, MaskedWithoutKey DEF MaskedAt
    <3> QED BY <1>1, <1>2, <3>4
  <2>3. PICK path \in DOMAIN payload :
            Len(path) = 1 /\ payload[path] = Node(Key(<<"tenant", "ref">>), expectedTenant)
    BY <2>1 DEF MayShowCustomer
  <2> DEFINE key == Key(<<"tenant", "ref">>)
  <2>4. payload[path].key = key /\ payload[path].value = expectedTenant
    BY <2>3 DEF Node
  <2>5. path \in Seq(Nat) /\ path # <<>> /\ Parent(path) = <<>>
    <3>1. path \in DOMAIN payload /\ Len(path) = 1
      BY <2>3
    <3>2. path \in Seq(Nat)
      BY <3>1, TreeNodes, Zenon
    <3> QED BY <3>1, <3>2, PathOfRoot
  <2>6. IsEntry(payload, path)
    BY <2>1, <2>5 DEF MayShowCustomer, IsEntry
  <2>7. path \in DOMAIN once
    <3>1. DOMAIN once = KeptPaths(payload)
      BY MaskedNodes
    <3>2. MaskedAt(payload, Parent(path)) = Mapping /\ Mapping \in Containers
      BY <1>1, <1>2, <2>2, <2>5 DEF Containers
    <3> HIDE DEF once
    <3> QED BY <1>1, <2>3, <2>5, <3>1, <3>2, KeptWithParents
  <2>8. Len(key.words) = 2 /\ key.words[1] = "tenant" /\ key.words[2] = "ref"
        /\ key.style = "snake" /\ key.words = <<"tenant", "ref">> /\ key \in NodeKeys
    <3>1. key.words = <<"tenant", "ref">> /\ key.style = "snake"
      BY DEF Key
    <3>2. Len(<<"tenant", "ref">>) = 2 /\ <<"tenant", "ref">>[1] = "tenant"
          /\ <<"tenant", "ref">>[2] = "ref"
      OBVIOUS
    <3>3. key \in NodeKeys
      BY <2>3, <2>4, TreeNodes
    <3> HIDE DEF key
    <3> QED BY <3>1, <3>2, <3>3
  <2>9. SafeKey(key) = key
    <3>1. ~key.noisy
      BY DEF Key
    <3>2. key.words # <<>>
      BY <2>8
    <3> HIDE DEF key
    <3> QED BY <2>8, <3>1, <3>2, SafeKeyIs
  <2>10. once[path].key = key
    <3>1. ~IsPlain(SafeKey(key))
      <4> HIDE DEF key
      <4> QED BY <2>8, <2>9 DEF IsPlain
    <3> QED BY <1>2, <2>4, <2>7, <3>1
  <2>11. once[path].value = expectedTenant
    <3>1. once[path].value = MaskedValue(expectedTenant, key, 1)
      <4>1. once[path].value = MaskedAt(payload, path)
        BY <1>2, <2>7
      <4> HIDE DEF once, key
      <4> QED BY <2>3, <2>4, <2>6, <2>9, <4>1 DEF MaskedAt
    <3>2. MaskedValue(expectedTenant, key, 1) = MaskText(expectedTenant)
      <4> HIDE DEF key
      <4> QED BY <2>8, TenantReferenceIsShown
    <3> QED BY <3>1, <3>2
  <2>12. once[path] = Node(key, expectedTenant)
    <3>1. once[path] = Node(once[path].key, once[path].value)
      BY <2>7, MaskedNodes
    <3> QED BY <2>10, <2>11, <3>1
  <2> HIDE DEF once
  <2> QED BY <2>1, <2>2, <2>3, <2>7, <2>12 DEF MayShowCustomer
<1> HIDE DEF once
<1> QED BY <1>3, <1>4 DEF MayExpose

(* A path to an entry of the root *)
LEMMA RootEntryPath ==
    ASSUME NEW i \in Nat
    PROVE  /\ <<i>> \in Seq(Nat) /\ <<i>> # <<>> /\ Parent(<<i>>) = <<>> /\ Place(<<i>>) = i
           /\ Len(<<i>>) = 1 /\ Append(<<>>, i) = <<i>> /\ <<i>>[1] = i
<1>1. <<i>> \in Seq(Nat) /\ Len(<<i>>) = 1 /\ Append(<<>>, i) = <<i>> /\ <<i>>[1] = i
  OBVIOUS
<1>2. <<i>> # <<>> /\ Parent(<<i>>) = <<>>
  BY <1>1, PathOfRoot
<1>3. Place(<<i>>) = i
  BY <1>1 DEF Place
<1> QED BY <1>1, <1>2, <1>3

(* The entries of a mapping by their places *)
AreEntries(entries) ==
    /\ DOMAIN entries \in SUBSET Nat /\ IsFiniteSet(DOMAIN entries)
    /\ Cardinality(DOMAIN entries) <= MaxEntries
    /\ \A i \in DOMAIN entries : entries[i] \in [key : NodeKeys, value : NodeValues]
    /\ \A i, j \in DOMAIN entries : entries[i].key = entries[j].key /\ ~entries[i].key.noisy => i = j

(* A mapping is a payload, and its entries are those of its root. *)
LEMMA MappingIs ==
    ASSUME NEW entries, AreEntries(entries)
    PROVE  LET payload == MappingOf(entries)
           IN /\ IsTree(payload)
              /\ DOMAIN payload = {<<>>} \cup {<<i>> : i \in DOMAIN entries}
              /\ payload[<<>>] = Node(NoKey, Mapping)
              /\ \A i \in DOMAIN entries : payload[<<i>>] = entries[i] /\ IsEntry(payload, <<i>>)
              /\ KeysUnder(payload, <<>>) = [i \in DOMAIN entries |-> entries[i].key]
<1> DEFINE D == DOMAIN entries
           Leaf(i) == <<i>>
           paths == {Leaf(i) : i \in D}
           payload == MappingOf(entries)
           Places(parent) == {Place(path) : path \in {p \in DOMAIN payload \ {<<>>} : Parent(p) = parent}}
<1>1. /\ D \in SUBSET Nat /\ IsFiniteSet(D) /\ Cardinality(D) <= MaxEntries
      /\ \A i \in D : /\ entries[i].key \in NodeKeys /\ entries[i].value \in NodeValues
                      /\ entries[i] \in [key : NodeKeys, value : NodeValues]
  BY DEF AreEntries
<1>2. DOMAIN payload = {<<>>} \cup paths
  BY DEF MappingOf
<1>3. payload[<<>>] = Node(NoKey, Mapping)
  BY DEF MappingOf
<1>4. ASSUME NEW i \in D
      PROVE  /\ Leaf(i) \in Seq(Nat) /\ Leaf(i) # <<>> /\ Parent(Leaf(i)) = <<>>
             /\ Place(Leaf(i)) = i /\ Append(<<>>, i) = Leaf(i)
             /\ Leaf(i) \in DOMAIN payload /\ payload[Leaf(i)] = entries[i]
  <2>1. /\ Leaf(i) \in Seq(Nat) /\ Leaf(i) # <<>> /\ Parent(Leaf(i)) = <<>>
        /\ Place(Leaf(i)) = i /\ Append(<<>>, i) = Leaf(i) /\ Leaf(i)[1] = i
    BY <1>1, RootEntryPath
  <2>2. payload[Leaf(i)] = entries[Leaf(i)[1]]
    <3>1. Leaf(i) \in {<<>>} \cup {<<j>> : j \in DOMAIN entries}
      OBVIOUS
    <3> HIDE DEF Leaf, D
    <3> QED BY <2>1, <3>1 DEF MappingOf
  <2> HIDE DEF Leaf, payload
  <2> QED BY <1>2, <2>1, <2>2
<1>5. payload = [path \in DOMAIN payload |-> payload[path]]
  BY DEF MappingOf
<1>6. IsFiniteSet(DOMAIN payload)
  <2> DEFINE f == [i \in D |-> Leaf(i)]
  <2>1. {f[i] : i \in D} = paths
    OBVIOUS
  <2> HIDE DEF f
  <2>2. IsFiniteSet({f[i] : i \in D})
    BY <1>1, ImageBound
  <2>3. IsFiniteSet({<<>>})
    BY FS_Singleton
  <2> HIDE DEF paths, payload
  <2>4. IsFiniteSet(paths)
    BY <2>1, <2>2
  <2>5. IsFiniteSet({<<>>} \cup paths)
    BY <2>3, <2>4, FS_Union
  <2> QED BY <1>2, <2>5, Zenon
<1> HIDE DEF payload, Leaf
<1>7. Places(<<>>) = D
  <2>1. \A i \in D : i \in Places(<<>>)
    <3> SUFFICES ASSUME NEW i \in D PROVE i \in Places(<<>>)
      OBVIOUS
    <3>1. Leaf(i) \in {p \in DOMAIN payload \ {<<>>} : Parent(p) = <<>>}
      BY <1>4
    <3> QED BY <1>4, <3>1
  <2>2. \A path \in DOMAIN payload \ {<<>>} : Place(path) \in D
    BY <1>2, <1>4
  <2> QED BY <2>1, <2>2
<1>8. \A i \in D : Places(Leaf(i)) = {}
  <2>1. \A path \in DOMAIN payload \ {<<>>} : Parent(path) = <<>>
    BY <1>2, <1>4
  <2>2. \A i \in D : Leaf(i) # <<>>
    BY <1>4
  <2>3. ASSUME NEW i \in D PROVE {p \in DOMAIN payload \ {<<>>} : Parent(p) = Leaf(i)} = {}
    <3> HIDE DEF paths
    <3> QED BY <2>1, <2>2
  <2> QED BY <2>3
<1>9. \A path \in DOMAIN payload : DOMAIN KeysUnder(payload, path) = Places(path)
  BY DEF KeysUnder
<1>10. KeysUnder(payload, <<>>) = [i \in D |-> entries[i].key]
  <2>1. KeysUnder(payload, <<>>) = [i \in Places(<<>>) |-> payload[Append(<<>>, i)].key]
    BY DEF KeysUnder
  <2> HIDE DEF Places
  <2> QED BY <1>4, <1>7, <2>1
<1>11. \A i \in D : IsEntry(payload, Leaf(i))
  BY <1>3, <1>4 DEF IsEntry, Node
<1>12. ~IsEntry(payload, <<>>)
  BY DEF IsEntry
<1>13. NoKey \in NodeKeys /\ Mapping \in NodeValues /\ Mapping \in Containers
  <2>1. NoKey = [words |-> <<>>, style |-> "snake", noisy |-> FALSE] /\ <<>> \in Seq(Words)
    BY DEF NoKey, Key
  <2> QED BY <2>1 DEF NodeKeys, NodeValues, Containers
<1>14. payload \in [DOMAIN payload -> [key : NodeKeys, value : NodeValues]]
  <2>1. \A path \in DOMAIN payload : payload[path] \in [key : NodeKeys, value : NodeValues]
    <3>1. payload[<<>>] \in [key : NodeKeys, value : NodeValues]
      BY <1>3, <1>13 DEF Node
    <3> QED BY <1>1, <1>2, <1>4, <3>1
  <2> QED BY <1>5, <2>1
<1>15. DOMAIN payload \subseteq Seq(Nat)
  <2>1. <<>> \in Seq(Nat)
    OBVIOUS
  <2> QED BY <1>2, <1>4, <2>1
<1>16. \A path \in DOMAIN payload \ {<<>>} :
          Parent(path) \in DOMAIN payload /\ payload[Parent(path)].value \in Containers
  BY <1>2, <1>3, <1>4, <1>13 DEF Node
<1>17. \A path \in DOMAIN payload : ~IsEntry(payload, path) => payload[path].key = NoKey
  BY <1>2, <1>3, <1>11 DEF Node
<1>18. ASSUME NEW path \in DOMAIN payload
       PROVE  Cardinality(DOMAIN KeysUnder(payload, path)) <= MaxEntries
  <2>1. Cardinality({}) = 0 /\ MaxEntries \in Nat
    BY FS_EmptySet, MaskingAssumption
  <2>2. DOMAIN KeysUnder(payload, path) \in {D, {}}
    <3> HIDE DEF Places
    <3> QED BY <1>2, <1>7, <1>8, <1>9
  <2> QED BY <1>1, <2>1, <2>2
<1>19. ASSUME NEW path \in DOMAIN payload, NEW other \in DOMAIN payload, path # <<>>, other # <<>>,
              payload[path].key = payload[other].key, ~payload[path].key.noisy
       PROVE  path = other
  <2>1. PICK i \in D, j \in D : path = Leaf(i) /\ other = Leaf(j)
    BY <1>2, <1>19
  <2>2. entries[i].key = entries[j].key /\ ~entries[i].key.noisy
    BY <1>4, <1>19, <2>1
  <2> QED BY <2>1, <2>2 DEF AreEntries
<1>20. IsTree(payload)
  <2>1. \A path \in DOMAIN payload : IsEntry(payload, path) => path # <<>>
    BY <1>12
  <2> QED BY <1>2, <1>6, <1>14, <1>15, <1>16, <1>17, <1>18, <1>19, <2>1 DEF IsTree
<1> QED BY <1>2, <1>3, <1>4, <1>10, <1>11, <1>20 DEF payload, Leaf

(* What is left of attributes: their masked values under the keys given *)
LEMMA SanitizedIs ==
    ASSUME NEW entries, AreEntries(entries), NEW allowed
    PROVE  LET out == OutputKeys([i \in DOMAIN entries |-> entries[i].key])
               Value(i) == MaskedValue(entries[i].value, SafeKey(entries[i].key), 1)
           IN \A entry :
                entry \in Sanitized(entries, allowed) <=>
                  \E i \in DOMAIN entries :
                    /\ entry = Node(out[i], Value(i)) /\ out[i] \in allowed
                    /\ Value(i).kind \in {"text", "number", "omitted"}
<1> DEFINE out == OutputKeys([i \in DOMAIN entries |-> entries[i].key])
           Value(i) == MaskedValue(entries[i].value, SafeKey(entries[i].key), 1)
           payload == MappingOf(entries)
           masked == MaskSensitiveData(payload)
<1>1. /\ IsTree(payload) /\ payload[<<>>] = Node(NoKey, Mapping)
      /\ \A i \in DOMAIN entries :
            <<i>> \in DOMAIN payload /\ payload[<<i>>] = entries[i] /\ IsEntry(payload, <<i>>)
      /\ KeysUnder(payload, <<>>) = [i \in DOMAIN entries |-> entries[i].key]
  BY MappingIs
<1>2. MaskedAt(payload, <<>>) = Mapping
  <2>1. ~IsEntry(payload, <<>>) /\ Len(<<>>) = 0
    BY DEF IsEntry
  <2>2. Mapping \in NodeValues /\ 0 \in 0..MaxMaskingDepth /\ Mapping.kind = "mapping"
    BY MaskingAssumption DEF NodeValues, Containers, Mapping
  <2>3. MaskedAt(payload, <<>>) = MaskedValue(Mapping, NoKey, 0)
    BY <1>1, <2>1 DEF MaskedAt, Node
  <2> QED BY <2>2, <2>3, MaskedWithoutKey
<1>3. ASSUME NEW i \in DOMAIN entries
      PROVE  masked[<<i>>] = Node(out[i], Value(i))
  <2>1. i \in Nat
    BY DEF AreEntries
  <2>2. /\ <<i>> # <<>> /\ Parent(<<i>>) = <<>> /\ Place(<<i>>) = i /\ Len(<<i>>) = 1
    BY <2>1, RootEntryPath
  <2>3. <<i>> \in DOMAIN masked
    <3>1. <<i>> \in KeptPaths(payload)
      <4>1. Mapping \in Containers
        BY DEF Containers
      <4> HIDE DEF payload
      <4> QED BY <1>1, <1>2, <2>2, <4>1, KeptWithParents
    <3> HIDE DEF payload
    <3> QED BY <1>1, <3>1, MaskedNodes
  <2>4. MaskedAt(payload, <<i>>) = Value(i)
    <3> HIDE DEF payload
    <3> QED BY <1>1, <2>2 DEF MaskedAt
  <2> HIDE DEF payload
  <2>5. masked[<<i>>].value = Value(i) /\ masked[<<i>>].key = out[i]
    BY <1>1, <2>2, <2>3, <2>4, MaskedNodes
  <2>6. masked[<<i>>] = Node(masked[<<i>>].key, masked[<<i>>].value)
    BY <1>1, <2>3, MaskedNodes
  <2> HIDE DEF masked, out, Value
  <2> QED BY <2>5, <2>6
<1> SUFFICES \A entry : entry \in Sanitized(entries, allowed) <=>
                  \E i \in DOMAIN entries :
                    /\ entry = Node(out[i], Value(i)) /\ out[i] \in allowed
                    /\ Value(i).kind \in {"text", "number", "omitted"}
  OBVIOUS
<1>4. Sanitized(entries, allowed) =
        {masked[<<i>>] : i \in {j \in DOMAIN entries :
                            /\ masked[<<j>>].key \in allowed
                            /\ masked[<<j>>].value.kind \in {"text", "number", "omitted"}}}
  BY DEF Sanitized
<1> HIDE DEF masked, out, Value
<1>5. ASSUME NEW i \in DOMAIN entries
      PROVE  masked[<<i>>].key = out[i] /\ masked[<<i>>].value = Value(i)
  <2>1. Node(out[i], Value(i)).key = out[i] /\ Node(out[i], Value(i)).value = Value(i)
    BY DEF Node
  <2> QED BY <1>3, <2>1
<1> QED BY <1>3, <1>4, <1>5

(* The keys of a context are as they are; none of them is one of a list, or   *)
(* numbered.                                                                  *)
LEMMA ReservedAre ==
    ASSUME NEW key \in ReservedKeys
    PROVE  /\ key.words # <<>> /\ ~key.noisy
           /\ key # Key(<<"omitted", "key">>)
           /\ key \in NodeKeys => SafeKey(key) = key
           /\ \A other \in NodeKeys, n \in 2..MaxEntries + 1 : Numbered(other, n) # key
<1> DEFINE Differs(words) == Len(words) > 1 /\ Len(words) \in Nat /\ DOMAIN words = 1..Len(words)
                             /\ words[1] # "omitted"
<1>1. /\ \A a, b : a # "omitted" => Differs(<<a, b>>)
      /\ \A a, b, c : a # "omitted" => Differs(<<a, b, c>>)
  OBVIOUS
<1> HIDE DEF Differs
<1>2. PICK words : key = Key(words) /\ Differs(words)
  BY <1>1 DEF ReservedKeys
<1>3. key.words = words /\ ~key.noisy /\ key.style = "snake"
  BY <1>2 DEF Key
<1>4. Len(<<>>) = 0 /\ <<"omitted", "key">>[1] = "omitted"
  OBVIOUS
<1>5. words # <<>>
  <2>1. Len(words) # 0
    BY <1>2 DEF Differs
  <2> QED BY <1>4, <2>1, Zenon
<1>6. key # Key(<<"omitted", "key">>)
  <2>1. Key(<<"omitted", "key">>).words = <<"omitted", "key">>
    BY DEF Key
  <2>2. words # <<"omitted", "key">>
    <3>1. words[1] # "omitted"
      BY <1>2 DEF Differs
    <3> QED BY <1>4, <3>1, Zenon
  <2> QED BY <1>3, <2>1, <2>2, Zenon
<1>7. ASSUME NEW other \in NodeKeys, NEW n \in 2..MaxEntries + 1
      PROVE  Numbered(other, n) # key
  <2>1. SUFFICES ASSUME Numbered(other, n) = key PROVE FALSE
    OBVIOUS
  <2>2. /\ Len(words) = Len(other.words) + 1 /\ words[Len(other.words) + 1] = Numeral[n]
        /\ Len(other.words) \in Nat
    BY <1>3, <2>1, NumberedIs, KeyParts
  <2>3. Len(words) \in DOMAIN words
    BY <1>2 DEF Differs
  <2>4. n \in DOMAIN Numeral
    BY MaskingAssumption
  <2>5. words \in (UNION {ForbiddenKeyTerms(exposure) : exposure \in Exposures})
                    \cup {k.words : k \in ReservedKeys}
    <3>1. words \in {k.words : k \in ReservedKeys}
      <4>1. key \in ReservedKeys /\ key.words = words
        BY <1>3
      <4> HIDE DEF ReservedKeys
      <4> QED BY <4>1
    <3> QED BY <3>1
  <2>6. words[Len(words)] # Numeral[n]
    BY <2>3, <2>4, <2>5, NumeralsAssumption
  <2> QED BY <2>2, <2>6
<1>8. key \in NodeKeys => SafeKey(key) = key
  BY <1>3, <1>5, SafeKeyIs
<1> QED BY <1>3, <1>5, <1>6, <1>7, <1>8

(* Attributes as a sequence *)
LEMMA AttributesAre ==
    ASSUME NEW attributes, IsAttributes(attributes)
    PROVE  /\ attributes \in Seq([key : NodeKeys, value : NodeValues])
           /\ Len(attributes) \in Nat /\ DOMAIN attributes = 1..Len(attributes)
           /\ \A i, j \in DOMAIN attributes :
                attributes[i].key = attributes[j].key /\ ~attributes[i].key.noisy => i = j
           /\ \A i \in DOMAIN attributes : /\ attributes[i] \in [key : NodeKeys, value : NodeValues]
                                            /\ attributes[i].key \in NodeKeys
<1> DEFINE S == [key : NodeKeys, value : NodeValues]
<1>1. attributes \in Seq(S)
  BY DEF IsAttributes
<1> HIDE DEF S
<1>2. /\ Len(attributes) \in Nat /\ DOMAIN attributes = 1..Len(attributes)
      /\ \A i \in DOMAIN attributes : attributes[i] \in S
  BY <1>1
<1>3. \A i, j \in DOMAIN attributes :
        attributes[i].key = attributes[j].key /\ ~attributes[i].key.noisy => i = j
  BY DEF IsAttributes
<1>4. \A entry \in S : entry.key \in NodeKeys
  BY DEF S
<1> QED BY <1>1, <1>2, <1>3, <1>4 DEF S

(* What the attributes of a caller and of a context are together *)
IsTogether(entries, attributes, context, assigned) ==
    LET n == Len(attributes)
    IN /\ AreEntries(entries)
       /\ n \in Nat /\ DOMAIN attributes = 1..n
       /\ \A i \in DOMAIN entries :
            \/ i \in 1..n /\ entries[i] = attributes[i] /\ attributes[i].key \notin ReservedKeys
            \/ /\ i > n /\ i - n \in DOMAIN context /\ entries[i] = context[i - n]
               /\ context[i - n].key \in assigned
       /\ \A i \in 1..n : attributes[i].key \notin ReservedKeys => i \in DOMAIN entries
       /\ \A j \in DOMAIN context :
            context[j].key \in assigned =>
              n + j \in DOMAIN entries /\ entries[n + j] = context[j] /\ n + j > n

LEMMA WithContextIs ==
    ASSUME NEW context, IsTelemetryContext(context), NEW attributes, IsAttributes(attributes),
           Len(attributes) + Len(context) <= MaxEntries, NEW assigned \in SUBSET ReservedKeys
    PROVE  IsTogether(WithContext(attributes, context, assigned), attributes, context, assigned)
<1> DEFINE n == Len(attributes)
           entries == WithContext(attributes, context, assigned)
           own == {i \in 1..n : attributes[i].key \notin ReservedKeys}
           added == {n + j : j \in {j \in DOMAIN context : context[j].key \in assigned}}
<1>1. /\ attributes \in Seq([key : NodeKeys, value : NodeValues]) /\ n \in Nat /\ DOMAIN attributes = 1..n
      /\ \A i, j \in DOMAIN attributes :
            attributes[i].key = attributes[j].key /\ ~attributes[i].key.noisy => i = j
      /\ \A i \in 1..n : attributes[i] \in [key : NodeKeys, value : NodeValues]
  BY AttributesAre
<1>2. /\ context \in Seq([key : NodeKeys, value : NodeValues]) /\ Len(context) \in Nat
      /\ DOMAIN context = 1..Len(context)
      /\ \A i, j \in DOMAIN context :
            context[i].key = context[j].key /\ ~context[i].key.noisy => i = j
      /\ \A i \in DOMAIN context : /\ context[i].key \in ReservedKeys
                                   /\ context[i] \in [key : NodeKeys, value : NodeValues]
  BY AttributesAre DEF IsTelemetryContext
<1>3. DOMAIN entries = own \cup added
  BY DEF WithContext
<1>4. \A i \in own \cup added : entries[i] = IF i <= n THEN attributes[i] ELSE context[i - n]
  BY DEF WithContext
<1> HIDE DEF entries
<1>5. ASSUME NEW j \in DOMAIN context, context[j].key \in assigned
      PROVE  n + j \in DOMAIN entries /\ entries[n + j] = context[j] /\ n + j > n
  <2>1. n + j \in added
    BY <1>5
  <2>2. j \in Nat \ {0} /\ ~(n + j <= n) /\ (n + j) - n = j
    BY <1>1, <1>2
  <2> HIDE DEF added, own
  <2> QED BY <1>3, <1>4, <2>1, <2>2
<1>6. ASSUME NEW i \in own
      PROVE  i \in DOMAIN entries /\ entries[i] = attributes[i] /\ i \in 1..n
  BY <1>1, <1>3, <1>4
<1>7. ASSUME NEW i \in DOMAIN entries
      PROVE  \/ i \in own /\ entries[i] = attributes[i]
             \/ /\ i > n /\ i - n \in DOMAIN context /\ entries[i] = context[i - n]
                /\ context[i - n].key \in assigned /\ i \in 1..n + Len(context)
  <2>1. CASE i \in own
    BY <1>6, <2>1
  <2>2. CASE i \in added
    <3>1. PICK j \in DOMAIN context : i = n + j /\ context[j].key \in assigned
      BY <2>2
    <3>2. j \in 1..Len(context) /\ i - n = j /\ i \in 1..n + Len(context)
      BY <1>1, <1>2, <3>1
    <3> QED BY <1>5, <3>1, <3>2
  <2> QED BY <1>3, <2>1, <2>2
<1>8. AreEntries(entries)
  <2>1. DOMAIN entries \in SUBSET (1..n + Len(context))
    BY <1>1, <1>2, <1>6, <1>7
  <2>2. n + Len(context) \in Nat /\ 1 \in Int /\ n + Len(context) \in Int
    BY <1>1, <1>2
  <2>3. IsFiniteSet(1..n + Len(context)) /\ Cardinality(1..n + Len(context)) = n + Len(context)
    BY <2>2, FS_Interval
  <2>4. IsFiniteSet(DOMAIN entries) /\ Cardinality(DOMAIN entries) <= n + Len(context)
    BY <2>1, <2>3, FS_Subset
  <2>5. Cardinality(DOMAIN entries) \in Nat /\ MaxEntries \in Nat
    BY <2>4, FS_CardinalityType, MaskingAssumption
  <2>6. Cardinality(DOMAIN entries) <= MaxEntries
    BY <2>2, <2>4, <2>5
  <2>7. \A i \in DOMAIN entries : entries[i] \in [key : NodeKeys, value : NodeValues]
    BY <1>1, <1>2, <1>7
  <2>8. ASSUME NEW i \in DOMAIN entries, NEW j \in DOMAIN entries,
               entries[i].key = entries[j].key, ~entries[i].key.noisy
        PROVE  i = j
    <3>1. CASE i \in own /\ j \in own
      BY <1>1, <1>6, <2>8, <3>1
    <3>2. CASE i \notin own /\ j \notin own
      <4>1. i - n \in DOMAIN context /\ j - n \in DOMAIN context
            /\ context[i - n].key = context[j - n].key /\ ~context[i - n].key.noisy
        BY <1>7, <2>8, <3>2
      <4>2. i - n = j - n
        BY <1>2, <4>1
      <4>3. i \in Int /\ j \in Int /\ n \in Int
        BY <1>1, <2>1
      <4> QED BY <4>2, <4>3
    <3>3. CASE ~(i \in own <=> j \in own)
      BY <1>2, <1>6, <1>7, <2>8, <3>3
    <3> QED BY <3>1, <3>2, <3>3
  <2>9. DOMAIN entries \in SUBSET Nat
    BY <2>1
  <2> QED BY <2>4, <2>6, <2>7, <2>8, <2>9 DEF AreEntries
<1> QED BY <1>1, <1>5, <1>6, <1>7, <1>8 DEF entries, IsTogether

(* Text stays text or is left out. *)
LEMMA MaskedTextIs ==
    ASSUME NEW value \in TextValues, NEW key, NEW depth \in Nat
    PROVE  MaskedValue(value, key, depth).kind \in {"text", "omitted"}
<1>1. value.kind = "text" /\ MaskText(value).kind = "text" /\ TextOf({}, {}).kind = "text"
      /\ Omitted.kind = "omitted" /\ FinancialOmitted.kind = "omitted"
  BY MaskTextIs DEF TextValues, TextOf, Omitted, FinancialOmitted
<1>2. MaxMaskingDepth \in Nat
  BY MaskingAssumption
<1> QED BY <1>1, <1>2 DEF MaskedValue, SafeReference, SafeTechnicalValue

(* A span carries the identifiers of its context, masked, whatever attributes *)
(* are given; a metric has none (_safe_span_attributes,                       *)
(* _safe_metric_attributes).                                                  *)
THEOREM SpansCarryTheirContext ==
    ASSUME NEW context, IsTelemetryContext(context), NEW attributes, IsAttributes(attributes),
           Len(attributes) + Len(context) <= MaxEntries,
           NEW allowed, allowed \cap ReservedKeys \subseteq {TierKey}
    PROVE  ContextIsCarried(context, attributes, allowed)
<1> DEFINE span == SpanAttributes(context, attributes, allowed)
           metric == MetricAttributes(context, attributes, allowed)
<1> SUFFICES ASSUME NEW i \in DOMAIN context
             PROVE  LET key == context[i].key
                        Masked(value) == MaskedValue(value, key, 1)
                        known == {j \in DOMAIN attributes :
                                    attributes[j].key.noisy /\ SafeKey(attributes[j].key) = key}
                        carried == {entry.value : entry \in {e \in span : e.key = key}}
                    IN /\ known = {} => carried = {Masked(context[i].value)}
                       /\ known # {} => carried \subseteq {Masked(attributes[j].value) : j \in known}
                       /\ key # TierKey => \A entry \in metric : entry.key # key
  BY DEF ContextIsCarried
<1> DEFINE key == context[i].key
           Masked(value) == MaskedValue(value, key, 1)
           known == {j \in DOMAIN attributes :
                        attributes[j].key.noisy /\ SafeKey(attributes[j].key) = key}
           carried == {entry.value : entry \in {e \in span : e.key = key}}
           n == Len(attributes)
<1>1. /\ key \in ReservedKeys /\ key \in NodeKeys /\ context[i].value \in TextValues
      /\ \A j \in DOMAIN context : /\ context[j].key \in ReservedKeys /\ context[j].key \in NodeKeys
                                   /\ context[j].key = key => i = j
  <2>1. /\ \A j \in DOMAIN context : context[j].key \in ReservedKeys /\ context[j].value \in TextValues
        /\ \A j \in DOMAIN context : context[j] \in [key : NodeKeys, value : NodeValues]
        /\ \A j, k \in DOMAIN context :
             context[j].key = context[k].key /\ ~context[j].key.noisy => j = k
    <3>1. IsAttributes(context)
      BY DEF IsTelemetryContext
    <3> QED BY <3>1, AttributesAre DEF IsTelemetryContext
  <2>2. \A j \in DOMAIN context : context[j].key \in NodeKeys
    BY <2>1
  <2> QED BY <2>1, <2>2, ReservedAre
<1>2. key # TierKey => \A entry \in metric : entry.key # key
  <2> DEFINE entries == WithContext(attributes, context, {TierKey})
  <2>1. TierKey \in ReservedKeys
    BY DEF TierKey, ReservedKeys
  <2>2. AreEntries(entries)
    BY <2>1, WithContextIs DEF IsTogether
  <2>3. \A entry \in metric : entry.key \in allowed \cup {TierKey}
    <3> HIDE DEF entries
    <3>1. metric = Sanitized(entries, allowed \cup {TierKey})
      BY DEF MetricAttributes, entries
    <3> HIDE DEF metric
    <3> SUFFICES ASSUME NEW entry \in Sanitized(entries, allowed \cup {TierKey})
                 PROVE  entry.key \in allowed \cup {TierKey}
      BY <3>1
    <3>2. \E key1, value : entry = Node(key1, value) /\ key1 \in allowed \cup {TierKey}
      <4> DEFINE more == allowed \cup {TierKey}
      <4> HIDE DEF entries, more
      <4>1. \E j \in DOMAIN entries :
              /\ entry = Node(OutputKeys([k \in DOMAIN entries |-> entries[k].key])[j],
                              MaskedValue(entries[j].value, SafeKey(entries[j].key), 1))
              /\ OutputKeys([k \in DOMAIN entries |-> entries[k].key])[j] \in more
        BY <2>2, SanitizedIs DEF more
      <4> QED BY <4>1 DEF more
    <3> QED BY <3>2 DEF Node
  <2> HIDE DEF key, metric
  <2> QED BY <1>1, <2>3
<1> DEFINE entries == WithContext(attributes, context, ReservedKeys)
           D == DOMAIN entries
           keys == [j \in DOMAIN entries |-> entries[j].key]
           out == OutputKeys(keys)
           Value(j) == MaskedValue(entries[j].value, SafeKey(entries[j].key), 1)
           p == n + i
<1>3. /\ AreEntries(entries) /\ n \in Nat /\ DOMAIN attributes = 1..n
      /\ \A j \in D :
            \/ j \in 1..n /\ entries[j] = attributes[j] /\ attributes[j].key \notin ReservedKeys
            \/ j > n /\ j - n \in DOMAIN context /\ entries[j] = context[j - n]
      /\ \A j \in 1..n : attributes[j].key \notin ReservedKeys => j \in D
      /\ p \in D /\ entries[p] = context[i] /\ p > n
  <2>1. IsTogether(entries, attributes, context, ReservedKeys)
    BY WithContextIs
  <2> HIDE DEF entries
  <2> QED BY <1>1, <2>1 DEF IsTogether
<1>4. \A entry : entry \in span <=>
          \E j \in D : /\ entry = Node(out[j], Value(j)) /\ out[j] \in allowed \cup ReservedKeys
                       /\ Value(j).kind \in {"text", "number", "omitted"}
  <2>1. span = Sanitized(entries, allowed \cup ReservedKeys)
    BY DEF SpanAttributes
  <2> HIDE DEF entries, span
  <2> QED BY <1>3, <2>1, SanitizedIs
<1> HIDE DEF entries
<1>5. AreKeys(keys) /\ DOMAIN keys = D /\ D \in SUBSET Nat
      /\ \A j \in D : keys[j] = entries[j].key /\ keys[j] \in NodeKeys
  BY <1>3 DEF AreEntries, AreKeys
<1> HIDE DEF keys
<1>6. /\ \A j, k \in D : j < k => out[k] # out[j]
      /\ \A k \in D :
            \/ out[k] = SafeKey(keys[k]) /\ \A j \in D : j < k => out[j] # SafeKey(keys[k])
            \/ /\ \E j \in D : j < k /\ out[j] = SafeKey(keys[k])
               /\ \E m \in 2..MaxEntries + 1 : out[k] = Numbered(SafeKey(keys[k]), m)
  BY <1>5, OutputIs
<1> HIDE DEF out, span, D
<1>7. ASSUME NEW q \in D, out[q] = key
      PROVE  SafeKey(keys[q]) = key /\ (q \in known \/ q = p)
  <2>1. SafeKey(keys[q]) = key
    <3>1. SafeKey(keys[q]) \in NodeKeys
      BY <1>5, SafeKeyIs
    <3> HIDE DEF key
    <3> QED BY <1>1, <1>6, <1>7, <3>1, ReservedAre
  <2>2. CASE q \in 1..n /\ entries[q] = attributes[q] /\ attributes[q].key \notin ReservedKeys
    <3>1. keys[q] = attributes[q].key /\ keys[q] \in NodeKeys
      BY <1>5, <2>2
    <3>2. keys[q].words # <<>>
      <4> HIDE DEF key
      <4> QED BY <1>1, <2>1, <3>1, SafeKeyIs, ReservedAre
    <3>3. keys[q].noisy
      <4> HIDE DEF key
      <4> QED BY <1>1, <2>1, <2>2, <3>1, <3>2, SafeKeyIs
    <3>4. q \in known
      BY <1>3, <2>1, <2>2, <3>1, <3>3
    <3> HIDE DEF known
    <3> QED BY <2>1, <3>4
  <2>3. CASE q > n /\ q - n \in DOMAIN context /\ entries[q] = context[q - n]
    <3>1. keys[q] = context[q - n].key
      BY <1>5, <2>3
    <3>2. SafeKey(keys[q]) = keys[q]
      BY <1>1, <2>3, <3>1, ReservedAre
    <3>3. q - n = i
      BY <1>1, <2>1, <2>3, <3>1, <3>2
    <3>4. q \in Nat
      BY <1>5
    <3>5. q = p
      BY <1>3, <3>3, <3>4
    <3> HIDE DEF p
    <3> QED BY <2>1, <3>5
  <2> HIDE DEF known, key, p
  <2> QED BY <1>3, <2>2, <2>3
<1>8. keys[p] = key /\ SafeKey(keys[p]) = key /\ p \in Nat
  <2> HIDE DEF p
  <2> QED BY <1>1, <1>3, <1>5, ReservedAre
<1>9. ASSUME NEW j \in known
      PROVE  j \in D /\ j < p /\ keys[j] = attributes[j].key /\ SafeKey(keys[j]) = key
             /\ entries[j] = attributes[j]
  <2>1. j \in 1..n /\ attributes[j].key.noisy /\ SafeKey(attributes[j].key) = key
    BY <1>3
  <2>2. attributes[j].key \notin ReservedKeys
    BY <2>1, ReservedAre
  <2>3. j \in D /\ j <= n
    BY <1>3, <2>1, <2>2
  <2>4. j < p
    BY <1>3, <1>8, <2>1
  <2>5. entries[j] = attributes[j]
    BY <1>3, <2>1, <2>3
  <2>6. keys[j] = attributes[j].key
    BY <1>5, <2>3, <2>5
  <2> HIDE DEF p, known, key
  <2> QED BY <2>1, <2>3, <2>4, <2>5, <2>6
<1>10. Value(p) = Masked(context[i].value)
  <2> HIDE DEF p
  <2>1. SafeKey(entries[p].key) = key
    BY <1>3, <1>5, <1>8
  <2> QED BY <1>3, <2>1
<1>11. \A v \in carried : \E q \in D : out[q] = key /\ v = Value(q)
  <2> HIDE DEF Value, key
  <2> SUFFICES ASSUME NEW entry \in span, entry.key = key
               PROVE  \E q \in D : out[q] = key /\ entry.value = Value(q)
    OBVIOUS
  <2> QED BY <1>4 DEF Node
<1>12. ASSUME NEW q \in D, out[q] = key, Value(q).kind \in {"text", "number", "omitted"}
       PROVE  Value(q) \in carried
  <2> HIDE DEF Value, key
  <2>1. Node(out[q], Value(q)) \in span
    BY <1>1, <1>4, <1>12
  <2>2. Node(out[q], Value(q)).key = key /\ Node(out[q], Value(q)).value = Value(q)
    BY <1>12 DEF Node
  <2> QED BY <2>1, <2>2
<1>13. known = {} => carried = {Masked(context[i].value)}
  <2> SUFFICES ASSUME known = {} PROVE carried = {Masked(context[i].value)}
    OBVIOUS
  <2>1. \A q \in D : out[q] = key => q = p
    <3> HIDE DEF key, p, known
    <3> QED BY <1>7
  <2>2. out[p] = key
    <3> HIDE DEF key, p, known
    <3>1. p \in D
      BY <1>3
    <3>2. SUFFICES ASSUME NEW j \in D, j < p, out[j] = key PROVE FALSE
      BY <1>6, <1>8, <3>1
    <3>3. j = p
      BY <2>1, <3>2
    <3> QED BY <1>8, <3>2, <3>3
  <2>3. Value(p).kind \in {"text", "number", "omitted"}
    <3>1. Masked(context[i].value).kind \in {"text", "omitted"}
      BY <1>1, MaskedTextIs
    <3> HIDE DEF Masked, Value, p
    <3> QED BY <1>10, <3>1
  <2>4. Value(p) \in carried
    <3> HIDE DEF key, p, known, carried, Value
    <3> QED BY <1>3, <1>12, <2>2, <2>3
  <2>5. \A v \in carried : v = Value(p)
    <3> HIDE DEF key, p, known, carried, Value
    <3> QED BY <1>11, <2>1
  <2> HIDE DEF carried, Value, Masked, p
  <2> QED BY <1>10, <2>4, <2>5
<1>14. known # {} => carried \subseteq {Masked(attributes[j].value) : j \in known}
  <2> SUFFICES ASSUME NEW one \in known, NEW v \in carried
               PROVE  \E j \in known : v = Masked(attributes[j].value)
    OBVIOUS
  <2>1. PICK q \in D : out[q] = key /\ v = Value(q)
    <3> HIDE DEF carried, Value, key, known
    <3> QED BY <1>11
  <2>2. out[p] # key
    <3> HIDE DEF key, p, known
    <3>1. one \in D /\ one < p /\ SafeKey(keys[one]) = key /\ p \in D
      BY <1>3, <1>9
    <3>2. CASE out[one] = key
      BY <1>6, <3>1, <3>2
    <3>3. CASE out[one] # key
      <4>1. PICK j \in D : j < one /\ out[j] = key
        BY <1>6, <3>1, <3>3
      <4>2. j < p
        <5>1. j \in Nat /\ one \in Nat /\ p \in Nat /\ one < p /\ j < one
          BY <1>5, <1>8, <3>1, <4>1
        <5> QED BY <5>1
      <4> QED BY <1>6, <3>1, <4>1, <4>2
    <3> QED BY <3>2, <3>3
  <2>3. q \in known
    <3> HIDE DEF key, p, known
    <3> QED BY <1>7, <2>1, <2>2
  <2>4. Value(q) = Masked(attributes[q].value)
    <3>1. SafeKey(keys[q]) = key /\ entries[q] = attributes[q] /\ keys[q] = attributes[q].key
      <4> HIDE DEF key, p, known
      <4> QED BY <1>9, <2>3
    <3> QED BY <3>1
  <2> HIDE DEF key, known, Value, Masked
  <2> QED BY <2>1, <2>3, <2>4
<1> HIDE DEF key, Masked, known, carried, metric
<1> SUFFICES /\ known = {} => carried = {Masked(context[i].value)}
             /\ known # {} => carried \subseteq {Masked(attributes[j].value) : j \in known}
             /\ key # TierKey => \A entry \in metric : entry.key # key
  BY DEF key, Masked, known, carried, metric
<1> QED BY <1>2, <1>13, <1>14

(* What is among words is among them in a larger list. *)
LEMMA AmongMore ==
    ASSUME NEW words, NEW term, NEW fragments, Among(words, {term}), term \in fragments
    PROVE  Among(words, fragments)
  BY DEF Among

(* What follows in a fragment is among the words too. *)
LEMMA AmongEnd ==
    ASSUME NEW words \in Seq(Words), NEW a, NEW b, Among(words, {<<a, b>>})
    PROVE  Among(words, {<<b>>})
<1>1. PICK m, n \in 0..Len(words) : SubSeq(words, m + 1, n) = <<a, b>>
  BY DEF Among
<1>2. m \in Nat /\ n \in Nat /\ n <= Len(words) /\ Len(words) \in Nat
  OBVIOUS
<1>3. Len(SubSeq(words, m + 1, n)) = IF m + 1 <= n THEN n - m ELSE 0
  BY <1>2
<1>4. Len(<<a, b>>) = 2 /\ <<a, b>>[2] = b
  OBVIOUS
<1>5. n = m + 2
  <2>1. Len(SubSeq(words, m + 1, n)) = 2
    BY <1>1, <1>4, Zenon
  <2> QED BY <1>2, <1>3, <2>1
<1>6. SubSeq(words, m + 1, n)[2] = words[n]
  BY <1>2, <1>5
<1>7. words[n] = b
  BY <1>1, <1>4, <1>6
<1>8. SubSeq(words, (m + 1) + 1, n) = <<b>>
  <2>1. SubSeq(words, (m + 1) + 1, n) \in Seq(Words) /\ Len(SubSeq(words, (m + 1) + 1, n)) = 1
        /\ SubSeq(words, (m + 1) + 1, n)[1] = words[n] /\ words[n] \in Words
    BY <1>2, <1>5
  <2>2. <<b>> \in Seq(Words) /\ Len(<<b>>) = 1 /\ <<b>>[1] = b
    BY <1>7, <2>1
  <2>3. \A i \in 1..1 : SubSeq(words, (m + 1) + 1, n)[i] = <<b>>[i]
    BY <1>7, <2>1, <2>2
  <2> QED BY <2>1, <2>2, <2>3, SeqEqual
<1>9. m + 1 \in 0..Len(words)
  BY <1>2, <1>5
<1> QED BY <1>8, <1>9 DEF Among

(* A key is refused for a term that is among its words, or that two of them   *)
(* are when nothing is between.                                               *)
LEMMA MatchesAre ==
    ASSUME NEW key, NEW term, Matches(key, term), key.words \in Seq(Words)
    PROVE  \/ Among(key.words, {term})
           \/ term = <<"apikey">> /\ Among(key.words, {<<"api", "key">>})
           \/ term = <<"stacktrace">>
<1>1. SUFFICES ASSUME NEW pair \in DOMAIN Joined, term = Joined[pair],
                      key.words = pair \/ Among(key.words, {pair}), pair # <<"stack", "trace">>
               PROVE  Among(key.words, {<<"api", "key">>}) /\ Joined[pair] = <<"apikey">>
  <2>1. Joined[<<"stack", "trace">>] = <<"stacktrace">>
    <3>1. <<"stack", "trace">> # <<"api", "key">>
      OBVIOUS
    <3> QED BY <3>1 DEF Joined
  <2> QED BY <2>1 DEF Matches
<1>2. pair = <<"api", "key">> /\ Joined[pair] = <<"apikey">>
  BY <1>1 DEF Joined
<1>3. key.words = pair => Among(key.words, {pair})
  <2>1. SUFFICES ASSUME key.words = pair PROVE Among(key.words, {pair})
    OBVIOUS
  <2>2. Len(key.words) \in Nat /\ SubSeq(key.words, 0 + 1, Len(key.words)) = key.words
    OBVIOUS
  <2>3. 0 \in 0..Len(key.words) /\ Len(key.words) \in 0..Len(key.words)
    BY <2>2
  <2> QED BY <2>1, <2>2, <2>3 DEF Among
<1> QED BY <1>1, <1>2, <1>3

(* A gate refuses the keys of its list but for those that are safe. *)
LEMMA RefusedIs ==
    ASSUME NEW key
    PROVE  /\ KeyRefused(key, Number({}), "technical_internal") =>
                \E term \in ForbiddenKeyTerms("technical_internal") : Matches(key, term)
           /\ \A term \in ForbiddenKeyTerms("customer_facing") :
                Matches(key, term) =>
                    \/ KeyRefused(key, Number({}), "customer_facing")
                    \/ key.style # "camel" /\ key.words \in SafeKeys("customer_facing")
  BY DEF KeyRefused

(* The lists of keys of masking, of the technical gate and of that of         *)
(* customers agree for every key, but for known words (_is_secret_key,        *)
(* _scan_key).                                                                *)
THEOREM KeyListsDoAgree ==
    ASSUME NEW key \in NodeKeys
    PROVE  KeyListsAgree(key)
<1> DEFINE words == key.words
           first == {<<"bearer">>, <<"raw", "error">>, <<"decision", "id">>,
                     <<"proposal", "id">>, <<"output">>, <<"apikey">>, <<"api", "key">>}
           second == {<<"authorization">>, <<"headers">>, <<"output">>, <<"password">>,
                      <<"prompt">>, <<"raw", "error">>, <<"senha">>, <<"apikey">>,
                      <<"api", "key">>}
<1>1. SUFFICES ASSUME KeyRefused(key, Number({}), "technical_internal")
               PROVE  /\ IsOmitted(Normalized(key)) \/ key.style = "upper" \/ Among(words, first)
                      /\ \/ KeyRefused(key, Number({}), "customer_facing")
                         \/ key.style # "camel" /\ words \in SafeKeys("customer_facing")
                         \/ Among(words, second)
  BY DEF KeyListsAgree
<1>2. PICK term \in ForbiddenKeyTerms("technical_internal") : Matches(key, term)
  BY <1>1, RefusedIs
<1>3. words \in Seq(Words) /\ (key.style # "upper" => Normalized(key) = words)
  BY DEF NodeKeys, Normalized
<1>4. term \in Common \cup {<<"apikey">>, <<"authorization">>, <<"client", "secret">>, <<"headers">>,
                            <<"output">>, <<"password">>, <<"prompt">>, <<"raw", "error">>, <<"senha">>}
  BY DEF ForbiddenKeyTerms
<1>5. term # <<"stacktrace">>
  BY <1>4 DEF Common
<1>6. Among(words, {term}) \/ (term = <<"apikey">> /\ Among(words, {<<"api", "key">>}))
  BY <1>2, <1>3, <1>5, MatchesAre
<1>7. IsOmitted(Normalized(key)) \/ key.style = "upper" \/ Among(words, first)
  <2> SUFFICES ASSUME key.style # "upper" PROVE IsOmitted(words) \/ Among(words, first)
    BY <1>3
  <2>1. CASE term \in first
    <3>1. <<"api", "key">> \in first
      OBVIOUS
    <3> HIDE DEF first, words
    <3> QED BY <1>6, <2>1, <3>1, AmongMore
  <2>2. CASE term \notin first
    <3>1. Among(words, {term})
      BY <1>6, <2>2
    <3>2. CASE term = <<"client", "secret">>
      <4>1. Among(words, {<<"secret">>})
        BY <1>3, <3>1, <3>2, AmongEnd
      <4>2. <<"secret">> \in SecretFragments
        BY DEF SecretFragments
      <4> QED BY <4>1, <4>2, AmongMore DEF IsOmitted, IsSecret
    <3>3. CASE term # <<"client", "secret">>
      <4>1. term \in SecretFragments \cup IdentifierFragments \cup PayloadFragments
        BY <1>4, <2>2, <3>3 DEF Common, SecretFragments, IdentifierFragments, PayloadFragments
      <4> QED BY <3>1, <4>1, AmongMore DEF IsOmitted, IsSecret
    <3> QED BY <3>2, <3>3
  <2> QED BY <2>1, <2>2
<1>8. \/ KeyRefused(key, Number({}), "customer_facing")
      \/ key.style # "camel" /\ words \in SafeKeys("customer_facing")
      \/ Among(words, second)
  <2>1. CASE term \in second
    <3>1. <<"api", "key">> \in second
      OBVIOUS
    <3> HIDE DEF second, words
    <3> QED BY <1>6, <2>1, <3>1, AmongMore
  <2>2. CASE term \in Common
    <3>1. term \in ForbiddenKeyTerms("customer_facing")
      BY <2>2 DEF ForbiddenKeyTerms
    <3> QED BY <1>2, <3>1, RefusedIs
  <2>3. CASE term = <<"client", "secret">>
    <3>1. key.style # "camel" \/ ~(Len(words) > 1)
      <4>1. term \notin SubstringTerms /\ term # <<"apikey">> /\ term # <<"stacktrace">>
        BY <2>3 DEF SubstringTerms
      <4>2. \A pair \in DOMAIN Joined : Joined[pair] \in {<<"apikey">>, <<"stacktrace">>}
        BY DEF Joined
      <4> QED BY <1>2, <4>1, <4>2 DEF Matches
    <3>2. Among(words, {<<"client", "secret">>})
      BY <1>2, <2>3, <3>1 DEF Matches
    <3>3. Matches(key, <<"secret">>)
      BY <1>3, <3>1, <3>2, AmongEnd DEF Matches
    <3>4. <<"secret">> \in ForbiddenKeyTerms("customer_facing")
      BY DEF ForbiddenKeyTerms, Common
    <3> QED BY <3>3, <3>4, RefusedIs
  <2> QED BY <1>4, <2>1, <2>2, <2>3
<1> QED BY <1>7, <1>8

(* The catalog of observability_gate_catalog is accepted, and refused without *)
(* any one capability or signal of it.                                        *)
THEOREM CatalogIsMinimal ==
    ASSUME NEW capability, NEW signal
    PROVE  CatalogIsTight(capability, signal)
<1> DEFINE without == Catalog \ {capability}
           weaker == [capability EXCEPT !.signals = @ \ {signal}]
<1>1. \A c : c \in Catalog <=>
            \/ \E s \in CriticalServices, o \in OperationTypes :
                    c = [service |-> s, operation |-> o, signals |-> OperationSignals]
            \/ \E s \in CriticalServices, g \in ServiceSignals :
                    c = [service |-> s, operation |-> "none", signals |-> {g}]
  BY DEF Catalog, Capability
<1>2. CriticalServices # {} /\ "none" \notin OperationTypes
  BY GatesAssumption
<1>3. "health" \notin OperationSignals /\ "readiness" \notin OperationSignals
      /\ ServiceSignals = {"health", "readiness"}
  BY DEF OperationSignals, ServiceSignals
<1>4. ValidCatalog(Catalog)
  <2>1. Catalog # {}
    BY <1>1, <1>2, <1>3
  <2>2. \A c \in Catalog : c.signals # {} /\ (c.operation # "none" => OperationSignals \subseteq c.signals)
    BY <1>1 DEF OperationSignals
  <2>3. \A s \in CriticalServices, o \in OperationTypes :
            \E c \in Catalog : c.service = s /\ c.operation = o
    <3>1. ASSUME NEW s \in CriticalServices, NEW o \in OperationTypes
          PROVE  \E c \in Catalog : c.service = s /\ c.operation = o
      <4>1. [service |-> s, operation |-> o, signals |-> OperationSignals] \in Catalog
        BY <1>1, <3>1
      <4> QED BY <4>1
    <3> QED BY <3>1
  <2>4. ASSUME NEW s \in CriticalServices PROVE SignalsCovered(Catalog, s)
    <3>1. ASSUME NEW g \in ServiceSignals
          PROVE  g \in UNION {c.signals : c \in {d \in Catalog : d.service = s}}
      <4>1. [service |-> s, operation |-> "none", signals |-> {g}] \in Catalog
        BY <1>1, <3>1, <2>4
      <4> QED BY <4>1
    <3> QED BY <3>1 DEF SignalsCovered
  <2> QED BY <2>1, <2>2, <2>3, <2>4 DEF ValidCatalog
<1>5. ASSUME NEW set, ValidCatalog(set), NEW s \in CriticalServices
      PROVE  /\ \A o \in OperationTypes : \E c \in set : c.service = s /\ c.operation = o
             /\ \A g \in ServiceSignals : \E c \in set : c.service = s /\ g \in c.signals
             /\ \A c \in set : c.signals # {}
             /\ \A c \in set : c.operation # "none" => OperationSignals \subseteq c.signals
  BY <1>5 DEF ValidCatalog, SignalsCovered
<1>6. ASSUME capability \in Catalog PROVE ~ValidCatalog(without)
  <2>1. SUFFICES ASSUME ValidCatalog(without) PROVE FALSE
    OBVIOUS
  <2>2. ASSUME NEW s \in CriticalServices, NEW o \in OperationTypes,
               capability = [service |-> s, operation |-> o, signals |-> OperationSignals]
        PROVE  FALSE
    <3>1. PICK c \in without : c.service = s /\ c.operation = o
      BY <1>5, <2>1
    <3>2. c = capability
      BY <1>1, <1>2, <2>2, <3>1
    <3> QED BY <3>1, <3>2
  <2>3. ASSUME NEW s \in CriticalServices, NEW g \in ServiceSignals,
               capability = [service |-> s, operation |-> "none", signals |-> {g}]
        PROVE  FALSE
    <3>1. PICK c \in without : c.service = s /\ g \in c.signals
      BY <1>5, <2>1
    <3>2. g \notin OperationSignals
      BY <1>3
    <3>3. c = capability
      BY <1>1, <2>3, <3>1, <3>2
    <3> QED BY <3>1, <3>3
  <2> QED BY <1>1, <1>6, <2>2, <2>3
<1>7. ASSUME capability \in Catalog, signal \in capability.signals
      PROVE  ~ValidCatalog(without \cup {weaker})
  <2>1. SUFFICES ASSUME ValidCatalog(without \cup {weaker}) PROVE FALSE
    OBVIOUS
  <2>2. weaker \in without \cup {weaker}
    OBVIOUS
  <2>3. PICK s \in CriticalServices : TRUE
    BY <1>2
  <2>4. weaker.signals # {} /\ (weaker.operation # "none" => OperationSignals \subseteq weaker.signals)
    <3> HIDE DEF weaker, without
    <3> QED BY <1>5, <2>1, <2>2, <2>3
  <2>5. weaker.signals = capability.signals \ {signal} /\ weaker.operation = capability.operation
    BY <1>1, <1>7
  <2>6. CASE capability.operation # "none"
    <3>1. signal \in OperationSignals
      BY <1>1, <1>7, <2>6
    <3> HIDE DEF weaker
    <3> QED BY <2>4, <2>5, <2>6, <3>1
  <2>7. CASE capability.operation = "none"
    <3>1. PICK g \in ServiceSignals : capability.signals = {g}
      BY <1>1, <1>2, <1>7, <2>7
    <3> HIDE DEF weaker
    <3> QED BY <1>7, <2>4, <2>5, <3>1
  <2> QED BY <2>6, <2>7
<1> QED BY <1>4, <1>6, <1>7 DEF CatalogIsTight

-----------------------------------------------------------------------------
(* What the sums of all subsets are: nothing for none, and one value more for *)
(* one element more, whichever it is                                          *)
AreSums(sums, f, T) ==
    /\ sums \in [SUBSET T -> Int]
    /\ sums[{}] = 0
    /\ \A s \in SUBSET T : \A x \in s : sums[s] = f[x] + sums[s \ {x}]

(* A sum over a finite set adds its values, in whatever order. *)
LEMMA SumsAre ==
    ASSUME NEW T, IsFiniteSet(T), NEW f, \A x \in T : f[x] \in Int
    PROVE  \E sums : AreSums(sums, f, T) /\ SumFunctionOnSet(f, T) = sums[T]
<1> DEFINE Pick1(s) == CHOOSE x \in s : TRUE
           Step(sums, s) == IF s = {} THEN 0 ELSE f[Pick1(s)] + sums[s \ {Pick1(s)}]
           Upto(n) == {s \in SUBSET T : Cardinality(s) <= n}
           Solves(sums, n) ==
               /\ sums \in [Upto(n) -> Int]
               /\ \A s \in Upto(n) : sums[s] = Step(sums, s)
           bad == {n \in Nat : ~\E sums : Solves(sums, n)}
<1>1. ASSUME NEW s \in SUBSET T
      PROVE  /\ IsFiniteSet(s) /\ Cardinality(s) \in Nat
             /\ Cardinality(s) = 0 <=> s = {}
             /\ \A x \in s : /\ Cardinality(s \ {x}) = Cardinality(s) - 1
                             /\ s \ {x} \in SUBSET T /\ f[x] \in Int
             /\ s # {} => Pick1(s) \in s
  <2>1. IsFiniteSet(s)
    BY FS_Subset
  <2>2. \A x \in s : Cardinality(s \ {x}) = Cardinality(s) - 1
    BY <2>1, FS_RemoveElement
  <2> QED BY <2>1, <2>2, FS_CardinalityType, FS_EmptySet
<1> HIDE DEF Pick1
<1>2. bad = {}
  <2>1. SUFFICES ASSUME bad # {} PROVE FALSE
    OBVIOUS
  <2>2. PICK n \in bad : \A m \in bad : n <= m
    BY <2>1, LeastExists
  <2>3. n \in Nat
    BY <2>2
  <2>4. CASE n = 0
    <3>1. Upto(0) = {{}}
      BY <1>1, FS_EmptySet
    <3>2. Solves([s \in Upto(0) |-> 0], 0)
      BY <3>1
    <3> HIDE DEF Solves
    <3> QED BY <3>2, <2>2, <2>4
  <2>5. CASE n # 0
    <3>1. n - 1 \in Nat /\ n - 1 \notin bad
      <4> HIDE DEF bad
      <4> QED BY <2>2, <2>3, <2>5
    <3>2. PICK sums : Solves(sums, n - 1)
      BY <3>1
    <3> DEFINE more == [s \in Upto(n) |-> IF s \in Upto(n - 1) THEN sums[s] ELSE Step(sums, s)]
    <3>3. ASSUME NEW s \in Upto(n), s # {}
          PROVE  /\ s \in SUBSET T /\ s \ {Pick1(s)} \in Upto(n - 1) /\ s \ {Pick1(s)} \in Upto(n)
                 /\ f[Pick1(s)] \in Int
      <4>1. Cardinality(s) <= n /\ s \in SUBSET T
        BY <3>3
      <4>2. Cardinality(s \ {Pick1(s)}) = Cardinality(s) - 1 /\ s \ {Pick1(s)} \in SUBSET T
            /\ Cardinality(s) \in Nat /\ f[Pick1(s)] \in Int
        BY <1>1, <3>3, <4>1
      <4> QED BY <2>3, <4>1, <4>2
    <3>4. \A s \in Upto(n - 1) : s \in Upto(n) /\ more[s] = sums[s] /\ sums[s] \in Int
      <4>1. \A s \in Upto(n - 1) : s \in Upto(n)
        <5> SUFFICES ASSUME NEW s \in SUBSET T, Cardinality(s) <= n - 1
                     PROVE  Cardinality(s) <= n
          OBVIOUS
        <5>1. Cardinality(s) \in Nat
          BY <1>1
        <5> QED BY <2>3, <5>1
      <4> HIDE DEF Upto, Step
      <4> QED BY <3>2, <4>1
    <3>5. ASSUME NEW s \in Upto(n)
          PROVE  more[s] = Step(more, s) /\ more[s] \in Int
      <4>1. Step(more, s) = Step(sums, s)
        <5> HIDE DEF more, Upto
        <5> QED BY <3>3, <3>4
      <4>2. more[s] = Step(sums, s)
        <5> HIDE DEF Step, Upto
        <5> QED BY <3>2, <3>4
      <4>3. Step(sums, s) \in Int
        <5> HIDE DEF more, Upto
        <5> QED BY <3>3, <3>4
      <4> HIDE DEF more, Step
      <4> QED BY <4>1, <4>2, <4>3
    <3>6. Solves(more, n)
      <4> HIDE DEF Step, Upto
      <4>1. more \in [Upto(n) -> Int]
        BY <3>5
      <4> HIDE DEF more
      <4> QED BY <3>5, <4>1
    <3> HIDE DEF Solves, more
    <3> QED BY <3>6, <2>2
  <2> QED BY <2>4, <2>5
<1>3. Cardinality(T) \in Nat
  BY FS_CardinalityType
<1>4. PICK sums : Solves(sums, Cardinality(T))
  <2> HIDE DEF Solves
  <2> QED BY <1>2, <1>3
<1>5. Upto(Cardinality(T)) = SUBSET T
  <2>1. \A s \in SUBSET T : Cardinality(s) <= Cardinality(T)
    BY FS_Subset
  <2> QED BY <2>1
<1>6. sums \in [SUBSET T -> Int] /\ \A s \in SUBSET T : sums[s] = Step(sums, s)
  <2> HIDE DEF Upto, Step
  <2> QED BY <1>4, <1>5
<1> DEFINE iter == CHOOSE iter : iter = [s \in SUBSET T |-> Step(iter, s)]
<1>7. SumFunctionOnSet(f, T) = iter[T]
  BY DEF SumFunctionOnSet, FoldFunctionOnSet, MapThenFoldSet, Pick1
<1>8. iter = [s \in SUBSET T |-> Step(iter, s)]
  <2> HIDE DEF Step
  <2>1. sums = [s \in SUBSET T |-> Step(sums, s)]
    BY <1>6
  <2> QED BY <2>1
<1> HIDE DEF iter
(* The chosen function has no other values than the one found *)
<1> DEFINE differ == {n \in Nat : \E s \in SUBSET T : Cardinality(s) = n /\ iter[s] # sums[s]}
<1>9. differ = {}
  <2>1. SUFFICES ASSUME differ # {} PROVE FALSE
    OBVIOUS
  <2>2. PICK n \in differ : \A m \in differ : n <= m
    BY <2>1, LeastExists
  <2>3. PICK s \in SUBSET T : Cardinality(s) = n /\ iter[s] # sums[s]
    BY <2>2
  <2>4. iter[s] = Step(iter, s) /\ sums[s] = Step(sums, s)
    <3> HIDE DEF Step
    <3> QED BY <1>6, <1>8
  <2>5. CASE s = {}
    BY <2>3, <2>4, <2>5
  <2>6. CASE s # {}
    <3> DEFINE rest == s \ {Pick1(s)}
    <3>1. rest \in SUBSET T /\ Cardinality(rest) = n - 1 /\ Cardinality(rest) \in Nat
      BY <1>1, <2>3, <2>6
    <3>2. n \in Nat
      BY <2>2
    <3>3. n - 1 \notin differ
      <4> HIDE DEF differ
      <4> QED BY <2>2, <3>1, <3>2
    <3>4. iter[rest] = sums[rest]
      <4> HIDE DEF rest
      <4> QED BY <3>1, <3>3
    <3> QED BY <2>3, <2>4, <2>6, <3>4
  <2> QED BY <2>5, <2>6
<1>10. iter[T] = sums[T]
  <2>1. T \in SUBSET T /\ Cardinality(T) \in Nat
    BY <1>3
  <2> QED BY <1>9, <2>1
(* Any element may be taken *)
<1> DEFINE Free(s) == \A x \in s : sums[s] = f[x] + sums[s \ {x}]
           bound == {n \in Nat : \E s \in SUBSET T : Cardinality(s) = n /\ ~Free(s)}
<1>11. bound = {}
  <2>1. SUFFICES ASSUME bound # {} PROVE FALSE
    OBVIOUS
  <2>2. PICK n \in bound : \A m \in bound : n <= m
    <3> HIDE DEF Free
    <3> QED BY <2>1, LeastExists
  <2>3. PICK s \in SUBSET T : Cardinality(s) = n /\ ~Free(s)
    BY <2>2
  <2>4. PICK x \in s : sums[s] # f[x] + sums[s \ {x}]
    BY <2>3
  <2> DEFINE c == Pick1(s)
  <2>5. c \in s /\ s # {} /\ n \in Nat
    BY <1>1, <2>2, <2>4
  <2>6. sums[s] = f[c] + sums[s \ {c}]
    BY <1>6, <2>5
  <2>7. x # c
    BY <2>4, <2>6
  <2>8. \A t \in SUBSET T : Cardinality(t) = n - 1 => Free(t)
    <3> SUFFICES ASSUME NEW t \in SUBSET T, Cardinality(t) = n - 1 PROVE Free(t)
      OBVIOUS
    <3>1. Cardinality(t) \in Nat
      BY <1>1
    <3>2. n - 1 \notin bound
      <4> HIDE DEF bound
      <4> QED BY <2>2, <2>5, <3>1
    <3> HIDE DEF Free
    <3> QED BY <3>1, <3>2
  <2>9. /\ s \ {c} \in SUBSET T /\ Cardinality(s \ {c}) = n - 1
        /\ s \ {x} \in SUBSET T /\ Cardinality(s \ {x}) = n - 1
        /\ (s \ {c}) \ {x} = (s \ {x}) \ {c}
        /\ (s \ {c}) \ {x} \in SUBSET T
        /\ f[c] \in Int /\ f[x] \in Int
    BY <1>1, <2>3, <2>5
  <2>10. sums[s \ {c}] = f[x] + sums[(s \ {c}) \ {x}]
    BY <2>5, <2>7, <2>8, <2>9
  <2>11. sums[s \ {x}] = f[c] + sums[(s \ {x}) \ {c}]
    BY <2>5, <2>7, <2>8, <2>9
  <2>12. sums[(s \ {c}) \ {x}] \in Int
    BY <1>6, <2>9
  <2>13. f[c] + (f[x] + sums[(s \ {c}) \ {x}]) = f[x] + (f[c] + sums[(s \ {c}) \ {x}])
    <3>1. \A k, m, r \in Int : k + (m + r) = m + (k + r)
      OBVIOUS
    <3> QED BY <2>9, <2>12, <3>1
  <2> HIDE DEF c
  <2> QED BY <2>4, <2>6, <2>9, <2>10, <2>11, <2>13
<1>12. AreSums(sums, f, T)
  <2>1. sums[{}] = 0
    BY <1>6
  <2>2. ASSUME NEW s \in SUBSET T PROVE Free(s)
    <3>1. Cardinality(s) \in Nat
      BY <1>1
    <3> HIDE DEF Free
    <3> QED BY <1>11, <3>1
  <2> QED BY <1>6, <2>1, <2>2 DEF AreSums
<1> QED BY <1>7, <1>10, <1>12

(* What holds of no element, and of one more than it holds of, holds of all. *)
LEMMA FiniteSets ==
    ASSUME NEW T, IsFiniteSet(T), NEW Good, {} \in Good,
           \A s \in SUBSET T : \A x \in T \ s : s \in Good => s \cup {x} \in Good
    PROVE  T \in Good
<1> DEFINE bad == {n \in Nat : \E s \in SUBSET T : Cardinality(s) = n /\ s \notin Good}
<1>1. SUFFICES ASSUME bad # {} PROVE FALSE
  <2>1. T \in SUBSET T /\ Cardinality(T) \in Nat
    BY FS_CardinalityType
  <2> QED BY <2>1
<1>2. PICK n \in bad : \A m \in bad : n <= m
  BY <1>1, LeastExists
<1>3. PICK s \in SUBSET T : Cardinality(s) = n /\ s \notin Good
  BY <1>2
<1>4. PICK x \in s : TRUE
  BY <1>3
<1>5. s \ {x} \in SUBSET T /\ Cardinality(s \ {x}) = n - 1 /\ n - 1 \in Nat /\ n \in Nat
  <2>1. IsFiniteSet(s)
    BY FS_Subset
  <2>2. IsFiniteSet(s \ {x}) /\ Cardinality(s \ {x}) = Cardinality(s) - 1
    BY <2>1, FS_RemoveElement
  <2>3. Cardinality(s \ {x}) \in Nat /\ n \in Nat
    BY <1>2, <2>2, FS_CardinalityType
  <2> QED BY <1>3, <2>2, <2>3
<1>6. s \ {x} \in Good
  <2>1. n - 1 \notin bad
    <3> HIDE DEF bad
    <3> QED BY <1>2, <1>5
  <2> QED BY <1>5, <2>1
<1>7. (s \ {x}) \cup {x} = s /\ x \in T \ (s \ {x})
  <2>1. s \subseteq T
    BY <1>3
  <2>2. (s \ {x}) \cup {x} = s
    BY <1>4
  <2> QED BY <1>4, <2>1, <2>2
<1>8. (s \ {x}) \cup {x} \in Good
  BY <1>5, <1>6, <1>7
<1> QED BY <1>3, <1>7, <1>8

(* Sums of no value, and of one value more; a sum is that of its values. *)
LEMMA SumLaws ==
    ASSUME NEW s, IsFiniteSet(s), NEW f, \A y \in s : f[y] \in Int
    PROVE  /\ SumFunctionOnSet(f, {}) = 0
           /\ SumFunctionOnSet(f, s) \in Int
           /\ \A x : x \notin s /\ f[x] \in Int =>
                SumFunctionOnSet(f, s \cup {x}) = f[x] + SumFunctionOnSet(f, s)
<1>1. SumFunctionOnSet(f, {}) = 0
  <2>1. IsFiniteSet({})
    BY FS_EmptySet
  <2>2. PICK sums : AreSums(sums, f, {}) /\ SumFunctionOnSet(f, {}) = sums[{}]
    BY <2>1, SumsAre
  <2> QED BY <2>2 DEF AreSums
<1>2. PICK sums : AreSums(sums, f, s) /\ SumFunctionOnSet(f, s) = sums[s]
  BY SumsAre
<1>3. sums[s] \in Int
  BY <1>2 DEF AreSums
<1>4. ASSUME NEW x, x \notin s, f[x] \in Int
      PROVE  SumFunctionOnSet(f, s \cup {x}) = f[x] + SumFunctionOnSet(f, s)
  <2> DEFINE T == s \cup {x}
  <2>1. IsFiniteSet(T)
    BY FS_AddElement
  <2>2. \A y \in T : f[y] \in Int
    BY <1>4
  <2>3. PICK more : AreSums(more, f, T) /\ SumFunctionOnSet(f, T) = more[T]
    <3> HIDE DEF T
    <3> QED BY <2>1, <2>2, SumsAre
  <2> DEFINE Good == {t \in SUBSET s : more[t] = sums[t]}
  <2>4. {} \in Good
    BY <1>2, <2>3 DEF AreSums
  <2>5. ASSUME NEW t \in SUBSET s, NEW y \in s \ t, t \in Good
        PROVE  t \cup {y} \in Good
    <3>1. t \cup {y} \in SUBSET s /\ t \cup {y} \in SUBSET T /\ y \in t \cup {y}
          /\ (t \cup {y}) \ {y} = t
      BY <2>5
    <3>2. more[t \cup {y}] = f[y] + more[(t \cup {y}) \ {y}]
      <4> HIDE DEF T
      <4> QED BY <2>3, <3>1 DEF AreSums
    <3>3. sums[t \cup {y}] = f[y] + sums[(t \cup {y}) \ {y}]
      BY <1>2, <3>1 DEF AreSums
    <3>4. more[t] = sums[t]
      BY <2>5
    <3> QED BY <3>1, <3>2, <3>3, <3>4
  <2>6. s \in Good
    <3> HIDE DEF Good
    <3> QED BY <2>4, <2>5, FiniteSets
  <2>7. more[s] = sums[s]
    BY <2>6
  <2>8. T \in SUBSET T /\ x \in T /\ T \ {x} = s
    BY <1>4
  <2>9. more[T] = f[x] + more[T \ {x}]
    <3> HIDE DEF T
    <3> QED BY <2>3, <2>8 DEF AreSums
  <2>10. more[T] = f[x] + sums[s]
    BY <2>7, <2>8, <2>9
  <2> QED BY <1>2, <2>3, <2>10
<1> QED BY <1>1, <1>2, <1>3, <1>4

(* A larger value makes no smaller a sum. *)
LEMMA SumMonotone ==
    ASSUME NEW T, IsFiniteSet(T), NEW f, NEW g,
           \A x \in T : f[x] \in Int /\ g[x] \in Int /\ f[x] <= g[x]
    PROVE  SumFunctionOnSet(f, T) <= SumFunctionOnSet(g, T)
<1> DEFINE Good == {s \in SUBSET T : SumFunctionOnSet(f, s) <= SumFunctionOnSet(g, s)}
<1>1. {} \in Good
  <2>1. IsFiniteSet({})
    BY FS_EmptySet
  <2>2. SumFunctionOnSet(f, {}) = 0 /\ SumFunctionOnSet(g, {}) = 0
    BY <2>1, SumLaws
  <2> QED BY <2>2
<1>2. ASSUME NEW s \in SUBSET T, NEW x \in T \ s, s \in Good
      PROVE  s \cup {x} \in Good
  <2>1. IsFiniteSet(s) /\ \A y \in s : f[y] \in Int /\ g[y] \in Int
    BY FS_Subset
  <2>2. /\ SumFunctionOnSet(f, s) \in Int /\ SumFunctionOnSet(g, s) \in Int
        /\ SumFunctionOnSet(f, s \cup {x}) = f[x] + SumFunctionOnSet(f, s)
        /\ SumFunctionOnSet(g, s \cup {x}) = g[x] + SumFunctionOnSet(g, s)
        /\ f[x] \in Int /\ g[x] \in Int /\ f[x] <= g[x]
    BY <2>1, SumLaws
  <2>3. SumFunctionOnSet(f, s) <= SumFunctionOnSet(g, s)
    BY <1>2
  <2>4. SumFunctionOnSet(f, s \cup {x}) <= SumFunctionOnSet(g, s \cup {x})
    BY <2>2, <2>3
  <2> QED BY <2>4
<1>3. T \in Good
  <2> HIDE DEF Good
  <2> QED BY <1>1, <1>2, FiniteSets
<1> QED BY <1>3

(* The same values have the same sum. *)
LEMMA SumSame ==
    ASSUME NEW T, IsFiniteSet(T), NEW f, NEW g, \A x \in T : f[x] \in Int /\ f[x] = g[x]
    PROVE  SumFunctionOnSet(f, T) = SumFunctionOnSet(g, T)
<1>1. \A x \in T : f[x] \in Int /\ g[x] \in Int /\ f[x] <= g[x] /\ g[x] <= f[x]
  OBVIOUS
<1>2. SumFunctionOnSet(f, T) <= SumFunctionOnSet(g, T) /\ SumFunctionOnSet(g, T) <= SumFunctionOnSet(f, T)
  BY <1>1, SumMonotone
<1>3. SumFunctionOnSet(f, T) \in Int /\ SumFunctionOnSet(g, T) \in Int
  BY <1>1, SumLaws
<1> QED BY <1>2, <1>3

(* Zeros add nothing. *)
LEMMA SumOfPart ==
    ASSUME NEW T, IsFiniteSet(T), NEW f, \A x \in T : f[x] \in Int,
           NEW part \in SUBSET T, \A x \in T \ part : f[x] = 0
    PROVE  SumFunctionOnSet(f, T) = SumFunctionOnSet(f, part)
<1> DEFINE rest == T \ part
           Good == {s \in SUBSET rest : SumFunctionOnSet(f, part \cup s) = SumFunctionOnSet(f, part)}
<1>1. {} \in Good
  <2>1. part \cup {} = part
    OBVIOUS
  <2> QED BY <2>1
<1>2. ASSUME NEW s \in SUBSET rest, NEW x \in rest \ s, s \in Good
      PROVE  s \cup {x} \in Good
  <2>1. IsFiniteSet(part \cup s) /\ (\A y \in part \cup s : f[y] \in Int)
        /\ x \notin part \cup s /\ f[x] = 0
    <3>1. part \cup s \in SUBSET T
      OBVIOUS
    <3>2. IsFiniteSet(part \cup s)
      BY <3>1, FS_Subset
    <3> QED BY <3>1, <3>2
  <2>2. /\ SumFunctionOnSet(f, part \cup s) \in Int
        /\ SumFunctionOnSet(f, (part \cup s) \cup {x}) = f[x] + SumFunctionOnSet(f, part \cup s)
    BY <2>1, SumLaws
  <2>3. (part \cup s) \cup {x} = part \cup (s \cup {x})
    OBVIOUS
  <2>4. SumFunctionOnSet(f, part \cup s) = SumFunctionOnSet(f, part)
    BY <1>2
  <2>5. SumFunctionOnSet(f, part \cup (s \cup {x})) = SumFunctionOnSet(f, part)
    <3>1. SumFunctionOnSet(f, (part \cup s) \cup {x}) = SumFunctionOnSet(f, part \cup s)
      BY <2>1, <2>2
    <3> QED BY <2>3, <2>4, <3>1, Zenon
  <2> QED BY <2>5
<1>3. IsFiniteSet(rest)
  BY FS_Subset
<1>4. rest \in Good
  <2> HIDE DEF Good, rest
  <2> QED BY <1>1, <1>2, <1>3, FiniteSets
<1>5. part \cup rest = T
  OBVIOUS
<1> QED BY <1>4, <1>5

(* Ones count. *)
LEMMA SumOfOnes ==
    ASSUME NEW T, IsFiniteSet(T), NEW f, \A x \in T : f[x] = 1
    PROVE  SumFunctionOnSet(f, T) = Cardinality(T)
<1> DEFINE Good == {s \in SUBSET T : SumFunctionOnSet(f, s) = Cardinality(s)}
<1>1. {} \in Good
  <2>1. IsFiniteSet({}) /\ Cardinality({}) = 0
    BY FS_EmptySet
  <2>2. SumFunctionOnSet(f, {}) = 0
    BY <2>1, SumLaws
  <2> QED BY <2>1, <2>2
<1>2. ASSUME NEW s \in SUBSET T, NEW x \in T \ s, s \in Good
      PROVE  s \cup {x} \in Good
  <2>1. IsFiniteSet(s) /\ (\A y \in s : f[y] \in Int) /\ f[x] = 1
    BY FS_Subset
  <2>2. /\ SumFunctionOnSet(f, s \cup {x}) = 1 + SumFunctionOnSet(f, s)
        /\ Cardinality(s \cup {x}) = Cardinality(s) + 1
        /\ Cardinality(s) \in Nat
    BY <2>1, SumLaws, FS_AddElement, FS_CardinalityType
  <2>3. SumFunctionOnSet(f, s) = Cardinality(s)
    BY <1>2
  <2>4. SumFunctionOnSet(f, s \cup {x}) = Cardinality(s \cup {x})
    BY <2>2, <2>3
  <2> QED BY <2>4
<1>3. T \in Good
  <2> HIDE DEF Good
  <2> QED BY <1>1, <1>2, FiniteSets
<1> QED BY <1>3

(* The sums of the parts of a set add up to its sum. *)
LEMMA SumOfParts ==
    ASSUME NEW T, IsFiniteSet(T), NEW f, \A x \in T : f[x] \in Int,
           NEW K, IsFiniteSet(K), NEW p, \A x \in T : p[x] \in K,
           NEW F, \A k \in K : \E part \in SUBSET T :
                    /\ \A x \in T : x \in part <=> p[x] = k
                    /\ F[k] = SumFunctionOnSet(f, part)
    PROVE  SumFunctionOnSet(F, K) = SumFunctionOnSet(f, T)
<1> DEFINE Part(s, k) == {x \in s : p[x] = k}
           Inner(s) == [k \in K |-> SumFunctionOnSet(f, Part(s, k))]
           Good == {s \in SUBSET T : SumFunctionOnSet(Inner(s), K) = SumFunctionOnSet(f, s)}
<1>1. ASSUME NEW s \in SUBSET T
      PROVE  /\ IsFiniteSet(s) /\ \A x \in s : f[x] \in Int
             /\ \A k \in K : IsFiniteSet(Part(s, k)) /\ Inner(s)[k] \in Int
  <2>1. IsFiniteSet(s) /\ \A x \in s : f[x] \in Int
    BY FS_Subset
  <2>2. ASSUME NEW k \in K PROVE IsFiniteSet(Part(s, k)) /\ Inner(s)[k] \in Int
    <3>1. Part(s, k) \in SUBSET s /\ \A x \in Part(s, k) : f[x] \in Int
      BY <2>1
    <3> HIDE DEF Part
    <3>2. IsFiniteSet(Part(s, k))
      BY <2>1, <3>1, FS_Subset
    <3>3. SumFunctionOnSet(f, Part(s, k)) \in Int
      BY <3>1, <3>2, SumLaws
    <3> QED BY <3>2, <3>3
  <2> HIDE DEF Inner, Part
  <2> QED BY <2>1, <2>2
<1>2. {} \in Good
  <2>1. {} \in SUBSET T /\ IsFiniteSet({})
    BY FS_EmptySet
  <2>2. SumFunctionOnSet(f, {}) = 0
    BY <2>1, SumLaws
  <2>3. \A k \in K : Inner({})[k] = 0
    <3>1. \A k \in K : Part({}, k) = {}
      OBVIOUS
    <3> HIDE DEF Part
    <3> QED BY <2>2, <3>1
  <2> HIDE DEF Inner
  <2>4. \A k \in K : Inner({})[k] \in Int
    BY <2>3
  <2>5. {} \in SUBSET K
    OBVIOUS
  <2>6. SumFunctionOnSet(Inner({}), K) = SumFunctionOnSet(Inner({}), {})
    BY <2>3, <2>4, <2>5, SumOfPart
  <2>7. SumFunctionOnSet(Inner({}), {}) = 0
    BY <2>4, SumLaws
  <2> QED BY <2>1, <2>2, <2>6, <2>7
<1>3. ASSUME NEW s \in SUBSET T, NEW x \in T \ s, s \in Good
      PROVE  s \cup {x} \in Good
  <2> DEFINE k0 == p[x]
             more == s \cup {x}
             K0 == K \ {k0}
  <2>1. more \in SUBSET T /\ k0 \in K /\ f[x] \in Int
    OBVIOUS
  <2>2. \A k \in K0 : Part(more, k) = Part(s, k)
    OBVIOUS
  <2>3. Part(more, k0) = Part(s, k0) \cup {x} /\ x \notin Part(s, k0)
    OBVIOUS
  <2>4. Inner(more)[k0] = f[x] + Inner(s)[k0]
    <3>1. IsFiniteSet(Part(s, k0)) /\ \A y \in Part(s, k0) : f[y] \in Int
      BY <1>1, <2>1
    <3>2. SumFunctionOnSet(f, Part(s, k0) \cup {x}) = f[x] + SumFunctionOnSet(f, Part(s, k0))
      <4> HIDE DEF Part
      <4> QED BY <2>1, <2>3, <3>1, SumLaws
    <3> HIDE DEF Part
    <3> QED BY <2>1, <2>3, <3>2
  <2>5. \A k \in K0 : Inner(more)[k] = Inner(s)[k]
    <3> HIDE DEF Part
    <3> QED BY <2>2
  <2>6. IsFiniteSet(K0) /\ K0 \cup {k0} = K /\ k0 \notin K0
    <3>1. IsFiniteSet(K0)
      BY FS_Subset
    <3> QED BY <2>1, <3>1
  <2>7. /\ \A k \in K : Inner(more)[k] \in Int /\ Inner(s)[k] \in Int
        /\ K0 \subseteq K
    <3>1. K0 \subseteq K
      OBVIOUS
    <3>2. \A k \in K : Inner(s)[k] \in Int
      <4> HIDE DEF Inner
      <4> QED BY <1>1
    <3>3. \A k \in K : Inner(more)[k] \in Int
      <4> HIDE DEF Inner, more
      <4> QED BY <1>1, <2>1
    <3> QED BY <3>1, <3>2, <3>3
  <2> HIDE DEF Inner, more, K0, k0, Part
  <2>8. /\ SumFunctionOnSet(Inner(more), K) = Inner(more)[k0] + SumFunctionOnSet(Inner(more), K0)
        /\ SumFunctionOnSet(Inner(s), K) = Inner(s)[k0] + SumFunctionOnSet(Inner(s), K0)
        /\ SumFunctionOnSet(Inner(s), K0) \in Int
    <3>1. \A k \in K0 : Inner(more)[k] \in Int /\ Inner(s)[k] \in Int
      BY <2>7
    <3>2. Inner(more)[k0] \in Int /\ Inner(s)[k0] \in Int
      BY <2>1, <2>7
    <3>3. /\ SumFunctionOnSet(Inner(more), K0 \cup {k0}) = Inner(more)[k0] + SumFunctionOnSet(Inner(more), K0)
          /\ SumFunctionOnSet(Inner(s), K0 \cup {k0}) = Inner(s)[k0] + SumFunctionOnSet(Inner(s), K0)
          /\ SumFunctionOnSet(Inner(s), K0) \in Int
      BY <2>6, <3>1, <3>2, SumLaws
    <3> QED BY <2>6, <3>3
  <2>9. SumFunctionOnSet(Inner(more), K0) = SumFunctionOnSet(Inner(s), K0)
    <3>1. \A k \in K0 : Inner(more)[k] \in Int /\ Inner(more)[k] = Inner(s)[k]
      BY <2>5, <2>7
    <3> QED BY <2>6, <3>1, SumSame
  <2>10. SumFunctionOnSet(f, more) = f[x] + SumFunctionOnSet(f, s)
    <3>1. IsFiniteSet(s) /\ \A y \in s : f[y] \in Int
      BY <1>1
    <3> QED BY <2>1, <3>1, SumLaws DEF more
  <2>11. SumFunctionOnSet(Inner(s), K) = SumFunctionOnSet(f, s)
    BY <1>3
  <2>12. Inner(s)[k0] \in Int
    BY <2>1, <2>7
  <2>13. SumFunctionOnSet(Inner(more), K) = SumFunctionOnSet(f, more)
    <3>1. \A a, b, c \in Int : (a + b) + c = a + (b + c)
      OBVIOUS
    <3> QED BY <2>1, <2>4, <2>8, <2>9, <2>10, <2>11, <2>12, <3>1
  <2> QED BY <2>1, <2>13 DEF more
<1>4. T \in Good
  <2> HIDE DEF Good
  <2> QED BY <1>2, <1>3, FiniteSets
<1>5. \A k \in K : F[k] = Inner(T)[k] /\ F[k] \in Int
  <2>1. T \in SUBSET T
    OBVIOUS
  <2>2. ASSUME NEW k \in K PROVE F[k] = Inner(T)[k]
    <3>1. PICK part \in SUBSET T : /\ \A x \in T : x \in part <=> p[x] = k
                                  /\ F[k] = SumFunctionOnSet(f, part)
      OBVIOUS
    <3>2. part = Part(T, k)
      BY <3>1
    <3> HIDE DEF Part
    <3> QED BY <3>1, <3>2
  <2> HIDE DEF Inner
  <2> QED BY <1>1, <2>1, <2>2
<1>6. SumFunctionOnSet(F, K) = SumFunctionOnSet(Inner(T), K)
  <2> HIDE DEF Inner
  <2> QED BY <1>5, SumSame
<1> QED BY <1>4, <1>6

(* A sum of naturals is one, and none of them is more. *)
LEMMA SumOfNaturals ==
    ASSUME NEW T, IsFiniteSet(T), NEW f, \A x \in T : f[x] \in Nat
    PROVE  /\ SumFunctionOnSet(f, T) \in Nat
           /\ \A x \in T : f[x] <= SumFunctionOnSet(f, T)
<1>1. ASSUME NEW s \in SUBSET T PROVE SumFunctionOnSet(f, s) \in Nat
  <2> DEFINE zero == [x \in s |-> 0]
             none == {}
  <2>1. IsFiniteSet(s) /\ \A x \in s : zero[x] \in Int /\ f[x] \in Int /\ zero[x] <= f[x]
    BY FS_Subset
  <2>2. none \in SUBSET s /\ \A x \in s \ none : zero[x] = 0
    OBVIOUS
  <2> HIDE DEF zero
  <2>3. SumFunctionOnSet(zero, s) <= SumFunctionOnSet(f, s)
    BY <2>1, SumMonotone
  <2>4. SumFunctionOnSet(zero, s) = SumFunctionOnSet(zero, none)
    <3> HIDE DEF none
    <3> QED BY <2>1, <2>2, SumOfPart
  <2>5. SumFunctionOnSet(zero, {}) = 0 /\ SumFunctionOnSet(f, s) \in Int
    BY <2>1, SumLaws
  <2> QED BY <2>3, <2>4, <2>5
<1>2. ASSUME NEW x \in T PROVE f[x] <= SumFunctionOnSet(f, T)
  <2> DEFINE rest == T \ {x}
  <2>1. rest \in SUBSET T /\ IsFiniteSet(rest) /\ x \notin rest /\ rest \cup {x} = T
    BY FS_Subset
  <2> HIDE DEF rest
  <2>2. /\ \A y \in rest : f[y] \in Int 
        /\ f[x] \in Int /\ f[x] \in Nat
    BY <2>1
  <2>3. SumFunctionOnSet(f, rest \cup {x}) = f[x] + SumFunctionOnSet(f, rest)
    BY <2>1, <2>2, SumLaws
  <2>4. SumFunctionOnSet(f, rest) \in Nat
    BY <1>1, <2>1
  <2> QED BY <2>1, <2>2, <2>3, <2>4
<1>3. T \in SUBSET T
  OBVIOUS
<1> QED BY <1>1, <1>2, <1>3

-----------------------------------------------------------------------------
(* How many times a bag has what *)
IsBag(bag) == bag = [x \in DOMAIN bag |-> bag[x]] /\ \A x \in DOMAIN bag : bag[x] \in Nat \ {0}

Copies(bag, x) == IF x \in DOMAIN bag THEN bag[x] ELSE 0

(* Bags of figures: one, those of a set, none, and sums of bags *)
LEMMA BagsAre ==
    /\ \A x, n : n \in Nat => /\ IsBag(Amount(x, n))
                              /\ \A y : Copies(Amount(x, n), y) = IF y = x THEN n ELSE 0
    /\ \A S : IsBag(SetToBag(S)) /\ \A y : Copies(SetToBag(S), y) = IF y \in S THEN 1 ELSE 0
    /\ IsBag(EmptyBag) /\ \A y : Copies(EmptyBag, y) = 0
    /\ \A b, c : IsBag(b) /\ IsBag(c) =>
            /\ IsBag(b (+) c)
            /\ \A y : Copies(b (+) c, y) = Copies(b, y) + Copies(c, y)
    /\ \A b : IsBag(b) => \A y : Copies(b, y) \in Nat /\ (Copies(b, y) > 0 <=> y \in DOMAIN b)
    /\ \A b, c : IsBag(b) /\ IsBag(c) /\ (\A y : Copies(b, y) = Copies(c, y)) => b = c
<1>1. \A S : IsBag(SetToBag(S)) /\ \A y : Copies(SetToBag(S), y) = IF y \in S THEN 1 ELSE 0
  BY DEF IsBag, Copies, SetToBag
<1>2. IsBag(EmptyBag) /\ \A y : Copies(EmptyBag, y) = 0
  BY <1>1 DEF EmptyBag
<1>3. ASSUME NEW x, NEW n \in Nat
      PROVE  /\ IsBag(Amount(x, n))
             /\ \A y : Copies(Amount(x, n), y) = IF y = x THEN n ELSE 0
  <2>1. CASE n = 0
    BY <1>2, <2>1 DEF Amount
  <2>2. CASE n # 0
    BY <2>2 DEF Amount, IsBag, Copies
  <2> QED BY <2>1, <2>2
<1>4. ASSUME NEW b, NEW c, IsBag(b), IsBag(c)
      PROVE  /\ IsBag(b (+) c)
             /\ \A y : Copies(b (+) c, y) = Copies(b, y) + Copies(c, y)
  <2>1. b (+) c = [x \in (DOMAIN b) \cup (DOMAIN c) |-> Copies(b, x) + Copies(c, x)]
    BY DEF (+), Copies
  <2> DEFINE sum == b (+) c
  <2>2. /\ DOMAIN sum = (DOMAIN b) \cup (DOMAIN c)
        /\ \A x \in DOMAIN sum : sum[x] = Copies(b, x) + Copies(c, x)
        /\ sum = [x \in DOMAIN sum |-> sum[x]]
    <3> HIDE DEF sum
    <3> SUFFICES ASSUME NEW s1, s1 = [x \in (DOMAIN b) \cup (DOMAIN c) |-> Copies(b, x) + Copies(c, x)]
                 PROVE  /\ DOMAIN s1 = (DOMAIN b) \cup (DOMAIN c)
                        /\ \A x \in DOMAIN s1 : s1[x] = Copies(b, x) + Copies(c, x)
                        /\ s1 = [x \in DOMAIN s1 |-> s1[x]]
      BY <2>1 DEF sum
    <3> QED OBVIOUS
  <2> HIDE DEF sum
  <2>3. \A x : x \in DOMAIN b => b[x] \in Nat \ {0}
    BY <1>4 DEF IsBag
  <2>4. \A x : x \in DOMAIN c => c[x] \in Nat \ {0}
    BY <1>4 DEF IsBag
  <2>5. \A x : /\ Copies(b, x) \in Nat /\ Copies(c, x) \in Nat
               /\ (x \in DOMAIN b => Copies(b, x) > 0) /\ (x \in DOMAIN c => Copies(c, x) > 0)
               /\ (x \notin DOMAIN b => Copies(b, x) = 0) /\ (x \notin DOMAIN c => Copies(c, x) = 0)
    BY <2>3, <2>4 DEF Copies
  <2>6. \A x \in DOMAIN sum : sum[x] \in Nat \ {0}
    BY <2>2, <2>5
  <2>7. ASSUME NEW y PROVE Copies(sum, y) = Copies(b, y) + Copies(c, y)
    BY <2>2, <2>5 DEF Copies
  <2>8. IsBag(sum)
    BY <2>2, <2>6 DEF IsBag
  <2> QED BY <2>7, <2>8 DEF sum
<1>5. ASSUME NEW b, IsBag(b), NEW y
      PROVE  Copies(b, y) \in Nat /\ (Copies(b, y) > 0 <=> y \in DOMAIN b)
  BY <1>5 DEF IsBag, Copies
<1>6. ASSUME NEW b, NEW c, IsBag(b), IsBag(c), \A y : Copies(b, y) = Copies(c, y)
      PROVE  b = c
  <2>1. \A y : y \in DOMAIN b <=> y \in DOMAIN c
    BY <1>5, <1>6
  <2>2. DOMAIN b = DOMAIN c
    BY <2>1
  <2>3. \A y \in DOMAIN b : b[y] = c[y]
    BY <1>6, <2>2 DEF Copies
  <2> QED BY <1>6, <2>2, <2>3 DEF IsBag
<1> QED BY <1>1, <1>2, <1>3, <1>4, <1>5, <1>6

(* What an event adds to a figure of its projection *)
Adds(event, figure) == Copies(Counted(event) (+) Sums(event, AllEvents), figure)

(* What the sums of a scope take from an event *)
ShareOf(event, scope, figure) ==
    IF figure = <<"estimated", scope>> THEN event.estimated
    ELSE IF figure = <<"actual", scope>> THEN event.actual
    ELSE IF figure = <<"errors", scope>> THEN event.errors
    ELSE IF figure = <<"latency", scope>>
         THEN IF event.latency = Nothing THEN 0 ELSE event.latency
    ELSE IF figure = <<"latencies", scope>>
         THEN IF event.latency = Nothing THEN 0 ELSE 1
    ELSE 0

(* What an event adds by its kind *)
LEMMA CountedIs ==
    ASSUME NEW event, IsEvent(event)
    PROVE  /\ IsBag(Counted(event)) /\ \A scope : IsBag(Sums(event, scope))
           /\ \A figure : Adds(event, figure) =
                Copies(Counted(event), figure) + Copies(Sums(event, AllEvents), figure)
           /\ \A figure : Adds(event, figure) \in Nat
           /\ \A scope, figure : Copies(Sums(event, scope), figure) = ShareOf(event, scope, figure)
<1>1. event.estimated \in Nat /\ event.actual \in Nat /\ event.errors \in Nat
      /\ (event.latency # Nothing => event.latency \in Nat) /\ event.type \in EventTypes
  BY DEF IsEvent
<1>2. ASSUME NEW scope
      PROVE  /\ IsBag(Sums(event, scope))
             /\ \A figure : Copies(Sums(event, scope), figure) = ShareOf(event, scope, figure)
  <2> DEFINE a == Amount(<<"estimated", scope>>, event.estimated)
             b == Amount(<<"actual", scope>>, event.actual)
             c == Amount(<<"errors", scope>>, event.errors)
             l == Amount(<<"latency", scope>>, event.latency)
             m == Amount(<<"latencies", scope>>, 1)
             d == IF event.latency = Nothing THEN EmptyBag ELSE l (+) m
  <2>1. Sums(event, scope) = a (+) b (+) c (+) d
    BY DEF Sums
  <2>2. IsBag(a) /\ \A y : Copies(a, y) = IF y = <<"estimated", scope>> THEN event.estimated ELSE 0
    BY <1>1, BagsAre
  <2>3. IsBag(b) /\ \A y : Copies(b, y) = IF y = <<"actual", scope>> THEN event.actual ELSE 0
    BY <1>1, BagsAre
  <2>4. IsBag(c) /\ \A y : Copies(c, y) = IF y = <<"errors", scope>> THEN event.errors ELSE 0
    BY <1>1, BagsAre
  <2>5. /\ IsBag(d)
        /\ \A y : Copies(d, y) =
             IF y = <<"latency", scope>> THEN IF event.latency = Nothing THEN 0 ELSE event.latency
             ELSE IF y = <<"latencies", scope>> THEN IF event.latency = Nothing THEN 0 ELSE 1
             ELSE 0
    <3>1. CASE event.latency = Nothing
      <4>1. d = EmptyBag
        BY <3>1
      <4> HIDE DEF d
      <4> QED BY <3>1, <4>1, BagsAre
    <3>2. CASE event.latency # Nothing
      <4>1. d = l (+) m
        BY <3>2
      <4>2. IsBag(l) /\ \A y : Copies(l, y) = IF y = <<"latency", scope>> THEN event.latency ELSE 0
        BY <1>1, <3>2, BagsAre
      <4>3. IsBag(m) /\ \A y : Copies(m, y) = IF y = <<"latencies", scope>> THEN 1 ELSE 0
        BY BagsAre
      <4> HIDE DEF d, l, m
      <4>4. IsBag(d) /\ \A y : Copies(d, y) = Copies(l, y) + Copies(m, y)
        BY <4>1, <4>2, <4>3, BagsAre
      <4>5. <<"latency", scope>> # <<"latencies", scope>>
        OBVIOUS
      <4> QED BY <1>1, <3>2, <4>2, <4>3, <4>4, <4>5
    <3> QED BY <3>1, <3>2
  <2> HIDE DEF a, b, c, d
  <2>6. IsBag(a (+) b) /\ \A y : Copies(a (+) b, y) = Copies(a, y) + Copies(b, y)
    BY <2>2, <2>3, BagsAre
  <2>7. IsBag(a (+) b (+) c) /\ \A y : Copies(a (+) b (+) c, y) = Copies(a (+) b, y) + Copies(c, y)
    BY <2>4, <2>6, BagsAre
  <2>8. /\ IsBag(a (+) b (+) c (+) d)
        /\ \A y : Copies(a (+) b (+) c (+) d, y) = Copies(a (+) b (+) c, y) + Copies(d, y)
    BY <2>5, <2>7, BagsAre
  <2>9. ASSUME NEW figure
        PROVE  Copies(Sums(event, scope), figure) =
                ((Copies(a, figure) + Copies(b, figure)) + Copies(c, figure)) + Copies(d, figure)
    BY <2>1, <2>6, <2>7, <2>8
  <2> HIDE DEF a, b, c, d
  <2>10. ASSUME NEW figure
         PROVE  Copies(Sums(event, scope), figure) = ShareOf(event, scope, figure)
    <3>1. /\ <<"estimated", scope>> # <<"actual", scope>> /\ <<"estimated", scope>> # <<"errors", scope>>
          /\ <<"estimated", scope>> # <<"latency", scope>> /\ <<"estimated", scope>> # <<"latencies", scope>>
          /\ <<"actual", scope>> # <<"errors", scope>> /\ <<"actual", scope>> # <<"latency", scope>>
          /\ <<"actual", scope>> # <<"latencies", scope>> /\ <<"errors", scope>> # <<"latency", scope>>
          /\ <<"errors", scope>> # <<"latencies", scope>> /\ <<"latency", scope>> # <<"latencies", scope>>
      OBVIOUS
    <3> QED BY <1>1, <2>2, <2>3, <2>4, <2>5, <2>9, <3>1 DEF ShareOf
  <2> QED BY <2>1, <2>8, <2>10
<1>3. IsBag(Counted(event))
  <2>1. IsBag(Sums(event, ScopeOf(event)))
    BY <1>2
  <2>2. \A figure : IsBag(Amount(figure, 1))
    BY BagsAre
  <2>3. \A figure : IsBag(Amount(figure, 1) (+) Sums(event, ScopeOf(event)))
    BY <2>1, <2>2, BagsAre
  <2>4. \A S : IsBag(SetToBag(S))
    BY BagsAre
  <2> QED BY <1>1, <2>2, <2>3, <2>4 DEF Counted, EventTypes
<1>4. \A figure : Adds(event, figure) =
                Copies(Counted(event), figure) + Copies(Sums(event, AllEvents), figure)
  BY <1>2, <1>3, BagsAre DEF Adds
<1>5. \A figure : Adds(event, figure) \in Nat
  <2>1. \A figure : Copies(Counted(event), figure) \in Nat /\ Copies(Sums(event, AllEvents), figure) \in Nat
    BY <1>2, <1>3, BagsAre
  <2> QED BY <1>4, <2>1
<1> QED BY <1>2, <1>3, <1>4, <1>5

-----------------------------------------------------------------------------
(* A sequence of events *)
AreEvents(events) == IsSequence(events) /\ \A i \in DOMAIN events : IsEvent(events[i])

(* The places of a sequence of events *)
LEMMA EventsAre ==
    ASSUME NEW events, AreEvents(events)
    PROVE  /\ Len(events) \in Nat /\ DOMAIN events = 1..Len(events) /\ IsFiniteSet(DOMAIN events)
           /\ \A i \in DOMAIN events : IsEvent(events[i])
           /\ \A S \in SUBSET DOMAIN events : IsFiniteSet(S)
<1> DEFINE S == {events[i] : i \in DOMAIN events}
<1>1. events \in Seq(S) /\ \A i \in DOMAIN events : IsEvent(events[i])
  BY DEF AreEvents, IsSequence
<1> HIDE DEF S
<1>2. Len(events) \in Nat /\ DOMAIN events = 1..Len(events)
  BY <1>1
<1>3. IsFiniteSet(1..Len(events))
  BY <1>2, FS_Interval
<1>4. \A T \in SUBSET DOMAIN events : IsFiniteSet(T)
  BY <1>2, <1>3, FS_Subset
<1> QED BY <1>1, <1>2, <1>3, <1>4

(* What each event makes of a projection *)
LEMMA ApplyIs ==
    ASSUME NEW k, NEW c, NEW l, NEW a, NEW p, NEW event
    PROVE  Apply([key |-> k, counters |-> c, late |-> l, last |-> a, processed |-> p], event) =
             [key |-> k, counters |-> c (+) Counted(event) (+) Sums(event, AllEvents),
              late |-> l + IF a # Nothing /\ event.at < a THEN 1 ELSE 0,
              last |-> Later(a, event.at), processed |-> Later(p, event.processed)]
<1> DEFINE projection == [key |-> k, counters |-> c, late |-> l, last |-> a, processed |-> p]
<1>1. \A b1, b2, b3, b4 :
        [projection EXCEPT !.counters = b1, !.late = b2, !.last = b3, !.processed = b4]
            = [key |-> k, counters |-> b1, late |-> b2, last |-> b3, processed |-> b4]
  <2> SUFFICES ASSUME NEW b1, NEW b2, NEW b3, NEW b4
               PROVE  [projection EXCEPT !.counters = b1, !.late = b2, !.last = b3, !.processed = b4]
                        = [key |-> k, counters |-> b1, late |-> b2, last |-> b3, processed |-> b4]
    <3> HIDE DEF projection
    <3> QED OBVIOUS
  <2> DEFINE new == [projection EXCEPT !.counters = b1, !.late = b2, !.last = b3, !.processed = b4]
  <2> DEFINE next == [key |-> k, counters |-> b1, late |-> b2, last |-> b3, processed |-> b4]
             fields == {"key", "counters", "late", "last", "processed"}
  <2>1. DOMAIN projection = fields /\ projection.key = k
    OBVIOUS
  <2> HIDE DEF projection
  <2>2. new = [x \in fields |-> new[x]]
    BY <2>1
  <2>3. new.key = k /\ new.counters = b1 /\ new.late = b2 /\ new.last = b3 /\ new.processed = b4
    BY <2>1
  <2>4. next = [x \in fields |-> next[x]]
    OBVIOUS
  <2>5. next.key = k /\ next.counters = b1 /\ next.late = b2 /\ next.last = b3 /\ next.processed = b4
    OBVIOUS
  <2> HIDE DEF next, new
  <2>6. \A x \in fields : new[x] = next[x]
    BY <2>3, <2>5
  <2> HIDE DEF fields
  <2>7. new = next
    BY <2>2, <2>4, <2>6
  <2> QED BY <2>7 DEF next, new
<1>2. Apply(projection, event) =
        [projection EXCEPT
            !.counters = projection.counters (+) Counted(event) (+) Sums(event, AllEvents),
            !.late = projection.late
                + IF projection.last # Nothing /\ event.at < projection.last THEN 1 ELSE 0,
            !.last = Later(projection.last, event.at),
            !.processed = Later(projection.processed, event.processed)]
  BY DEF Apply
<1>3. projection.counters = c /\ projection.late = l /\ projection.last = a /\ projection.processed = p
  OBVIOUS
<1> HIDE DEF projection
<1> QED BY <1>1, <1>2, <1>3 DEF projection

(* The projection of a key after each of the events *)
LEMMA ProjectionSteps ==
    ASSUME NEW events, AreEvents(events), NEW key
    PROVE  \E after :
             /\ after[0] = EmptyProjection(key)
             /\ \A n \in 1..Len(events) :
                  after[n] = IF KeyOf(events[n]) = key THEN Apply(after[n - 1], events[n])
                             ELSE after[n - 1]
             /\ ProjectionOf(events, key) = after[Len(events)]
<1> DEFINE N == Len(events)
           Step(f, n) == IF n = 0 THEN EmptyProjection(key)
                         ELSE IF KeyOf(events[n]) = key THEN Apply(f[n - 1], events[n])
                         ELSE f[n - 1]
           Solves(f, n) == f = [i \in 0..n |-> f[i]] /\ \A i \in 0..n : f[i] = Step(f, i)
           bad == {n \in Nat : ~\E f : Solves(f, n)}
<1>1. bad = {}
  <2>1. SUFFICES ASSUME bad # {} PROVE FALSE
    OBVIOUS
  <2>2. PICK n \in bad : \A m \in bad : n <= m
    BY <2>1, LeastExists
  <2>3. n \in Nat
    BY <2>2
  <2>4. CASE n = 0
    <3>1. Solves([i \in 0..0 |-> EmptyProjection(key)], 0)
      OBVIOUS
    <3> HIDE DEF Solves
    <3> QED BY <3>1, <2>2, <2>4
  <2>5. CASE n # 0
    <3>1. n - 1 \in Nat /\ n - 1 \notin bad
      <4> HIDE DEF bad
      <4> QED BY <2>2, <2>3, <2>5
    <3>2. PICK f : Solves(f, n - 1)
      BY <3>1
    <3> DEFINE g == [i \in 0..n |-> IF i = n THEN Step(f, n) ELSE f[i]]
    <3>3. ASSUME NEW i \in 0..n PROVE g[i] = Step(g, i)
      <4>1. i # 0 => i - 1 \in 0..n /\ i - 1 # n
        BY <2>3
      <4>2. Step(g, i) = Step(f, i)
        BY <4>1
      <4>3. i # n => i \in 0..n - 1
        BY <2>3
      <4>4. g[i] = Step(f, i)
        <5> HIDE DEF Step
        <5> QED BY <3>2, <4>3
      <4> HIDE DEF g, Step
      <4> QED BY <4>2, <4>4
    <3>4. Solves(g, n)
      <4>1. g = [i \in 0..n |-> g[i]]
        OBVIOUS
      <4> HIDE DEF g, Step
      <4> QED BY <3>3, <4>1
    <3> HIDE DEF Solves, g
    <3> QED BY <3>4, <2>2
  <2> QED BY <2>4, <2>5
<1>2. N \in Nat
  BY EventsAre
<1>3. PICK f : Solves(f, N)
  <2> HIDE DEF Solves, N
  <2> QED BY <1>1, <1>2
<1> DEFINE after == CHOOSE after : after = [n \in 0..N |-> Step(after, n)]
<1>4. ProjectionOf(events, key) = after[N]
  BY DEF ProjectionOf
<1> HIDE DEF Step
<1>5. f = [n \in 0..N |-> Step(f, n)]
  BY <1>3
<1>6. after = [n \in 0..N |-> Step(after, n)]
  BY <1>5
<1> HIDE DEF after
<1>7. \A n \in 0..N : after[n] = Step(after, n)
  BY <1>6
<1>8. after[0] = EmptyProjection(key)
  BY <1>2, <1>7 DEF Step
<1>9. \A n \in 1..N : after[n] = IF KeyOf(events[n]) = key THEN Apply(after[n - 1], events[n])
                                ELSE after[n - 1]
  BY <1>2, <1>7 DEF Step
<1> QED BY <1>4, <1>8, <1>9

(* Nothing at first, then the greatest of the values at the places *)
IsGreatest(value, places, values) ==
    /\ places = {} => value = Nothing
    /\ places # {} => /\ \E i \in places : value = values[i]
                      /\ \A i \in places : values[i] <= value

(* The later of the greatest and one more is the greatest. *)
LEMMA LaterIsGreatest ==
    ASSUME NEW value, NEW places, NEW values, IsGreatest(value, places, values), NEW n,
           \A i \in places \cup {n} : values[i] \in Int
    PROVE  IsGreatest(Later(value, values[n]), places \cup {n}, values)
<1>1. CASE places = {}
  BY <1>1 DEF IsGreatest, Later
<1>2. CASE places # {}
  <2>1. PICK i \in places : value = values[i]
    BY <1>2 DEF IsGreatest
  <2>2. value \in Int /\ value # Nothing /\ \A j \in places : values[j] <= value
    BY <1>2, <2>1, NothingAssumption DEF IsGreatest
  <2>3. values[n] \in Int
    OBVIOUS
  <2> QED BY <2>1, <2>2, <2>3 DEF IsGreatest, Later
<1> QED BY <1>1, <1>2

(* The events of a projection *)
PlacesOf(events, key) == {i \in DOMAIN events : KeyOf(events[i]) = key}

(* A projection adds up its events, and knows the last of them. *)
LEMMA ProjectionIs ==
    ASSUME NEW events, AreEvents(events), NEW key
    PROVE  LET projection == ProjectionOf(events, key)
               places == PlacesOf(events, key)
           IN /\ projection = [key |-> key, counters |-> projection.counters,
                               late |-> projection.late, last |-> projection.last,
                               processed |-> projection.processed]
              /\ IsBag(projection.counters)
              /\ \A figure : Copies(projection.counters, figure) =
                    SumFunctionOnSet([i \in DOMAIN events |-> Adds(events[i], figure)], places)
              /\ IsGreatest(projection.last, places, [i \in DOMAIN events |-> events[i].at])
              /\ IsGreatest(projection.processed, places,
                            [i \in DOMAIN events |-> events[i].processed])
<1> DEFINE N == Len(events)
           Places(n) == {i \in 1..n : KeyOf(events[i]) = key}
           added(figure) == [i \in DOMAIN events |-> Adds(events[i], figure)]
           ats == [i \in DOMAIN events |-> events[i].at]
           times == [i \in DOMAIN events |-> events[i].processed]
           Good(p, n) ==
              /\ p = [key |-> key, counters |-> p.counters, late |-> p.late, last |-> p.last,
                      processed |-> p.processed]
              /\ IsBag(p.counters)
              /\ \A figure : Copies(p.counters, figure) = SumFunctionOnSet(added(figure), Places(n))
              /\ IsGreatest(p.last, Places(n), ats)
              /\ IsGreatest(p.processed, Places(n), times)
<1>1. /\ N \in Nat /\ DOMAIN events = 1..N
      /\ \A i \in 1..N : /\ IsEvent(events[i]) /\ ats[i] \in Int /\ times[i] \in Int
                         /\ ats[i] = events[i].at /\ times[i] = events[i].processed
      /\ \A S \in SUBSET (1..N) : IsFiniteSet(S)
  BY EventsAre DEF IsEvent
<1>2. ASSUME NEW figure
      PROVE  \A i \in 1..N : added(figure)[i] = Adds(events[i], figure) /\ added(figure)[i] \in Int
  BY <1>1, CountedIs
<1>3. PICK after :
             /\ after[0] = EmptyProjection(key)
             /\ \A n \in 1..N :
                  after[n] = IF KeyOf(events[n]) = key THEN Apply(after[n - 1], events[n])
                             ELSE after[n - 1]
             /\ ProjectionOf(events, key) = after[N]
  BY ProjectionSteps
<1> HIDE DEF ats, times, added
<1> DEFINE bad == {n \in Nat : n <= N /\ ~Good(after[n], n)}
<1>4. bad = {}
  <2>1. SUFFICES ASSUME bad # {} PROVE FALSE
    OBVIOUS
  <2>2. PICK n \in bad : \A m \in bad : n <= m
    <3> HIDE DEF Good
    <3> QED BY <2>1, LeastExists
  <2>3. n \in Nat /\ n <= N /\ ~Good(after[n], n)
    BY <2>2
  <2>4. CASE n = 0
    <3>1. Places(0) = {} /\ IsFiniteSet({})
      BY FS_EmptySet
    <3>2. \A figure : SumFunctionOnSet(added(figure), {}) = 0
      <4> SUFFICES ASSUME NEW figure PROVE SumFunctionOnSet(added(figure), {}) = 0
        OBVIOUS
      <4> QED BY <3>1, SumLaws
    <3>3. Good(EmptyProjection(key), 0)
      <4> HIDE DEF Places
      <4> QED BY <3>1, <3>2, BagsAre DEF EmptyProjection, IsGreatest
    <3> HIDE DEF Good
    <3> QED BY <1>3, <2>3, <2>4, <3>3
  <2>5. CASE n # 0
    <3> DEFINE p == after[n - 1]
               event == events[n]
    <3>1. n - 1 \in Nat /\ n - 1 <= N /\ n \in 1..N /\ n - 1 \notin bad
      <4>1. n - 1 \in Nat /\ n - 1 <= N /\ n \in 1..N
        BY <1>1, <2>3, <2>5
      <4> HIDE DEF bad
      <4> QED BY <2>2, <2>3, <4>1
    <3>2. Good(p, n - 1)
      <4> HIDE DEF Good
      <4> QED BY <3>1
    <3>3. CASE KeyOf(event) # key
      <4>1. after[n] = p
        BY <1>3, <3>1, <3>3
      <4>2. Places(n) = Places(n - 1)
        BY <2>3, <3>3
      <4>3. Good(p, n)
        <5> HIDE DEF p, Places
        <5> QED BY <3>2, <4>2
      <4> HIDE DEF Good, p
      <4> QED BY <2>3, <4>1, <4>3
    <3>4. CASE KeyOf(event) = key
      <4>1. Places(n) = Places(n - 1) \cup {n} /\ n \notin Places(n - 1)
        BY <2>3, <3>1, <3>4
      <4>2. Places(n - 1) \in SUBSET (1..N) /\ Places(n) \in SUBSET (1..N)
        BY <1>1, <3>1
      <4> DEFINE more == Apply(p, event)
      <4>3. after[n] = more
        BY <1>3, <3>1, <3>4
      <4>4. more = [key |-> key,
                    counters |-> p.counters (+) Counted(event) (+) Sums(event, AllEvents),
                    late |-> p.late + IF p.last # Nothing /\ event.at < p.last THEN 1 ELSE 0,
                    last |-> Later(p.last, event.at),
                    processed |-> Later(p.processed, event.processed)]
        <5>1. p = [key |-> key, counters |-> p.counters, late |-> p.late, last |-> p.last,
                   processed |-> p.processed]
          BY <3>2
        <5> DEFINE q == [key |-> key, counters |-> p.counters, late |-> p.late, last |-> p.last,
                         processed |-> p.processed]
        <5> HIDE DEF p, event
        <5>2. Apply(q, event) =
                [key |-> key,
                 counters |-> p.counters (+) Counted(event) (+) Sums(event, AllEvents),
                 late |-> p.late + IF p.last # Nothing /\ event.at < p.last THEN 1 ELSE 0,
                 last |-> Later(p.last, event.at),
                 processed |-> Later(p.processed, event.processed)]
          BY ApplyIs
        <5> HIDE DEF q
        <5>3. more = Apply(q, event)
          BY <5>1 DEF q
        <5> HIDE DEF more
        <5> QED BY <5>2, <5>3
      <4> HIDE DEF more
      <4>5. /\ more = [key |-> key, counters |-> more.counters, late |-> more.late,
                       last |-> more.last, processed |-> more.processed]
            /\ more.counters = p.counters (+) Counted(event) (+) Sums(event, AllEvents)
            /\ more.last = Later(p.last, event.at)
            /\ more.processed = Later(p.processed, event.processed)
        <5> HIDE DEF p, event
        <5> QED BY <4>4
      <4>6. IsEvent(event)
        BY <1>1, <3>1
      <4>7. /\ IsBag(more.counters)
            /\ \A figure : Copies(more.counters, figure) =
                    Adds(event, figure) + Copies(p.counters, figure)
        <5> DEFINE c == p.counters
        <5>1. IsBag(c) /\ IsBag(Counted(event)) /\ IsBag(Sums(event, AllEvents))
          BY <3>2, <4>6, CountedIs
        <5> HIDE DEF c, event, p
        <5>2. /\ IsBag(c (+) Counted(event))
              /\ \A y : Copies(c (+) Counted(event), y) = Copies(c, y) + Copies(Counted(event), y)
          BY <5>1, BagsAre
        <5> DEFINE both == c (+) Counted(event)
        <5> HIDE DEF both
        <5>3. /\ IsBag(both (+) Sums(event, AllEvents))
              /\ \A y : Copies(both (+) Sums(event, AllEvents), y)
                            = Copies(both, y) + Copies(Sums(event, AllEvents), y)
          BY <5>1, <5>2, BagsAre DEF both
        <5>4. more.counters = both (+) Sums(event, AllEvents)
          BY <4>5 DEF c, both
        <5>5. \A y : Copies(both, y) = Copies(c, y) + Copies(Counted(event), y)
          BY <5>2 DEF both
        <5>6. \A y : Copies(c, y) \in Nat /\ Copies(Counted(event), y) \in Nat
                     /\ Copies(Sums(event, AllEvents), y) \in Nat
          BY <5>1, BagsAre
        <5>7. \A y : Adds(event, y) = Copies(Counted(event), y) + Copies(Sums(event, AllEvents), y)
          BY <4>6, CountedIs
        <5>8. ASSUME NEW y PROVE Copies(more.counters, y) = Adds(event, y) + Copies(c, y)
          BY <5>3, <5>4, <5>5, <5>6, <5>7
        <5> QED BY <5>3, <5>4, <5>8 DEF c
      <4>8. ASSUME NEW figure
            PROVE  Copies(more.counters, figure) = SumFunctionOnSet(added(figure), Places(n))
        <5>1. IsFiniteSet(Places(n - 1)) /\ \A i \in Places(n - 1) : added(figure)[i] \in Int
          BY <1>1, <1>2, <4>2
        <5>2. added(figure)[n] = Adds(event, figure) /\ added(figure)[n] \in Int
          BY <1>2, <3>1
        <5>3. SumFunctionOnSet(added(figure), Places(n - 1) \cup {n})
                = added(figure)[n] + SumFunctionOnSet(added(figure), Places(n - 1))
          <6> HIDE DEF Places
          <6> QED BY <4>1, <5>1, <5>2, SumLaws
        <5>4. Copies(p.counters, figure) = SumFunctionOnSet(added(figure), Places(n - 1))
          <6> HIDE DEF Places, p
          <6> QED BY <3>2
        <5> HIDE DEF Places, p, event
        <5> QED BY <4>1, <4>7, <5>2, <5>3, <5>4
      <4>9. IsGreatest(more.last, Places(n), ats)
        <5>1. \A i \in Places(n - 1) \cup {n} : ats[i] \in Int
          BY <1>1, <3>1, <4>2
        <5>2. IsGreatest(p.last, Places(n - 1), ats) /\ event.at = ats[n]
          <6>1. event.at = ats[n]
            BY <1>1, <3>1
          <6> HIDE DEF Places, p
          <6> QED BY <3>2, <6>1
        <5> DEFINE before == Places(n - 1)
        <5>3. IsGreatest(Later(p.last, ats[n]), before \cup {n}, ats)
          <6> HIDE DEF Places, p
          <6>1. IsGreatest(p.last, before, ats) /\ \A i \in before \cup {n} : ats[i] \in Int
            BY <5>1, <5>2
          <6> HIDE DEF before
          <6> QED BY <6>1, LaterIsGreatest
        <5>4. more.last = Later(p.last, ats[n])
          <6> HIDE DEF p, event
          <6> QED BY <4>5, <5>2
        <5> HIDE DEF Places, p, event
        <5> QED BY <4>1, <5>3, <5>4
      <4>10. IsGreatest(more.processed, Places(n), times)
        <5>1. \A i \in Places(n - 1) \cup {n} : times[i] \in Int
          BY <1>1, <3>1, <4>2
        <5>2. IsGreatest(p.processed, Places(n - 1), times) /\ event.processed = times[n]
          <6>1. event.processed = times[n]
            BY <1>1, <3>1
          <6> HIDE DEF Places, p
          <6> QED BY <3>2, <6>1
        <5> DEFINE before == Places(n - 1)
        <5>3. IsGreatest(Later(p.processed, times[n]), before \cup {n}, times)
          <6> HIDE DEF Places, p
          <6>1. IsGreatest(p.processed, before, times) /\ \A i \in before \cup {n} : times[i] \in Int
            BY <5>1, <5>2
          <6> HIDE DEF before
          <6> QED BY <6>1, LaterIsGreatest
        <5>4. more.processed = Later(p.processed, times[n])
          <6> HIDE DEF p, event
          <6> QED BY <4>5, <5>2
        <5> HIDE DEF Places, p, event
        <5> QED BY <4>1, <5>3, <5>4
      <4>11. Good(more, n)
        <5> HIDE DEF Places, p, event
        <5> QED BY <4>5, <4>7, <4>8, <4>9, <4>10
      <4> HIDE DEF Good, more
      <4> QED BY <2>3, <4>3, <4>11
    <3> QED BY <3>3, <3>4
  <2> QED BY <2>4, <2>5
<1>5. Good(after[N], N)
  <2> HIDE DEF Good
  <2> QED BY <1>1, <1>4
<1>6. Places(N) = PlacesOf(events, key)
  BY <1>1 DEF PlacesOf
<1> HIDE DEF Places
<1>7. Good(ProjectionOf(events, key), N)
  BY <1>3, <1>5
<1> QED BY <1>6, <1>7 DEF added, ats, times

(* A sum of naturals is positive when one of them is. *)
LEMMA SumIsPositive ==
    ASSUME NEW T, IsFiniteSet(T), NEW f, \A x \in T : f[x] \in Nat
    PROVE  SumFunctionOnSet(f, T) > 0 <=> \E x \in T : f[x] > 0
<1>1. SumFunctionOnSet(f, T) \in Nat /\ \A x \in T : f[x] <= SumFunctionOnSet(f, T)
  BY SumOfNaturals
<1>2. ASSUME NEW x \in T, f[x] > 0 PROVE SumFunctionOnSet(f, T) > 0
  <2>1. f[x] \in Nat /\ f[x] <= SumFunctionOnSet(f, T)
    BY <1>1
  <2> QED BY <1>1, <1>2, <2>1
<1>3. ASSUME \A x \in T : ~(f[x] > 0) PROVE SumFunctionOnSet(f, T) = 0
  <2>1. \A x \in T : f[x] \in Int /\ f[x] = 0
    BY <1>3
  <2> DEFINE none == {}
  <2>2. none \in SUBSET T /\ \A x \in T \ none : f[x] = 0
    BY <2>1
  <2>3. SumFunctionOnSet(f, none) = 0
    BY <2>1, SumLaws
  <2> HIDE DEF none
  <2>4. SumFunctionOnSet(f, T) = SumFunctionOnSet(f, none)
    BY <2>1, <2>2, SumOfPart
  <2> QED BY <2>3, <2>4
<1> QED BY <1>1, <1>2, <1>3

(* What the events of a sequence add to a figure *)
Added(events, figure) == [i \in DOMAIN events |-> Adds(events[i], figure)]

(* Events add naturals. *)
LEMMA AddedIs ==
    ASSUME NEW events, AreEvents(events), NEW figure
    PROVE  \A i \in DOMAIN events :
             Added(events, figure)[i] = Adds(events[i], figure)
               /\ Added(events, figure)[i] \in Nat /\ Added(events, figure)[i] \in Int
  BY EventsAre, CountedIs DEF Added

(* The projections of some events of a sequence *)
AreProjections(projections, events, own) ==
    LET keys == DOMAIN projections
    IN /\ IsFiniteSet(keys) /\ IsFiniteSet(own) /\ own \in SUBSET DOMAIN events
       /\ \A i \in own : KeyOf(events[i]) \in keys
       /\ \A key \in keys : /\ projections[key] = ProjectionOf(events, key)
                            /\ PlacesOf(events, key) \in SUBSET own
                            /\ PlacesOf(events, key) # {}
                            /\ PlacesOf(events, key) = {i \in own : KeyOf(events[i]) = key}
       /\ \A key \in keys : \A figure :
             /\ Figure(projections[key], figure)
                  = SumFunctionOnSet(Added(events, figure), PlacesOf(events, key))
             /\ figure \in BagToSet(projections[key].counters) <=>
                  \E i \in PlacesOf(events, key) : Adds(events[i], figure) > 0

(* The projections of a tenant are those of its events. *)
LEMMA ProjectionsAre ==
    ASSUME NEW events, AreEvents(events), NEW tenant
    PROVE  AreProjections(ProjectionsFor(tenant, events), events, EventsOf(tenant, events))
<1> DEFINE projections == ProjectionsFor(tenant, events)
           keys == {k \in KeysIn(events) : k.tenant = tenant}
           own == EventsOf(tenant, events)
<1>1. DOMAIN projections = keys /\ \A key \in keys : projections[key] = ProjectionOf(events, key)
  BY DEF ProjectionsFor
<1>2. own \in SUBSET DOMAIN events /\ IsFiniteSet(own)
  BY EventsAre DEF EventsOf
<1>3. IsFiniteSet(keys)
  <2> DEFINE f == [i \in DOMAIN events |-> KeyOf(events[i])]
  <2>1. {f[i] : i \in DOMAIN events} = KeysIn(events)
    BY DEF KeysIn
  <2> HIDE DEF f
  <2>2. IsFiniteSet({f[i] : i \in DOMAIN events})
    BY EventsAre, ImageBound
  <2>3. keys \in SUBSET KeysIn(events)
    OBVIOUS
  <2> HIDE DEF keys
  <2> QED BY <2>1, <2>2, <2>3, FS_Subset
<1>4. \A i \in DOMAIN events : KeyOf(events[i]).tenant = events[i].tenant
  BY DEF KeyOf
<1>5. \A i \in own : KeyOf(events[i]) \in keys
  BY <1>4 DEF EventsOf, KeysIn
<1>6. ASSUME NEW key \in keys
      PROVE  /\ PlacesOf(events, key) \in SUBSET own /\ PlacesOf(events, key) # {}
             /\ PlacesOf(events, key) = {i \in own : KeyOf(events[i]) = key}
  BY <1>4 DEF PlacesOf, EventsOf, KeysIn
<1>7. ASSUME NEW key \in keys, NEW figure
      PROVE  /\ Figure(projections[key], figure)
                  = SumFunctionOnSet(Added(events, figure), PlacesOf(events, key))
             /\ figure \in BagToSet(projections[key].counters) <=>
                  \E i \in PlacesOf(events, key) : Adds(events[i], figure) > 0
  <2> DEFINE bag == ProjectionOf(events, key).counters
             places == PlacesOf(events, key)
  <2>1. IsBag(bag) /\ Copies(bag, figure) = SumFunctionOnSet(Added(events, figure), places)
    BY ProjectionIs DEF Added
  <2>2. projections[key].counters = bag
    BY <1>1
  <2>3. places \in SUBSET DOMAIN events /\ IsFiniteSet(places)
    BY EventsAre DEF PlacesOf
  <2>4. \A i \in places : Added(events, figure)[i] = Adds(events[i], figure)
                            /\ Added(events, figure)[i] \in Nat
    BY <2>3, AddedIs
  <2> HIDE DEF projections, places
  <2>5. SumFunctionOnSet(Added(events, figure), places) > 0
            <=> \E i \in places : Added(events, figure)[i] > 0
    BY <2>3, <2>4, SumIsPositive
  <2> HIDE DEF bag
  <2>6. Copies(bag, figure) > 0 <=> figure \in DOMAIN bag
    BY <2>1, BagsAre
  <2>7. Figure(projections[key], figure) = Copies(bag, figure)
    BY <2>2 DEF Figure, BagIn, BagToSet, Copies
  <2>8. figure \in BagToSet(projections[key].counters) <=> figure \in DOMAIN bag
    BY <2>2 DEF BagToSet
  <2> QED BY <2>1, <2>4, <2>5, <2>6, <2>7, <2>8 DEF places
<1> HIDE DEF projections, keys, own
<1> QED BY <1>1, <1>2, <1>3, <1>5, <1>6, <1>7 DEF projections, own, AreProjections

(* A figure of all projections of a tenant adds up its events, and is shown   *)
(* under its name when one of them adds to it.                                *)
LEMMA TotalIs ==
    ASSUME NEW events, AreEvents(events), NEW tenant
    PROVE  /\ \A figure : Total(ProjectionsFor(tenant, events), figure)
                             = SumFunctionOnSet(Added(events, figure), EventsOf(tenant, events))
           /\ \A counter, name :
                name \in NamesOf(ProjectionsFor(tenant, events), counter) <=>
                    \E i \in EventsOf(tenant, events) : \E figure :
                        /\ Adds(events[i], figure) > 0
                        /\ figure[1] = counter /\ figure[2] = name
<1> DEFINE projections == ProjectionsFor(tenant, events)
           keys == DOMAIN projections
           own == EventsOf(tenant, events)
<1>1. AreProjections(projections, events, own)
  BY ProjectionsAre
<1> HIDE DEF projections, own
<1>2. ASSUME NEW figure
      PROVE  Total(projections, figure) = SumFunctionOnSet(Added(events, figure), own)
  <2> DEFINE F == [key \in keys |-> Figure(projections[key], figure)]
             f == Added(events, figure)
             p == [i \in own |-> KeyOf(events[i])]
  <2>1. Total(projections, figure) = SumFunctionOnSet(F, keys)
    BY DEF Total, SumFunction
  <2>2. \A i \in own : f[i] \in Int
    BY <1>1, AddedIs DEF AreProjections
  <2>3. \A i \in own : p[i] \in keys
    BY <1>1 DEF AreProjections
  <2>4. ASSUME NEW key \in keys
        PROVE  \E part \in SUBSET own : /\ \A i \in own : i \in part <=> p[i] = key
                                        /\ F[key] = SumFunctionOnSet(f, part)
    <3>1. \A i \in own : i \in PlacesOf(events, key) <=> p[i] = key
      BY <1>1 DEF AreProjections
    <3>2. F[key] = Figure(projections[key], figure)
      OBVIOUS
    <3> HIDE DEF p, F, f
    <3>3. F[key] = SumFunctionOnSet(f, PlacesOf(events, key)) /\ PlacesOf(events, key) \in SUBSET own
      BY <1>1, <3>2 DEF f, AreProjections
    <3> QED BY <3>1, <3>3
  <2>5. IsFiniteSet(keys) /\ IsFiniteSet(own)
    BY <1>1 DEF AreProjections
  <2> HIDE DEF F, f, p, keys
  <2>6. SumFunctionOnSet(F, keys) = SumFunctionOnSet(f, own)
    BY <2>2, <2>3, <2>4, <2>5, SumOfParts
  <2> QED BY <2>1, <2>6 DEF f
<1>3. ASSUME NEW counter, NEW name
      PROVE  name \in NamesOf(projections, counter) <=>
                     \E i \in own : \E figure :
                        /\ Adds(events[i], figure) > 0
                        /\ figure[1] = counter /\ figure[2] = name
  <2>1. name \in NamesOf(projections, counter) <=>
            \E key \in keys : \E figure \in BagToSet(projections[key].counters) :
                figure[1] = counter /\ figure[2] = name
    BY DEF NamesOf
  <2>2. ASSUME NEW i \in own, NEW figure, Adds(events[i], figure) > 0
        PROVE  \E key \in keys : figure \in BagToSet(projections[key].counters)
    <3>1. KeyOf(events[i]) \in keys
      BY <1>1 DEF AreProjections
    <3>2. i \in PlacesOf(events, KeyOf(events[i]))
      BY <1>1, <3>1 DEF AreProjections
    <3> QED BY <1>1, <2>2, <3>1, <3>2 DEF AreProjections
  <2>3. ASSUME NEW key \in keys, NEW figure \in BagToSet(projections[key].counters)
        PROVE  \E i \in own : Adds(events[i], figure) > 0
    <3>1. \E i \in PlacesOf(events, key) : Adds(events[i], figure) > 0
      BY <1>1 DEF AreProjections
    <3>2. PlacesOf(events, key) \in SUBSET own
      BY <1>1 DEF AreProjections
    <3> QED BY <3>1, <3>2
  <2> QED BY <2>1, <2>2, <2>3
<1> QED BY <1>2, <1>3 DEF projections, own

(* What each kind of event adds to *)
LEMMA AddsAre ==
    ASSUME NEW event, IsEvent(event)
    PROVE  /\ \A scope : scope # AllEvents =>
                LET Mine(n) == IF event.type = "integration" /\ scope = ScopeOf(event) THEN n ELSE 0
                IN /\ Adds(event, <<"estimated", scope>>) = Mine(event.estimated)
                   /\ Adds(event, <<"actual", scope>>) = Mine(event.actual)
                   /\ Adds(event, <<"errors", scope>>) = Mine(event.errors)
                   /\ Adds(event, <<"latency", scope>>) =
                        Mine(IF event.latency = Nothing THEN 0 ELSE event.latency)
                   /\ Adds(event, <<"latencies", scope>>) =
                        Mine(IF event.latency = Nothing THEN 0 ELSE 1)
           /\ \A figure :
                /\ figure[1] = "integration" =>
                    (Adds(event, figure) > 0 <=>
                        event.type = "integration"
                          /\ figure = <<"integration", <<ScopeOf(event), event.status>>>>)
                /\ figure[1] = "decision" /\ Adds(event, figure) > 0 =>
                    event.type = "decision" /\ figure = <<"decision", event.status>>
                /\ figure[1] = "code" =>
                    (Adds(event, figure) > 0 <=>
                        event.type = "decision" /\ \E code \in event.codes : figure = <<"code", code>>)
           /\ event.type = "decision" =>
                /\ Adds(event, <<"decision", event.status>>) = 1
                /\ Adds(event, <<"funnel", event.status>>) = 1
                /\ Adds(event, <<"funnel", "decided">>) = 1
<1> DEFINE SumNames == {"estimated", "actual", "errors", "latency", "latencies"}
           counted == <<"integration", <<ScopeOf(event), event.status>>>>
           decided == {<<"funnel", "decided">>, <<"funnel", event.status>>,
                       <<"decision", event.status>>} \cup {<<"code", code>> : code \in event.codes}
           others == {"funnel", "query", "review", "callback"}
           OfItsScope(scope) ==
              LET Mine(n) == IF event.type = "integration" /\ scope = ScopeOf(event) THEN n ELSE 0
              IN /\ Adds(event, <<"estimated", scope>>) = Mine(event.estimated)
                 /\ Adds(event, <<"actual", scope>>) = Mine(event.actual)
                 /\ Adds(event, <<"errors", scope>>) = Mine(event.errors)
                 /\ Adds(event, <<"latency", scope>>) =
                      Mine(IF event.latency = Nothing THEN 0 ELSE event.latency)
                 /\ Adds(event, <<"latencies", scope>>) =
                      Mine(IF event.latency = Nothing THEN 0 ELSE 1)
           OfItsKind(figure) ==
              /\ figure[1] = "integration" =>
                    (Adds(event, figure) > 0 <=> event.type = "integration" /\ figure = counted)
              /\ figure[1] = "decision" /\ Adds(event, figure) > 0 =>
                    event.type = "decision" /\ figure = <<"decision", event.status>>
              /\ figure[1] = "code" =>
                    (Adds(event, figure) > 0 <=>
                        event.type = "decision" /\ \E code \in event.codes : figure = <<"code", code>>)
<1>1. ASSUME NEW scope
      PROVE  /\ \A figure : figure[1] \notin SumNames => Copies(Sums(event, scope), figure) = 0
             /\ \A sum, other : other # scope => Copies(Sums(event, scope), <<sum, other>>) = 0
             /\ Copies(Sums(event, scope), <<"estimated", scope>>) = event.estimated
             /\ Copies(Sums(event, scope), <<"actual", scope>>) = event.actual
             /\ Copies(Sums(event, scope), <<"errors", scope>>) = event.errors
             /\ Copies(Sums(event, scope), <<"latency", scope>>) =
                    IF event.latency = Nothing THEN 0 ELSE event.latency
             /\ Copies(Sums(event, scope), <<"latencies", scope>>) =
                    IF event.latency = Nothing THEN 0 ELSE 1
  <2>1. \A figure : Copies(Sums(event, scope), figure) = ShareOf(event, scope, figure)
    BY CountedIs
  <2>2. \A a, b : <<a, b>>[1] = a /\ <<a, b>>[2] = b
    OBVIOUS
  <2>3. \A figure : figure[1] \notin SumNames => Copies(Sums(event, scope), figure) = 0
    BY <2>1, <2>2 DEF ShareOf
  <2>4. \A sum, other : other # scope => Copies(Sums(event, scope), <<sum, other>>) = 0
    BY <2>1 DEF ShareOf
  <2> QED BY <2>1, <2>3, <2>4 DEF ShareOf
<1>2. \A figure : Adds(event, figure) =
                Copies(Counted(event), figure) + Copies(Sums(event, AllEvents), figure)
  BY CountedIs
<1>3. ASSUME event.type = "integration", NEW figure
      PROVE  Copies(Counted(event), figure) =
                (IF figure = counted THEN 1 ELSE 0)
                    + Copies(Sums(event, ScopeOf(event)), figure)
  <2> DEFINE one == Amount(counted, 1)
             sums == Sums(event, ScopeOf(event))
  <2>1. Counted(event) = one (+) sums
    BY <1>3 DEF Counted
  <2>2. IsBag(one) /\ IsBag(sums)
        /\ Copies(one, figure) = IF figure = counted THEN 1 ELSE 0
    BY BagsAre, CountedIs
  <2> HIDE DEF one, sums
  <2>3. Copies(one (+) sums, figure) = Copies(one, figure) + Copies(sums, figure)
    BY <2>2, BagsAre
  <2> QED BY <2>1, <2>2, <2>3 DEF sums
<1>4. ASSUME event.type = "decision", NEW figure
      PROVE  Copies(Counted(event), figure) = IF figure \in decided THEN 1 ELSE 0
  <2>1. Counted(event) = SetToBag(decided)
    BY <1>4 DEF Counted
  <2> HIDE DEF decided
  <2> QED BY <2>1, BagsAre
<1>5. ASSUME event.type \notin {"integration", "decision"}
      PROVE  \E counter \in others :
                \A figure : Copies(Counted(event), figure) =
                    IF figure = <<counter, event.status>> THEN 1 ELSE 0
  <2>1. \A x : \A figure : Copies(Amount(x, 1), figure) = IF figure = x THEN 1 ELSE 0
    BY BagsAre
  <2>2. event.type \in {"proposal", "decision_query", "ai_review", "callback"}
    BY <1>5 DEF IsEvent, EventTypes
  <2>3. \E counter \in others :
            Counted(event) = Amount(<<counter, event.status>>, 1)
    BY <2>2 DEF Counted
  <2> QED BY <2>1, <2>3
<1>6. \A a, b : <<a, b>>[1] = a /\ <<a, b>>[2] = b
  OBVIOUS
<1>7. ScopeOf(event) # AllEvents /\ event.estimated \in Nat /\ event.actual \in Nat
      /\ event.errors \in Nat /\ (event.latency # Nothing => event.latency \in Nat)
      /\ event.type \in EventTypes
  BY DEF IsEvent
<1>8. ASSUME NEW scope, scope # AllEvents, NEW sum \in SumNames
      PROVE  Adds(event, <<sum, scope>>) =
                IF event.type = "integration" /\ scope = ScopeOf(event)
                THEN Copies(Sums(event, ScopeOf(event)), <<sum, scope>>) ELSE 0
  <2>1. Copies(Sums(event, AllEvents), <<sum, scope>>) = 0
    <3>1. \A s, o : o # AllEvents => Copies(Sums(event, AllEvents), <<s, o>>) = 0
      BY <1>1, Zenon
    <3> QED BY <1>8, <3>1
  <2>2. Copies(Sums(event, ScopeOf(event)), <<sum, scope>>) \in Nat
    BY CountedIs, BagsAre
  <2>3. Copies(Counted(event), <<sum, scope>>) =
                IF event.type = "integration" /\ scope = ScopeOf(event)
                THEN Copies(Sums(event, ScopeOf(event)), <<sum, scope>>) ELSE 0
    <3>1. CASE event.type = "integration"
      <4>1. <<sum, scope>> # counted
        BY <1>6
      <4>2. scope # ScopeOf(event) => Copies(Sums(event, ScopeOf(event)), <<sum, scope>>) = 0
        <5>1. \A s, o : o # ScopeOf(event) => Copies(Sums(event, ScopeOf(event)), <<s, o>>) = 0
          BY <1>1, Zenon
        <5> QED BY <5>1
      <4> QED BY <1>3, <2>2, <3>1, <4>1, <4>2
    <3>2. CASE event.type = "decision"
      BY <1>4, <1>6, <3>2
    <3>3. CASE event.type \notin {"integration", "decision"}
      BY <1>5, <1>6, <3>3
    <3> QED BY <3>1, <3>2, <3>3
  <2> QED BY <1>2, <2>1, <2>2, <2>3
<1>9. ASSUME NEW figure, figure[1] \notin SumNames
      PROVE  /\ event.type = "integration" => Adds(event, figure) = IF figure = counted THEN 1 ELSE 0
             /\ event.type = "decision" => Adds(event, figure) = IF figure \in decided THEN 1 ELSE 0
             /\ event.type \notin {"integration", "decision"} =>
                  \E counter \in others :
                    Adds(event, figure) = IF figure = <<counter, event.status>> THEN 1 ELSE 0
  <2>1. Copies(Sums(event, AllEvents), figure) = 0 /\ Copies(Sums(event, ScopeOf(event)), figure) = 0
    BY <1>1, <1>9
  <2>2. Copies(Counted(event), figure) \in Nat
    BY CountedIs, BagsAre
  <2>3. Adds(event, figure) = Copies(Counted(event), figure)
    BY <1>2, <2>1, <2>2
  <2>4. event.type = "integration" => Adds(event, figure) = IF figure = counted THEN 1 ELSE 0
    BY <1>3, <2>1, <2>3
  <2>5. event.type = "decision" => Adds(event, figure) = IF figure \in decided THEN 1 ELSE 0
    BY <1>4, <2>3
  <2>6. event.type \notin {"integration", "decision"} =>
                  \E counter \in others :
                    Adds(event, figure) = IF figure = <<counter, event.status>> THEN 1 ELSE 0
    BY <1>5, <2>3
  <2> QED BY <2>4, <2>5, <2>6
<1>10. ASSUME NEW scope, scope # AllEvents
       PROVE  OfItsScope(scope)
  BY <1>1, <1>8, <1>10
<1>11. ASSUME NEW figure, figure[1] \notin SumNames
       PROVE  OfItsKind(figure)
  <2>1. CASE event.type = "integration"
    <3>1. Adds(event, figure) = IF figure = counted THEN 1 ELSE 0
      BY <1>9, <1>11, <2>1
    <3> QED BY <1>6, <2>1, <3>1
  <2>2. CASE event.type = "decision"
    <3>1. Adds(event, figure) = IF figure \in decided THEN 1 ELSE 0
      BY <1>9, <1>11, <2>2
    <3>2. figure[1] # "integration" \/ ~(Adds(event, figure) > 0)
      BY <1>6, <3>1
    <3>3. figure[1] = "decision" /\ Adds(event, figure) > 0 => figure = <<"decision", event.status>>
      BY <1>6, <3>1
    <3>4. figure[1] = "code" =>
            (Adds(event, figure) > 0 <=> \E code \in event.codes : figure = <<"code", code>>)
      BY <1>6, <3>1
    <3> QED BY <2>2, <3>2, <3>3, <3>4
  <2>3. CASE event.type \notin {"integration", "decision"}
    <3>1. PICK counter \in others :
                    Adds(event, figure) = IF figure = <<counter, event.status>> THEN 1 ELSE 0
      BY <1>9, <1>11, <2>3
    <3> QED BY <1>6, <2>3, <3>1
  <2> QED BY <2>1, <2>2, <2>3
<1>12. ASSUME event.type = "decision"
       PROVE  /\ Adds(event, <<"decision", event.status>>) = 1
              /\ Adds(event, <<"funnel", event.status>>) = 1
              /\ Adds(event, <<"funnel", "decided">>) = 1
  <2>1. \A counter \in {"decision", "funnel"} : \A name : <<counter, name>>[1] \notin SumNames
    BY <1>6
  <2> HIDE DEF SumNames
  <2> QED BY <1>9, <1>12, <2>1
<1>13. "integration" \notin SumNames /\ "decision" \notin SumNames /\ "code" \notin SumNames
  OBVIOUS
<1> HIDE DEF SumNames
<1>14. \A figure : OfItsKind(figure)
  BY <1>11, <1>13
<1> QED BY <1>10, <1>12, <1>14

-----------------------------------------------------------------------------
(* The events of a class of integration *)
OfClass(tenant, events, class) ==
    {i \in EventsOf(tenant, events) : events[i].type = "integration" /\ events[i].class = class}

(* The names of the counts of integrations, and the scopes of a class, are    *)
(* those of its events.                                                       *)
LEMMA ScopesAre ==
    ASSUME NEW events, AreEvents(events), NEW tenant
    PROVE  LET projections == ProjectionsFor(tenant, events)
               own == EventsOf(tenant, events)
           IN /\ \A name : name \in NamesOf(projections, "integration") <=>
                    \E i \in own : /\ events[i].type = "integration"
                                   /\ name = <<ScopeOf(events[i]), events[i].status>>
              /\ \A class : /\ IsFiniteSet(ScopesOf(projections, class))
                            /\ AllEvents \notin ScopesOf(projections, class)
                            /\ \A i \in OfClass(tenant, events, class) :
                                  ScopeOf(events[i]) \in ScopesOf(projections, class)
                            /\ \A scope \in ScopesOf(projections, class) : scope[1] = class
                            /\ class \in DOMAIN IntegrationCards(projections) =>
                                  OfClass(tenant, events, class) # {}
<1> DEFINE projections == ProjectionsFor(tenant, events)
           own == EventsOf(tenant, events)
           names == NamesOf(projections, "integration")
<1>1. \A i \in own : IsEvent(events[i])
  BY EventsAre DEF EventsOf
<1>2. \A name : name \in names <=>
                     \E i \in own : \E figure :
                        /\ Adds(events[i], figure) > 0
                        /\ figure[1] = "integration" /\ figure[2] = name
  BY TotalIs
<1> HIDE DEF own, names
<1>3. ASSUME NEW i \in own, NEW figure, figure[1] = "integration"
      PROVE  Adds(events[i], figure) > 0 <=>
                events[i].type = "integration"
                  /\ figure = <<"integration", <<ScopeOf(events[i]), events[i].status>>>>
  BY <1>1, <1>3, AddsAre
<1>4. \A a, b : <<a, b>>[1] = a /\ <<a, b>>[2] = b
  OBVIOUS
<1>5. ASSUME NEW name
      PROVE  name \in names <=>
                    \E i \in own : /\ events[i].type = "integration"
                                   /\ name = <<ScopeOf(events[i]), events[i].status>>
  <2>1. ASSUME NEW i \in own, NEW figure, Adds(events[i], figure) > 0,
               figure[1] = "integration", figure[2] = name
        PROVE  events[i].type = "integration" /\ name = <<ScopeOf(events[i]), events[i].status>>
    <3>1. events[i].type = "integration"
          /\ figure = <<"integration", <<ScopeOf(events[i]), events[i].status>>>>
      BY <1>3, <2>1
    <3> QED BY <1>4, <2>1, <3>1
  <2>2. ASSUME NEW i \in own, events[i].type = "integration",
               name = <<ScopeOf(events[i]), events[i].status>>
        PROVE  \E figure : /\ Adds(events[i], figure) > 0
                           /\ figure[1] = "integration" /\ figure[2] = name
    <3> DEFINE figure == <<"integration", name>>
    <3>1. figure[1] = "integration" /\ figure[2] = name
      OBVIOUS
    <3>2. figure = <<"integration", <<ScopeOf(events[i]), events[i].status>>>>
      BY <2>2
    <3> HIDE DEF figure
    <3>3. Adds(events[i], figure) > 0
      BY <1>3, <2>2, <3>1, <3>2
    <3> QED BY <3>1, <3>3
  <2> QED BY <1>2, <2>1, <2>2
<1>6. ASSUME NEW class
      PROVE  LET scopes == ScopesOf(projections, class)
                 mine == OfClass(tenant, events, class)
             IN /\ \A i \in mine : ScopeOf(events[i]) \in scopes
                /\ \A scope \in scopes : /\ scope[1] = class
                                         /\ \E i \in mine : scope = ScopeOf(events[i])
                /\ class \in DOMAIN IntegrationCards(projections) => mine # {}
  <2>1. \A i \in own : ScopeOf(events[i])[1] = events[i].class
    BY DEF ScopeOf
  <2>2. \A i : i \in OfClass(tenant, events, class) <=>
                i \in own /\ events[i].type = "integration" /\ events[i].class = class
    BY DEF OfClass, own
  <2>3. \A scope : scope \in ScopesOf(projections, class) <=>
            \E name \in names : name[1][1] = class /\ scope = name[1]
    BY DEF ScopesOf, names
  <2>4. \A i \in OfClass(tenant, events, class) : ScopeOf(events[i]) \in ScopesOf(projections, class)
    <3> SUFFICES ASSUME NEW i \in OfClass(tenant, events, class)
                 PROVE  ScopeOf(events[i]) \in ScopesOf(projections, class)
      OBVIOUS
    <3> DEFINE name == <<ScopeOf(events[i]), events[i].status>>
    <3>1. name[1] = ScopeOf(events[i]) /\ name \in names
      BY <1>4, <1>5, <2>2
    <3>2. name[1][1] = class
      BY <2>1, <2>2, <3>1
    <3> HIDE DEF name
    <3> QED BY <2>3, <3>1, <3>2
  <2>5. \A scope \in ScopesOf(projections, class) :
            scope[1] = class /\ \E i \in OfClass(tenant, events, class) : scope = ScopeOf(events[i])
    <3> SUFFICES ASSUME NEW scope \in ScopesOf(projections, class)
                 PROVE  scope[1] = class
                        /\ \E i \in OfClass(tenant, events, class) : scope = ScopeOf(events[i])
      OBVIOUS
    <3>1. PICK name \in names : name[1][1] = class /\ scope = name[1]
      BY <2>3
    <3>2. PICK i \in own : /\ events[i].type = "integration"
                           /\ name = <<ScopeOf(events[i]), events[i].status>>
      BY <1>5, <3>1
    <3>3. name[1] = ScopeOf(events[i])
      BY <1>4, <3>2
    <3>4. scope = ScopeOf(events[i]) /\ scope[1] = class
      BY <3>1, <3>3
    <3>5. i \in OfClass(tenant, events, class)
      BY <2>1, <2>2, <3>2, <3>4
    <3> QED BY <3>4, <3>5
  <2>6. class \in DOMAIN IntegrationCards(projections) => OfClass(tenant, events, class) # {}
    <3>1. DOMAIN IntegrationCards(projections) = {name[1][1] : name \in names}
      BY DEF IntegrationCards, names
    <3> SUFFICES ASSUME NEW name \in names, name[1][1] = class
                 PROVE  OfClass(tenant, events, class) # {}
      BY <3>1
    <3>2. name[1] \in ScopesOf(projections, class)
      BY <2>3
    <3> QED BY <2>5, <3>2
  <2> QED BY <2>4, <2>5, <2>6
<1>7. ASSUME NEW class
      PROVE  /\ IsFiniteSet(ScopesOf(projections, class))
             /\ AllEvents \notin ScopesOf(projections, class)
  <2> DEFINE mine == OfClass(tenant, events, class)
             f == [i \in mine |-> ScopeOf(events[i])]
  <2>1. mine \in SUBSET own
    BY DEF OfClass, own
  <2>2. IsFiniteSet(mine)
    BY <2>1, EventsAre DEF EventsOf, own
  <2>3. ScopesOf(projections, class) \in SUBSET {f[i] : i \in mine}
    <3>1. \A scope \in ScopesOf(projections, class) : \E i \in mine : scope = ScopeOf(events[i])
      BY <1>6
    <3> HIDE DEF mine
    <3> QED BY <3>1
  <2>4. AllEvents \notin ScopesOf(projections, class)
    <3>1. \A i \in own : ScopeOf(events[i]) # AllEvents
      BY <1>1 DEF IsEvent
    <3> QED BY <1>6, <2>1, <3>1
  <2> HIDE DEF f, mine
  <2>5. IsFiniteSet({f[i] : i \in mine})
    BY <2>2, ImageBound
  <2>6. IsFiniteSet(ScopesOf(projections, class))
    BY <2>3, <2>5, FS_Subset
  <2> QED BY <2>4, <2>6
<1> QED BY <1>5, <1>6, <1>7 DEF projections, own, names

(* What the events of integrations add to a sum of their scopes *)
AddTo(events, sum, value) ==
    \A i \in DOMAIN events :
        /\ value[i] \in Int
        /\ \A scope : scope # AllEvents =>
                Adds(events[i], <<sum, scope>>) =
                    IF events[i].type = "integration" /\ scope = ScopeOf(events[i])
                    THEN value[i] ELSE 0

(* A sum over the scopes of a class is that of its events. *)
LEMMA SumOverIs ==
    ASSUME NEW events, AreEvents(events), NEW tenant, NEW class, NEW sum, NEW value,
           AddTo(events, sum, value)
    PROVE  LET projections == ProjectionsFor(tenant, events)
           IN SumOver(projections, sum, ScopesOf(projections, class))
                = SumFunctionOnSet(value, OfClass(tenant, events, class))
<1> DEFINE projections == ProjectionsFor(tenant, events)
           own == EventsOf(tenant, events)
           mine == OfClass(tenant, events, class)
           scopes == ScopesOf(projections, class)
           F == [scope \in scopes |-> Total(projections, <<sum, scope>>)]
           p == [i \in mine |-> ScopeOf(events[i])]
<1>1. /\ IsFiniteSet(scopes) /\ AllEvents \notin scopes
      /\ \A i \in mine : ScopeOf(events[i]) \in scopes
      /\ \A scope \in scopes : scope[1] = class
  BY ScopesAre
<1>2. own \in SUBSET DOMAIN events /\ IsFiniteSet(own) /\ mine \in SUBSET own /\ IsFiniteSet(mine)
  BY EventsAre DEF EventsOf, OfClass
<1>3. ASSUME NEW scope \in scopes
      PROVE  F[scope] = SumFunctionOnSet(value, {i \in mine : p[i] = scope})
  <2> DEFINE part == {i \in mine : p[i] = scope}
             f == Added(events, <<sum, scope>>)
  <2>1. F[scope] = Total(projections, <<sum, scope>>)
    OBVIOUS
  <2>2. Total(projections, <<sum, scope>>) = SumFunctionOnSet(f, own)
    BY TotalIs
  <2>3. \A i \in own : f[i] \in Int /\ f[i] =
            IF events[i].type = "integration" /\ scope = ScopeOf(events[i]) THEN value[i] ELSE 0
    BY <1>1, <1>2, AddedIs DEF AddTo
  <2>4. \A i \in own \ part : f[i] = 0
    <3>1. \A i \in own \ part : ~(events[i].type = "integration" /\ scope = ScopeOf(events[i]))
      BY <1>1 DEF OfClass, ScopeOf
    <3> HIDE DEF f, own, part
    <3> QED BY <2>3, <3>1
  <2>5. \A i \in part : f[i] = value[i] /\ f[i] \in Int
    <3>1. \A i \in part : i \in own /\ events[i].type = "integration" /\ scope = ScopeOf(events[i])
      BY DEF OfClass
    <3> HIDE DEF f, own, part
    <3> QED BY <2>3, <3>1
  <2>6. part \in SUBSET own /\ IsFiniteSet(part)
    BY <1>2, FS_Subset
  <2> HIDE DEF f, part, own, F
  <2>7. SumFunctionOnSet(f, own) = SumFunctionOnSet(f, part)
    BY <1>2, <2>3, <2>4, <2>6, SumOfPart
  <2>8. SumFunctionOnSet(f, part) = SumFunctionOnSet(value, part)
    BY <2>5, <2>6, SumSame
  <2> QED BY <2>1, <2>2, <2>7, <2>8 DEF own, part
<1>4. \A i \in mine : p[i] \in scopes
  BY <1>1
<1>5. SumOver(projections, sum, scopes) = SumFunctionOnSet(F, scopes)
  BY DEF SumOver, SumFunction
<1> HIDE DEF mine, scopes, F, p, projections
<1>6. \A i \in mine : value[i] \in Int
  BY <1>2 DEF AddTo
<1>7. SumFunctionOnSet(F, scopes) = SumFunctionOnSet(value, mine)
  <2>1. ASSUME NEW scope \in scopes
        PROVE  \E part \in SUBSET mine :
                    /\ \A i \in mine : i \in part <=> p[i] = scope
                    /\ F[scope] = SumFunctionOnSet(value, part)
    BY <1>3
  <2>2. IsFiniteSet(mine) /\ IsFiniteSet(scopes)
    BY <1>1, <1>2
  <2> QED BY <1>4, <1>6, <2>1, <2>2, SumOfParts
<1> QED BY <1>5, <1>7 DEF mine, scopes, projections

(* The cards of integrations, whatever projections their events were spread   *)
(* over: _integration_cards of services/reporting-insights.                   *)
THEOREM IntegrationCardsMatchEvents ==
    ASSUME NEW events, AreEvents(events), NEW tenant
    PROVE  CardsMatchEvents(tenant, events)
<1> DEFINE projections == ProjectionsFor(tenant, events)
           cards == IntegrationCards(projections)
           IsCardOf(class) ==
              LET own == {i \in EventsOf(tenant, events) :
                            events[i].type = "integration" /\ events[i].class = class}
                  timed == {i \in own : events[i].latency # Nothing}
              IN /\ own # {}
                 /\ cards[class].actual = SumFunction([i \in own |-> events[i].actual])
                 /\ cards[class].estimated = SumFunction([i \in own |-> events[i].estimated])
                 /\ cards[class].errors = SumFunction([i \in own |-> events[i].errors])
                 /\ cards[class].latency =
                      Average(SumFunction([i \in timed |-> events[i].latency]), Cardinality(timed))
<1>1. Dashboard(tenant, events, {}).integrations = cards
  BY DEF Dashboard
<1>2. ASSUME NEW class \in DOMAIN cards
      PROVE  IsCardOf(class)
  <2> DEFINE own == {i \in EventsOf(tenant, events) :
                        events[i].type = "integration" /\ events[i].class = class}
             timed == {i \in own : events[i].latency # Nothing}
             scopes == ScopesOf(projections, class)
             actual == [i \in DOMAIN events |-> events[i].actual]
             estimated == [i \in DOMAIN events |-> events[i].estimated]
             errors == [i \in DOMAIN events |-> events[i].errors]
             latency == [i \in DOMAIN events |->
                            IF events[i].latency = Nothing THEN 0 ELSE events[i].latency]
             one == [i \in DOMAIN events |-> IF events[i].latency = Nothing THEN 0 ELSE 1]
  <2> SUFFICES /\ own # {}
               /\ cards[class].actual = SumFunction([i \in own |-> events[i].actual])
               /\ cards[class].estimated = SumFunction([i \in own |-> events[i].estimated])
               /\ cards[class].errors = SumFunction([i \in own |-> events[i].errors])
               /\ cards[class].latency =
                     Average(SumFunction([i \in timed |-> events[i].latency]), Cardinality(timed))
    OBVIOUS
  <2>1. own = OfClass(tenant, events, class)
    BY DEF OfClass
  <2>2. own # {}
    <3> HIDE DEF own
    <3> QED BY <2>1, ScopesAre
  <2>3. own \in SUBSET DOMAIN events /\ timed \in SUBSET own /\ IsFiniteSet(own) /\ IsFiniteSet(timed)
    <3>1. own \in SUBSET DOMAIN events /\ timed \in SUBSET own
      BY DEF EventsOf
    <3> HIDE DEF own, timed
    <3> QED BY <3>1, EventsAre, FS_Subset
  <2>4. \A i \in DOMAIN events :
            /\ events[i].actual \in Int /\ events[i].estimated \in Int /\ events[i].errors \in Int
            /\ (events[i].latency # Nothing => events[i].latency \in Int)
            /\ IsEvent(events[i])
    BY EventsAre DEF IsEvent
  <2>5. /\ AddTo(events, "actual", actual) /\ AddTo(events, "estimated", estimated)
        /\ AddTo(events, "errors", errors)
    BY <2>4, AddsAre DEF AddTo
  <2>6. AddTo(events, "latency", latency) /\ AddTo(events, "latencies", one)
    <3>1. \A i \in DOMAIN events :
            /\ latency[i] = (IF events[i].latency = Nothing THEN 0 ELSE events[i].latency)
            /\ one[i] = (IF events[i].latency = Nothing THEN 0 ELSE 1)
            /\ latency[i] \in Int /\ one[i] \in Int
      BY <2>4
    <3> HIDE DEF latency, one
    <3>2. ASSUME NEW i \in DOMAIN events, NEW scope, scope # AllEvents
          PROVE  /\ Adds(events[i], <<"latency", scope>>) =
                        IF events[i].type = "integration" /\ scope = ScopeOf(events[i])
                        THEN latency[i] ELSE 0
                 /\ Adds(events[i], <<"latencies", scope>>) =
                        IF events[i].type = "integration" /\ scope = ScopeOf(events[i])
                        THEN one[i] ELSE 0
      <4> DEFINE event == events[i]
      <4>1. IsEvent(event)
        BY <2>4
      <4>2. latency[i] = (IF event.latency = Nothing THEN 0 ELSE event.latency)
            /\ one[i] = (IF event.latency = Nothing THEN 0 ELSE 1)
        BY <3>1
      <4> HIDE DEF event
      <4>3. /\ Adds(event, <<"latency", scope>>) =
                 IF event.type = "integration" /\ scope = ScopeOf(event)
                 THEN IF event.latency = Nothing THEN 0 ELSE event.latency ELSE 0
            /\ Adds(event, <<"latencies", scope>>) =
                 IF event.type = "integration" /\ scope = ScopeOf(event)
                 THEN IF event.latency = Nothing THEN 0 ELSE 1 ELSE 0
        BY <3>2, <4>1, AddsAre
      <4> QED BY <4>2, <4>3 DEF event
    <3> QED BY <3>1, <3>2 DEF AddTo
  <2>7. cards[class] =
            [counts |->
                [status \in {n[2] : n \in {m \in NamesOf(projections, "integration") :
                                                m[1] \in scopes}} |->
                    SumFunction([scope \in scopes |->
                        Total(projections, <<"integration", <<scope, status>>>>)])],
             estimated |-> SumOver(projections, "estimated", scopes),
             actual |-> SumOver(projections, "actual", scopes),
             errors |-> SumOver(projections, "errors", scopes),
             latency |-> AverageLatency(projections, scopes)]
    BY DEF IntegrationCards
  <2>8. /\ cards[class].estimated = SumOver(projections, "estimated", scopes)
        /\ cards[class].actual = SumOver(projections, "actual", scopes)
        /\ cards[class].errors = SumOver(projections, "errors", scopes)
        /\ cards[class].latency = Average(SumOver(projections, "latency", scopes),
                                          SumOver(projections, "latencies", scopes))
    <3> HIDE DEF projections, scopes, cards
    <3> QED BY <2>7 DEF AverageLatency
  <2>9. /\ SumOver(projections, "estimated", scopes) = SumFunctionOnSet(estimated, own)
        /\ SumOver(projections, "actual", scopes) = SumFunctionOnSet(actual, own)
        /\ SumOver(projections, "errors", scopes) = SumFunctionOnSet(errors, own)
        /\ SumOver(projections, "latency", scopes) = SumFunctionOnSet(latency, own)
        /\ SumOver(projections, "latencies", scopes) = SumFunctionOnSet(one, own)
    <3> HIDE DEF own, estimated, actual, errors, latency, one
    <3> QED BY <2>1, <2>5, <2>6, SumOverIs
  <2>10. /\ SumFunction([i \in own |-> events[i].actual]) = SumFunctionOnSet(actual, own)
         /\ SumFunction([i \in own |-> events[i].estimated]) = SumFunctionOnSet(estimated, own)
         /\ SumFunction([i \in own |-> events[i].errors]) = SumFunctionOnSet(errors, own)
    <3> DEFINE a == [i \in own |-> events[i].actual]
               e == [i \in own |-> events[i].estimated]
               r == [i \in own |-> events[i].errors]
    <3>1. \A i \in own : /\ a[i] \in Int /\ a[i] = actual[i] /\ e[i] \in Int /\ e[i] = estimated[i]
                         /\ r[i] \in Int /\ r[i] = errors[i]
      BY <2>3, <2>4
    <3>2. SumFunction(a) = SumFunctionOnSet(a, own) /\ SumFunction(e) = SumFunctionOnSet(e, own)
          /\ SumFunction(r) = SumFunctionOnSet(r, own)
      BY DEF SumFunction
    <3> HIDE DEF a, e, r, own, actual, estimated, errors
    <3>3. /\ SumFunctionOnSet(a, own) = SumFunctionOnSet(actual, own)
          /\ SumFunctionOnSet(e, own) = SumFunctionOnSet(estimated, own)
          /\ SumFunctionOnSet(r, own) = SumFunctionOnSet(errors, own)
      BY <2>3, <3>1, SumSame
    <3>4. SumFunction(a) = SumFunctionOnSet(actual, own)
      BY <3>2, <3>3
    <3>5. SumFunction(e) = SumFunctionOnSet(estimated, own)
      BY <3>2, <3>3
    <3>6. SumFunction(r) = SumFunctionOnSet(errors, own)
      BY <3>2, <3>3
    <3> QED BY <3>4, <3>5, <3>6 DEF a, e, r
  <2>11. SumFunction([i \in timed |-> events[i].latency]) = SumFunctionOnSet(latency, own)
    <3> DEFINE l == [i \in timed |-> events[i].latency]
    <3>1. \A i \in timed : l[i] \in Int /\ l[i] = latency[i]
      BY <2>3, <2>4
    <3>2. SumFunction(l) = SumFunctionOnSet(l, timed)
      BY DEF SumFunction
    <3>3. (\A i \in own : latency[i] \in Int) /\ \A i \in own \ timed : latency[i] = 0
      BY <2>3, <2>4
    <3> HIDE DEF l, own, timed, latency
    <3>4. SumFunctionOnSet(l, timed) = SumFunctionOnSet(latency, timed)
      BY <2>3, <3>1, SumSame
    <3>5. SumFunctionOnSet(latency, own) = SumFunctionOnSet(latency, timed)
      BY <2>3, <3>3, SumOfPart
    <3>6. SumFunction(l) = SumFunctionOnSet(latency, own)
      BY <3>2, <3>4, <3>5
    <3> QED BY <3>6 DEF l
  <2>12. Cardinality(timed) = SumFunctionOnSet(one, own)
    <3>1. \A i \in timed : one[i] = 1
      BY <2>3
    <3>2. (\A i \in own : one[i] \in Int) /\ \A i \in own \ timed : one[i] = 0
      BY <2>3
    <3> HIDE DEF own, timed, one
    <3>3. SumFunctionOnSet(one, timed) = Cardinality(timed)
      BY <2>3, <3>1, SumOfOnes
    <3>4. SumFunctionOnSet(one, own) = SumFunctionOnSet(one, timed)
      BY <2>3, <3>2, SumOfPart
    <3> QED BY <3>3, <3>4
  <2> HIDE DEF cards, projections, scopes, own, timed, estimated, actual, errors, latency, one
  <2>13. cards[class].actual = SumFunction([i \in own |-> events[i].actual])
    BY <2>8, <2>9, <2>10
  <2>14. cards[class].estimated = SumFunction([i \in own |-> events[i].estimated])
    BY <2>8, <2>9, <2>10
  <2>15. cards[class].errors = SumFunction([i \in own |-> events[i].errors])
    BY <2>8, <2>9, <2>10
  <2>16. cards[class].latency =
                     Average(SumFunction([i \in timed |-> events[i].latency]), Cardinality(timed))
    BY <2>8, <2>9, <2>11, <2>12
  <2> QED BY <2>2, <2>13, <2>14, <2>15, <2>16
<1> HIDE DEF cards
<1> QED BY <1>1, <1>2 DEF CardsMatchEvents

-----------------------------------------------------------------------------
(* The funnel and the decisions of a dashboard: apply of                      *)
(* services/reporting-insights.                                               *)
THEOREM FunnelsDoAgree ==
    ASSUME NEW events, AreEvents(events), NEW tenant
    PROVE  FunnelAgrees(tenant, events)
<1> DEFINE projections == ProjectionsFor(tenant, events)
           own == EventsOf(tenant, events)
           funnel == FunnelCards(projections)
           outcomes == CountCards(projections, "decision")
<1>1. Dashboard(tenant, events, {}).counts["decision"] = outcomes
  <2>1. Dashboard(tenant, events, {}).counts =
            [counter \in {"callback", "decision", "query", "code", "review"} |->
                CountCards(projections, counter)]
    BY DEF Dashboard
  <2> QED BY <2>1
<1>2. Dashboard(tenant, events, {}).funnel = funnel
  BY DEF Dashboard
<1>3. /\ DOMAIN funnel = NamesOf(projections, "funnel")
      /\ \A name \in DOMAIN funnel : funnel[name].count = Total(projections, <<"funnel", name>>)
      /\ DOMAIN outcomes = NamesOf(projections, "decision")
      /\ \A name \in DOMAIN outcomes : outcomes[name] = Total(projections, <<"decision", name>>)
  BY DEF FunnelCards, CountCards
<1>4. /\ \A i \in own : IsEvent(events[i])
      /\ own \in SUBSET DOMAIN events /\ IsFiniteSet(own)
  BY EventsAre DEF EventsOf
<1> HIDE DEF funnel, outcomes
<1>5. ASSUME NEW outcome \in DOMAIN outcomes
      PROVE  /\ outcome \in DOMAIN funnel
             /\ funnel[outcome].count >= outcomes[outcome]
             /\ funnel["decided"].count >= outcomes[outcome]
  <2> DEFINE f == Added(events, <<"decision", outcome>>)
             g == Added(events, <<"funnel", outcome>>)
             d == Added(events, <<"funnel", "decided">>)
  <2>1. PICK i \in own : \E figure : /\ Adds(events[i], figure) > 0
                                     /\ figure[1] = "decision" /\ figure[2] = outcome
    BY <1>3, TotalIs
  <2>2. events[i].type = "decision" /\ events[i].status = outcome
    <3>1. PICK figure : Adds(events[i], figure) > 0 /\ figure[1] = "decision" /\ figure[2] = outcome
      BY <2>1
    <3>2. events[i].type = "decision" /\ figure = <<"decision", events[i].status>>
      BY <1>4, <3>1, AddsAre
    <3> QED BY <3>1, <3>2
  <2>3. Adds(events[i], <<"funnel", outcome>>) = 1 /\ Adds(events[i], <<"funnel", "decided">>) = 1
    BY <1>4, <2>2, AddsAre
  <2>4. \A a, b : <<a, b>>[1] = a /\ <<a, b>>[2] = b
    OBVIOUS
  <2>5. outcome \in NamesOf(projections, "funnel") /\ "decided" \in NamesOf(projections, "funnel")
    BY <2>3, <2>4, TotalIs
  <2>6. ASSUME NEW j \in own
        PROVE  f[j] \in Int /\ g[j] \in Int /\ d[j] \in Int /\ f[j] <= g[j] /\ f[j] <= d[j]
    <3>1. /\ f[j] = Adds(events[j], <<"decision", outcome>>)
          /\ g[j] = Adds(events[j], <<"funnel", outcome>>)
          /\ d[j] = Adds(events[j], <<"funnel", "decided">>)
          /\ f[j] \in Nat /\ g[j] \in Nat /\ d[j] \in Nat
      BY <1>4, AddedIs
    <3>2. ASSUME f[j] > 0 PROVE f[j] = 1 /\ g[j] = 1 /\ d[j] = 1
      <4>1. events[j].type = "decision" /\ <<"decision", outcome>> = <<"decision", events[j].status>>
        <5> DEFINE figure == <<"decision", outcome>>
        <5>1. figure[1] = "decision"
          OBVIOUS
        <5>2. Adds(events[j], figure) > 0 /\ IsEvent(events[j])
          BY <1>4, <3>1, <3>2
        <5> HIDE DEF figure
        <5>3. events[j].type = "decision" /\ figure = <<"decision", events[j].status>>
          BY <5>1, <5>2, AddsAre
        <5> QED BY <5>3 DEF figure
      <4>2. outcome = events[j].status
        BY <4>1
      <4> HIDE DEF f, g, d
      <4> QED BY <1>4, <3>1, <4>1, <4>2, AddsAre
    <3> HIDE DEF f, g, d
    <3> QED BY <3>1, <3>2
  <2> HIDE DEF f, g, d
  <2>7. SumFunctionOnSet(f, own) <= SumFunctionOnSet(g, own)
        /\ SumFunctionOnSet(f, own) <= SumFunctionOnSet(d, own)
    BY <1>4, <2>6, SumMonotone
  <2>8. /\ outcomes[outcome] = SumFunctionOnSet(f, own)
        /\ funnel[outcome].count = SumFunctionOnSet(g, own)
        /\ funnel["decided"].count = SumFunctionOnSet(d, own)
    BY <1>3, <2>5, TotalIs DEF f, g, d
  <2>9. SumFunctionOnSet(f, own) \in Int /\ SumFunctionOnSet(g, own) \in Int
        /\ SumFunctionOnSet(d, own) \in Int
    BY <1>4, <2>6, SumLaws
  <2> QED BY <1>3, <2>5, <2>7, <2>8, <2>9
<1> QED BY <1>1, <1>2, <1>5 DEF FunnelAgrees

(* One restricted code hides the whole dashboard of its tenant, and nothing   *)
(* else does: _validate_safe_mapping of services/reporting-insights.          *)
THEOREM RestrictedCodesHide ==
    ASSUME NEW events, AreEvents(events), NEW context
    PROVE  OneCodeHidesAll(context, events)
<1> DEFINE tenant == context.tenant
           projections == ProjectionsFor(tenant, events)
           own == EventsOf(tenant, events)
           restricted == {i \in own : events[i].type = "decision"
                                        /\ events[i].codes \cap RestrictedCodes # {}}
<1>1. \A i \in own : IsEvent(events[i])
  BY EventsAre DEF EventsOf
<1>2. own # {} => DOMAIN projections # {}
  BY ProjectionsAre DEF AreProjections
<1>3. \A a, b : <<a, b>>[1] = a /\ <<a, b>>[2] = b
  OBVIOUS
<1>4. ASSUME NEW code
      PROVE  code \in NamesOf(projections, "code") <=>
                \E i \in own : events[i].type = "decision" /\ code \in events[i].codes
  <2>1. code \in NamesOf(projections, "code") <=>
            \E i \in own : \E figure : /\ Adds(events[i], figure) > 0
                                       /\ figure[1] = "code" /\ figure[2] = code
    BY TotalIs
  <2> HIDE DEF own, projections
  <2>2. ASSUME NEW i \in own, NEW figure, figure[1] = "code"
        PROVE  Adds(events[i], figure) > 0 <=>
                 events[i].type = "decision" /\ \E c \in events[i].codes : figure = <<"code", c>>
    BY <1>1, <2>2, AddsAre
  <2>3. ASSUME NEW i \in own, NEW figure, Adds(events[i], figure) > 0,
               figure[1] = "code", figure[2] = code
        PROVE  events[i].type = "decision" /\ code \in events[i].codes
    BY <1>3, <2>2, <2>3
  <2>4. ASSUME NEW i \in own, events[i].type = "decision", code \in events[i].codes
        PROVE  \E figure : /\ Adds(events[i], figure) > 0
                           /\ figure[1] = "code" /\ figure[2] = code
    BY <1>3, <2>2, <2>4
  <2> QED BY <2>1, <2>3, <2>4
<1>5. IsSafe(projections) <=> restricted = {}
  <2> HIDE DEF own, projections
  <2> QED BY <1>4 DEF IsSafe
<1>6. MayReadDashboard(context, Nothing) /\ own # {} =>
            (Shows(context, Nothing, events) <=> restricted = {})
  BY <1>2, <1>5 DEF Shows
<1> QED BY <1>6 DEF OneCodeHidesAll

-----------------------------------------------------------------------------
(* A finite set of integers that has one has a greatest. *)
LEMMA GreatestExists ==
    ASSUME NEW S \in SUBSET Int, IsFiniteSet(S), S # {}
    PROVE  \E n \in S : \A m \in S : m <= n
<1>1. PICK b \in Nat : \A m \in S : m < b
  BY FiniteIsBounded
<1> DEFINE distances == {d \in Nat : b - d \in S}
<1>2. distances # {}
  <2>1. PICK m \in S : TRUE
    OBVIOUS
  <2>2. b - m \in Nat /\ b - (b - m) = m
    BY <1>1
  <2> QED BY <2>1, <2>2
<1>3. PICK d \in distances : \A e \in distances : d <= e
  BY <1>2, LeastExists
<1>4. b - d \in S /\ d \in Nat
  BY <1>3
<1>5. ASSUME NEW m \in S PROVE m <= b - d
  <2>1. b - m \in Nat /\ b - (b - m) = m /\ m \in Int
    BY <1>1
  <2>2. b - m \in distances
    BY <2>1
  <2>3. d <= b - m
    BY <1>3, <2>2
  <2> QED BY <1>4, <2>1, <2>3
<1> QED BY <1>4, <1>5

(* Of all impacts there is a worst. *)
LEMMA WorstExists ==
    ASSUME NEW impacts, IsFiniteSet(impacts), impacts # {}, \A impact \in impacts : IsImpact(impact)
    PROVE  /\ WorstImpact(impacts) \in impacts
           /\ \A other \in impacts : Rank(other.status) <= Rank(WorstImpact(impacts).status)
<1>1. \A impact \in impacts : Rank(impact.status) \in 0..3 /\ impact.message \in Nat
  BY DEF IsImpact, Rank
<1>2. \A one, two \in impacts : Rank(one.status) = Rank(two.status) => one.status = two.status
  BY DEF IsImpact, Rank
<1>3. PICK rank \in {Rank(i.status) : i \in impacts} :
            \A other \in impacts : Rank(other.status) <= rank
  <2> DEFINE f == [i \in impacts |-> Rank(i.status)]
             ranks == {f[i] : i \in impacts}
  <2>1. ranks \in SUBSET Int /\ ranks # {} /\ ranks = {Rank(i.status) : i \in impacts}
    BY <1>1
  <2>2. IsFiniteSet(ranks)
    <3> HIDE DEF f
    <3> QED BY ImageBound
  <2> HIDE DEF ranks
  <2>3. PICK rank \in ranks : \A m \in ranks : m <= rank
    BY <2>1, <2>2, GreatestExists
  <2>4. \A other \in impacts : Rank(other.status) \in ranks
    BY <2>1
  <2> QED BY <2>1, <2>3, <2>4
<1> DEFINE worst == {i \in impacts : Rank(i.status) = rank}
<1>4. PICK message \in {i.message : i \in worst} : \A i \in worst : i.message <= message
  <2> DEFINE f == [i \in worst |-> i.message]
             messages == {f[i] : i \in worst}
  <2>1. messages \in SUBSET Int /\ messages # {} /\ messages = {i.message : i \in worst}
    BY <1>1, <1>3
  <2>2. IsFiniteSet(messages)
    <3>1. IsFiniteSet(worst)
      BY FS_Subset
    <3> HIDE DEF f, worst
    <3> QED BY <3>1, ImageBound
  <2> HIDE DEF messages
  <2>3. PICK message \in messages : \A m \in messages : m <= message
    BY <2>1, <2>2, GreatestExists
  <2>4. \A other \in worst : other.message \in messages
    BY <2>1
  <2> QED BY <2>1, <2>3, <2>4
<1>5. PICK impact \in worst : impact.message = message
  BY <1>4
<1>6. \A other \in impacts :
            \/ Rank(other.status) < Rank(impact.status)
            \/ other.status = impact.status /\ other.message <= impact.message
  <2> SUFFICES ASSUME NEW other \in impacts, ~(Rank(other.status) < Rank(impact.status))
               PROVE  other.status = impact.status /\ other.message <= impact.message
    OBVIOUS
  <2>1. Rank(impact.status) = rank /\ rank \in 0..3 /\ Rank(other.status) <= rank
        /\ Rank(other.status) \in 0..3
    BY <1>1, <1>3, <1>5
  <2>2. Rank(other.status) = rank
    BY <2>1
  <2> QED BY <1>2, <1>4, <1>5, <2>1, <2>2
<1>7. /\ WorstImpact(impacts) \in impacts
      /\ \A other \in impacts :
            \/ Rank(other.status) < Rank(WorstImpact(impacts).status)
            \/ other.status = WorstImpact(impacts).status
  BY <1>5, <1>6 DEF WorstImpact
<1>8. ASSUME NEW other \in impacts PROVE Rank(other.status) <= Rank(WorstImpact(impacts).status)
  <2>1. Rank(other.status) \in 0..3 /\ Rank(WorstImpact(impacts).status) \in 0..3
    BY <1>1, <1>7
  <2>2. CASE other.status = WorstImpact(impacts).status
    BY <2>1, <2>2
  <2>3. CASE Rank(other.status) < Rank(WorstImpact(impacts).status)
    BY <2>1, <2>3
  <2> QED BY <1>7, <2>2, <2>3
<1> QED BY <1>7, <1>8

(* The health of a component is the worst of its own impacts:                 *)
(* _merge_operational_impacts of services/reporting-insights.                 *)
THEOREM WorstHealthIsShown ==
    ASSUME NEW impacts, IsFiniteSet(impacts), \A impact \in impacts : IsImpact(impact), NEW tenant
    PROVE  WorstIsShown(tenant, impacts)
<1> SUFFICES ASSUME NEW component \in Components
             PROVE  LET card == HealthCards(tenant, impacts)[component]
                        own == {i \in impacts : i.tenant = tenant /\ i.component = component}
                    IN /\ \A i \in own : /\ Rank(i.status) <= Rank(card.status)
                                         /\ i.incidents \subseteq card.incidents
                       /\ own # {} => \E i \in own : i.status = card.status /\ i.message = card.message
                       /\ own = {} => card.status = "unknown" /\ card.incidents = {}
  BY DEF WorstIsShown
<1> DEFINE own == {i \in impacts : i.tenant = tenant /\ i.component = component}
           card == HealthCards(tenant, impacts)[component]
<1>1. card = HealthCard(component, own)
  BY DEF HealthCards
<1>2. IsFiniteSet(own) /\ \A impact \in own : IsImpact(impact)
  BY FS_Subset
<1> HIDE DEF own, card
<1>3. CASE own = {}
  <2>1. card = [status |-> "unknown", message |-> 0, incidents |-> {}]
    BY <1>1, <1>3 DEF HealthCard
  <2> QED BY <1>3, <2>1 DEF own, card
<1>4. CASE own # {}
  <2>1. /\ WorstImpact(own) \in own
        /\ \A other \in own : Rank(other.status) <= Rank(WorstImpact(own).status)
    BY <1>2, <1>4, WorstExists
  <2>2. card = [status |-> WorstImpact(own).status, message |-> WorstImpact(own).message,
                incidents |-> UNION {impact.incidents : impact \in own}]
    BY <1>1, <1>4 DEF HealthCard
  <2>3. card.status = WorstImpact(own).status /\ card.message = WorstImpact(own).message
        /\ card.incidents = UNION {impact.incidents : impact \in own}
    BY <2>2
  <2>4. \A i \in own : Rank(i.status) <= Rank(card.status)
    BY <2>1, <2>3
  <2>5. \A i \in own : i.incidents \subseteq card.incidents
    BY <2>3
  <2>6. \E i \in own : i.status = card.status /\ i.message = card.message
    BY <2>1, <2>3
  <2> QED BY <1>4, <2>4, <2>5, <2>6 DEF own, card
<1> QED BY <1>3, <1>4

-----------------------------------------------------------------------------
(* There is but one greatest of the values of some places. *)
LEMMA GreatestIsOne ==
    ASSUME NEW places, NEW values, NEW others, NEW more, NEW one, NEW two,
           \A i \in places : values[i] \in Int /\ \E j \in others : more[j] = values[i],
           \A j \in others : more[j] \in Int /\ \E i \in places : values[i] = more[j],
           IsGreatest(one, places, values), IsGreatest(two, others, more)
    PROVE  one = two
<1>1. CASE places = {}
  <2>1. others = {}
    BY <1>1
  <2> QED BY <1>1, <2>1 DEF IsGreatest
<1>2. CASE places # {}
  <2>1. others # {}
    BY <1>2
  <2>2. PICK i \in places : one = values[i]
    BY <1>2 DEF IsGreatest
  <2>3. PICK j \in others : two = more[j]
    BY <2>1 DEF IsGreatest
  <2>4. one <= two
    <3>1. \A k \in others : more[k] <= two
      BY <2>1 DEF IsGreatest
    <3> QED BY <2>2, <3>1
  <2>5. two <= one
    <3>1. \A k \in places : values[k] <= one
      BY <1>2 DEF IsGreatest
    <3> QED BY <2>3, <3>1
  <2> QED BY <2>2, <2>3, <2>4, <2>5
<1> QED BY <1>1, <1>2

(* The events in another order are the events. *)
InverseOf(order) == [i \in DOMAIN order |-> CHOOSE j \in DOMAIN order : order[j] = i]

LEMMA ReorderedIs ==
    ASSUME NEW events, AreEvents(events), NEW order \in OrdersOf(Len(events))
    PROVE  LET N == Len(events)
               inverse == InverseOf(order)
               other == Reordered(events, order)
           IN /\ AreEvents(other) /\ DOMAIN other = 1..N /\ DOMAIN events = 1..N /\ N \in Nat
              /\ \A i \in 1..N : /\ order[i] \in 1..N /\ inverse[i] \in 1..N
                                 /\ inverse[order[i]] = i /\ order[inverse[i]] = i
                                 /\ other[i] = events[order[i]] /\ events[i] = other[inverse[i]]
              /\ KeysIn(other) = KeysIn(events)
<1> DEFINE N == Len(events)
           other == Reordered(events, order)
           inverse == InverseOf(order)
           S == {other[i] : i \in DOMAIN other}
<1>1. N \in Nat /\ DOMAIN events = 1..N /\ \A i \in 1..N : IsEvent(events[i])
  BY EventsAre
<1>2. /\ order \in [1..N -> 1..N]
      /\ \A i \in 1..N : \E j \in 1..N : \A k \in 1..N : order[k] = i <=> k = j
  BY DEF OrdersOf
<1>3. other = [i \in 1..N |-> events[order[i]]]
  BY DEF Reordered
<1>4. DOMAIN other = 1..N /\ \A i \in 1..N : other[i] = events[order[i]]
  BY <1>3
<1>5. ASSUME NEW i \in 1..N
      PROVE  /\ order[i] \in 1..N /\ inverse[i] \in 1..N
             /\ inverse[order[i]] = i /\ order[inverse[i]] = i
  <2> HIDE DEF N
  <2>1. ASSUME NEW l \in 1..N
        PROVE  inverse[l] \in 1..N /\ order[inverse[l]] = l
    <3>1. inverse[l] = CHOOSE j \in 1..N : order[j] = l
      BY <1>2 DEF InverseOf
    <3>2. \E j \in 1..N : order[j] = l
      BY <1>2
    <3> QED BY <3>1, <3>2
  <2>2. order[i] \in 1..N
    BY <1>2
  <2>3. inverse[order[i]] \in 1..N /\ order[inverse[order[i]]] = order[i]
    BY <2>1, <2>2
  <2> HIDE DEF inverse
  <2>4. inverse[order[i]] = i
    BY <1>2, <2>2, <2>3
  <2> QED BY <2>1, <2>2, <2>4
<1> HIDE DEF inverse, other
<1>6. AreEvents(other)
  <2>1. other \in [1..N -> S]
    <3>1. other = [i \in 1..N |-> other[i]]
      BY <1>3
    <3>2. \A i \in 1..N : other[i] \in S
      BY <1>4
    <3> HIDE DEF S, N
    <3> QED BY <3>1, <3>2
  <2>2. other \in Seq(S)
    <3> HIDE DEF S, N
    <3> QED BY <1>1, <2>1
  <2>3. \A i \in DOMAIN other : IsEvent(other[i])
    BY <1>1, <1>4, <1>5
  <2> QED BY <2>2, <2>3 DEF AreEvents, IsSequence
<1>7. \A i \in 1..N : events[i] = other[inverse[i]]
  BY <1>4, <1>5
<1>8. KeysIn(other) = KeysIn(events)
  <2>1. \A i \in 1..N : /\ \E j \in 1..N : KeyOf(other[i]) = KeyOf(events[j])
                        /\ \E j \in 1..N : KeyOf(events[i]) = KeyOf(other[j])
    BY <1>4, <1>5, <1>7
  <2>2. \A k : k \in KeysIn(other) <=> \E i \in 1..N : k = KeyOf(other[i])
    BY <1>4 DEF KeysIn
  <2>3. \A k : k \in KeysIn(events) <=> \E i \in 1..N : k = KeyOf(events[i])
    BY <1>1 DEF KeysIn
  <2> QED BY <2>1, <2>2, <2>3
<1> QED BY <1>1, <1>4, <1>5, <1>6, <1>7, <1>8 DEF inverse, other

(* A projection knows no order of its events but which of them were late. *)
LEMMA ProjectionOfReordered ==
    ASSUME NEW events, AreEvents(events), NEW order \in OrdersOf(Len(events)), NEW key
    PROVE  LET one == ProjectionOf(events, key)
               two == ProjectionOf(Reordered(events, order), key)
           IN one.counters = two.counters /\ one.last = two.last /\ one.processed = two.processed
<1> DEFINE N == Len(events)
           other == Reordered(events, order)
           inverse == InverseOf(order)
           one == ProjectionOf(events, key)
           two == ProjectionOf(other, key)
           places == PlacesOf(events, key)
           others == PlacesOf(other, key)
           added(figure) == Added(events, figure)
           more(figure) == Added(other, figure)
           ats == [i \in DOMAIN events |-> events[i].at]
           times == [i \in DOMAIN events |-> events[i].processed]
           ats2 == [i \in DOMAIN other |-> other[i].at]
           times2 == [i \in DOMAIN other |-> other[i].processed]
<1> SUFFICES one.counters = two.counters /\ one.last = two.last /\ one.processed = two.processed
  OBVIOUS
<1>1. /\ AreEvents(other) /\ DOMAIN other = 1..N
      /\ DOMAIN events = 1..N /\ N \in Nat
      /\ \A i \in 1..N : /\ order[i] \in 1..N /\ inverse[i] \in 1..N
                         /\ inverse[order[i]] = i /\ order[inverse[i]] = i
                         /\ other[i] = events[order[i]] /\ events[i] = other[inverse[i]]
  BY ReorderedIs
<1> HIDE DEF other, inverse
<1>2. /\ IsBag(one.counters)
      /\ \A figure : Copies(one.counters, figure) = SumFunctionOnSet(Added(events, figure), places)
      /\ IsGreatest(one.last, places, ats) /\ IsGreatest(one.processed, places, times)
  BY ProjectionIs DEF Added
<1>3. /\ IsBag(two.counters)
      /\ \A figure : Copies(two.counters, figure) = SumFunctionOnSet(Added(other, figure), others)
      /\ IsGreatest(two.last, others, ats2) /\ IsGreatest(two.processed, others, times2)
  <2> HIDE DEF others, ats2, times2, two
  <2> QED BY <1>1, ProjectionIs DEF Added, others, ats2, times2, two
<1>4. /\ places \in SUBSET (1..N) /\ others \in SUBSET (1..N)
      /\ \A i \in 1..N : (i \in places <=> inverse[i] \in others) /\ (i \in others <=> order[i] \in places)
  BY <1>1 DEF PlacesOf
<1>5. IsFiniteSet(places) /\ IsFiniteSet(others)
  <2>1. IsFiniteSet(1..N)
    BY <1>1, FS_Interval
  <2> HIDE DEF places, others, N
  <2> QED BY <1>4, <2>1, FS_Subset
<1>6. /\ \A i \in 1..N : /\ ats[i] = events[i].at /\ times[i] = events[i].processed
                         /\ ats2[i] = other[i].at /\ times2[i] = other[i].processed
                         /\ ats[i] \in Int /\ times[i] \in Int /\ ats2[i] \in Int /\ times2[i] \in Int
      /\ \A i \in 1..N : IsEvent(events[i]) /\ IsEvent(other[i])
  <2>1. \A i \in 1..N : IsEvent(events[i])
    BY <1>1, EventsAre
  <2>2. \A i \in 1..N : IsEvent(other[i])
    BY <1>1, <2>1
  <2>3. \A event : IsEvent(event) => event.at \in Int /\ event.processed \in Int
    BY DEF IsEvent
  <2> QED BY <1>1, <2>1, <2>2, <2>3
<1>7. ASSUME NEW figure
      PROVE  SumFunctionOnSet(Added(other, figure), others)
                = SumFunctionOnSet(Added(events, figure), places)
  <2> DEFINE f == Added(events, figure)
             F == Added(other, figure)
  <2>1. /\ \A i \in 1..N : f[i] = Adds(events[i], figure) /\ f[i] \in Int
        /\ \A i \in 1..N : F[i] = Adds(other[i], figure) /\ F[i] \in Int
    BY <1>1, AddedIs
  <2> HIDE DEF f, F
  <2>2. ASSUME NEW k \in others
        PROVE  \E part \in SUBSET places :
                    /\ \A i \in places : i \in part <=> inverse[i] = k
                    /\ F[k] = SumFunctionOnSet(f, part)
    <3> DEFINE m == order[k]
               none == {}
    <3>1. k \in 1..N /\ m \in 1..N /\ m \in places /\ inverse[m] = k /\ f[m] \in Int /\ F[k] = f[m]
      BY <1>1, <1>4, <2>1
    <3>2. \A i \in places : i \in {m} <=> inverse[i] = k
      <4>1. \A i \in places : inverse[i] = k => i = m
        BY <1>1, <1>4
      <4> QED BY <3>1, <4>1
    <3>3. SumFunctionOnSet(f, none \cup {m}) = f[m] + SumFunctionOnSet(f, none)
          /\ SumFunctionOnSet(f, none) = 0
      <4>1. IsFiniteSet(none) /\ m \notin none
        BY FS_EmptySet
      <4>2. \A y \in none : f[y] \in Int
        OBVIOUS
      <4>3. SumFunctionOnSet(f, none) = 0
        BY <4>1, <4>2, SumLaws
      <4> HIDE DEF none, m
      <4> QED BY <3>1, <4>1, <4>2, <4>3, SumLaws
    <3>4. none \cup {m} = {m}
      OBVIOUS
    <3>5. f[m] + 0 = f[m]
      BY <3>1
    <3>6. SumFunctionOnSet(f, {m}) = F[k]
      BY <3>1, <3>3, <3>4, <3>5
    <3>7. {m} \in SUBSET places
      BY <3>1
    <3> QED BY <3>2, <3>6, <3>7
  <2>3. /\ \A i \in places : f[i] \in Int
        /\ \A i \in places : inverse[i] \in others
    BY <1>4, <2>1
  <2> HIDE DEF places, others
  <2>4. SumFunctionOnSet(F, others) = SumFunctionOnSet(f, places)
    BY <1>5, <2>2, <2>3, SumOfParts
  <2> QED BY <2>4 DEF f, F
<1> HIDE DEF places, others, one, two
<1>8. one.counters = two.counters
  <2>1. \A figure : Copies(one.counters, figure) = Copies(two.counters, figure)
    BY <1>2, <1>3, <1>7
  <2> QED BY <1>2, <1>3, <2>1, BagsAre
<1>9. /\ \A i \in places : /\ ats[i] \in Int /\ \E j \in others : ats2[j] = ats[i]
                           /\ times[i] \in Int /\ \E j \in others : times2[j] = times[i]
      /\ \A j \in others : /\ ats2[j] \in Int /\ \E i \in places : ats[i] = ats2[j]
                           /\ times2[j] \in Int /\ \E i \in places : times[i] = times2[j]
  <2> HIDE DEF ats, times, ats2, times2
  <2>1. ASSUME NEW i \in places
        PROVE  ats2[inverse[i]] = ats[i] /\ times2[inverse[i]] = times[i] /\ inverse[i] \in others
               /\ ats[i] \in Int /\ times[i] \in Int
    <3>1. i \in 1..N /\ inverse[i] \in 1..N /\ inverse[i] \in others /\ other[inverse[i]] = events[i]
      BY <1>1, <1>4
    <3> QED BY <1>6, <3>1
  <2>2. ASSUME NEW j \in others
        PROVE  ats[order[j]] = ats2[j] /\ times[order[j]] = times2[j] /\ order[j] \in places
               /\ ats2[j] \in Int /\ times2[j] \in Int
    <3>1. j \in 1..N /\ order[j] \in 1..N /\ order[j] \in places /\ events[order[j]] = other[j]
      BY <1>1, <1>4
    <3> QED BY <1>6, <3>1
  <2> QED BY <2>1, <2>2
<1> HIDE DEF ats, times, ats2, times2
<1>10. one.last = two.last
  BY <1>2, <1>3, <1>9, GreatestIsOne
<1>11. one.processed = two.processed
  BY <1>2, <1>3, <1>9, GreatestIsOne
<1> QED BY <1>8, <1>10, <1>11

(* What is shown of projections follows from their counters. *)
LEMMA CountersAreShown ==
    ASSUME NEW P, NEW Q, DOMAIN P = DOMAIN Q, \A key \in DOMAIN P : P[key].counters = Q[key].counters
    PROVE  /\ \A figure : Total(P, figure) = Total(Q, figure)
           /\ \A counter : NamesOf(P, counter) = NamesOf(Q, counter)
           /\ \A counter : CountCards(P, counter) = CountCards(Q, counter)
           /\ FunnelCards(P) = FunnelCards(Q)
           /\ \A sum, scopes : SumOver(P, sum, scopes) = SumOver(Q, sum, scopes)
           /\ \A scopes : AverageLatency(P, scopes) = AverageLatency(Q, scopes)
           /\ IntegrationCards(P) = IntegrationCards(Q)
<1>1. ASSUME NEW figure PROVE Total(P, figure) = Total(Q, figure)
  <2>1. \A key \in DOMAIN P : Figure(P[key], figure) = Figure(Q[key], figure)
    BY DEF Figure
  <2>2. [key \in DOMAIN P |-> Figure(P[key], figure)] = [key \in DOMAIN Q |-> Figure(Q[key], figure)]
    BY <2>1
  <2> QED BY <2>2 DEF Total
<1>2. ASSUME NEW counter PROVE NamesOf(P, counter) = NamesOf(Q, counter)
  <2>1. UNION {BagToSet(P[key].counters) : key \in DOMAIN P}
            = UNION {BagToSet(Q[key].counters) : key \in DOMAIN Q}
    OBVIOUS
  <2> QED BY <2>1 DEF NamesOf
<1>3. ASSUME NEW counter PROVE CountCards(P, counter) = CountCards(Q, counter)
  BY <1>1, <1>2 DEF CountCards
<1>4. FunnelCards(P) = FunnelCards(Q)
  BY <1>1, <1>3 DEF FunnelCards
<1>5. ASSUME NEW sum, NEW scopes PROVE SumOver(P, sum, scopes) = SumOver(Q, sum, scopes)
  BY <1>1 DEF SumOver
<1>6. ASSUME NEW scopes PROVE AverageLatency(P, scopes) = AverageLatency(Q, scopes)
  BY <1>5 DEF AverageLatency
<1>7. ASSUME NEW class PROVE ScopesOf(P, class) = ScopesOf(Q, class)
  BY <1>2 DEF ScopesOf
<1>8. IntegrationCards(P) = IntegrationCards(Q)
  <2> DEFINE card(R, class, scopes) ==
        [counts |->
                [status \in {n[2] : n \in {m \in NamesOf(R, "integration") :
                                                m[1] \in scopes}} |->
                    SumFunction([scope \in scopes |->
                        Total(R, <<"integration", <<scope, status>>>>)])],
            estimated |-> SumOver(R, "estimated", scopes),
            actual |-> SumOver(R, "actual", scopes),
            errors |-> SumOver(R, "errors", scopes),
            latency |-> AverageLatency(R, scopes)]
  <2>1. \A R : IntegrationCards(R) =
            [class \in {name[1][1] : name \in NamesOf(R, "integration")} |->
                card(R, class, ScopesOf(R, class))]
    BY DEF IntegrationCards
  <2>2. ASSUME NEW class, NEW scopes PROVE card(P, class, scopes) = card(Q, class, scopes)
    <3>1. ASSUME NEW status
          PROVE  [scope \in scopes |-> Total(P, <<"integration", <<scope, status>>>>)]
                    = [scope \in scopes |-> Total(Q, <<"integration", <<scope, status>>>>)]
      BY <1>1
    <3> DEFINE names(R) == {n[2] : n \in {m \in NamesOf(R, "integration") : m[1] \in scopes}}
               sum(R, status) == SumFunction([scope \in scopes |->
                                    Total(R, <<"integration", <<scope, status>>>>)])
               counts(R) == [status \in names(R) |-> sum(R, status)]
    <3>2. names(P) = names(Q)
      BY <1>2
    <3>3. \A status : sum(P, status) = sum(Q, status)
      BY <3>1
    <3>4. counts(P) = counts(Q)
      <4> HIDE DEF names, sum
      <4> QED BY <3>2, <3>3
    <3>5. \A R : card(R, class, scopes) =
            [counts |-> counts(R), estimated |-> SumOver(R, "estimated", scopes),
             actual |-> SumOver(R, "actual", scopes), errors |-> SumOver(R, "errors", scopes),
             latency |-> AverageLatency(R, scopes)]
      OBVIOUS
    <3> HIDE DEF card, counts
    <3> QED BY <1>5, <1>6, <3>4, <3>5
  <2> DEFINE classes(R) == {name[1][1] : name \in NamesOf(R, "integration")}
  <2>3. classes(P) = classes(Q)
    BY <1>2
  <2>4. \A R : IntegrationCards(R) = [class \in classes(R) |-> card(R, class, ScopesOf(R, class))]
    <3> HIDE DEF card
    <3> QED BY <2>1
  <2> HIDE DEF card, classes
  <2>5. \A class : card(P, class, ScopesOf(P, class)) = card(Q, class, ScopesOf(Q, class))
    BY <1>7, <2>2
  <2> QED BY <2>3, <2>4, <2>5
<1> QED BY <1>1, <1>2, <1>3, <1>4, <1>5, <1>6, <1>8

(* Events out of order change their lateness alone: apply and build_dashboard *)
(* of services/reporting-insights.                                            *)
THEOREM OrderChangesLatenessAlone ==
    ASSUME NEW events, AreEvents(events), NEW tenant, NEW impacts
    PROVE  OrderOnlyCountsLate(tenant, events, impacts)
<1> SUFFICES ASSUME NEW order \in OrdersOf(Len(events))
             PROVE  [Dashboard(tenant, events, impacts) EXCEPT !.late = 0]
                        = [Dashboard(tenant, Reordered(events, order), impacts) EXCEPT !.late = 0]
  BY DEF OrderOnlyCountsLate
<1> DEFINE other == Reordered(events, order)
           P == ProjectionsFor(tenant, events)
           Q == ProjectionsFor(tenant, other)
           old(R) == \E key \in DOMAIN R : IsStale(R[key])
           cards(a1, a2, a3, a4, a5, a6, a7, a8, a9, a10, a11, a12, a13, a14, a15, a16) ==
               [tenant |-> a1, tier |-> a2, products |-> a3, channels |-> a4, periods |-> a5,
                funnel |-> a6, counts |-> a7, estimated |-> a8, actual |-> a9, errors |-> a10,
                late |-> a11, latency |-> a12, stale |-> a13, lag |-> a14,
                integrations |-> a15, health |-> a16]
           tier(R) == SingleOrBridge({key.tier : key \in DOMAIN R})
           products(R) == {key.product : key \in DOMAIN R}
           channels(R) == {key.channel : key \in DOMAIN R} \ {Nothing}
           periods(R) == {key.period : key \in DOMAIN R}
           counts(R) == [counter \in {"callback", "decision", "query", "code", "review"} |->
                            CountCards(R, counter)]
           total(R, sum) == Total(R, <<sum, AllEvents>>)
           latency(R) == AverageLatency(R, {AllEvents})
           lag(R) == Longest({Lag(R[key]) : key \in DOMAIN R})
           shown(R, n) ==
               cards(tenant, tier(R), products(R), channels(R), periods(R), FunnelCards(R), counts(R),
                     total(R, "estimated"), total(R, "actual"), total(R, "errors"), n, latency(R),
                     old(R), lag(R), IntegrationCards(R), HealthCards(tenant, impacts))
           late(R) == SumFunction([key \in DOMAIN R |-> R[key].late])
<1>1. /\ Dashboard(tenant, events, impacts) = shown(P, late(P))
      /\ Dashboard(tenant, other, impacts) = shown(Q, late(Q))
  BY Zenon DEF Dashboard
<1>2. /\ DOMAIN P = DOMAIN Q
      /\ \A key \in DOMAIN P : /\ P[key].counters = Q[key].counters /\ P[key].last = Q[key].last
                               /\ P[key].processed = Q[key].processed
  <2>1. KeysIn(other) = KeysIn(events)
    BY ReorderedIs
  <2>2. DOMAIN P = {k \in KeysIn(events) : k.tenant = tenant}
        /\ DOMAIN Q = {k \in KeysIn(other) : k.tenant = tenant}
    BY DEF ProjectionsFor
  <2>3. DOMAIN P = DOMAIN Q
    BY <2>1, <2>2
  <2>4. \A key \in DOMAIN P : P[key] = ProjectionOf(events, key)
    BY DEF ProjectionsFor
  <2>5. \A key \in DOMAIN Q : Q[key] = ProjectionOf(other, key)
    BY DEF ProjectionsFor
  <2> HIDE DEF P, Q
  <2> QED BY <2>3, <2>4, <2>5, ProjectionOfReordered
<1> HIDE DEF P, Q
<1>3. \A key \in DOMAIN P : Lag(P[key]) = Lag(Q[key]) /\ (IsStale(P[key]) <=> IsStale(Q[key]))
  BY <1>2 DEF Lag, IsStale
<1>4. old(P) = old(Q)
  BY <1>2, <1>3
<1>5. Longest({Lag(P[key]) : key \in DOMAIN P}) = Longest({Lag(Q[key]) : key \in DOMAIN Q})
  <2>1. {Lag(P[key]) : key \in DOMAIN P} = {Lag(Q[key]) : key \in DOMAIN Q}
    BY <1>2, <1>3
  <2> QED BY <2>1
<1>6. /\ \A figure : Total(P, figure) = Total(Q, figure)
      /\ \A counter : CountCards(P, counter) = CountCards(Q, counter)
      /\ FunnelCards(P) = FunnelCards(Q)
      /\ \A scopes : AverageLatency(P, scopes) = AverageLatency(Q, scopes)
      /\ IntegrationCards(P) = IntegrationCards(Q)
  BY <1>2, CountersAreShown
<1> HIDE DEF old
<1>7. ASSUME NEW n PROVE shown(P, n) = shown(Q, n)
  <2>1. counts(P) = counts(Q)
    BY <1>6
  <2>2. /\ {key.tier : key \in DOMAIN P} = {key.tier : key \in DOMAIN Q}
        /\ {key.channel : key \in DOMAIN P} = {key.channel : key \in DOMAIN Q}
    BY <1>2
  <2>3. tier(P) = tier(Q) /\ channels(P) = channels(Q)
    BY <2>2
  <2>4. products(P) = products(Q) /\ periods(P) = periods(Q)
    BY <1>2
  <2>5. latency(P) = latency(Q) /\ \A sum : total(P, sum) = total(Q, sum)
    BY <1>6
  <2>6. lag(P) = lag(Q)
    BY <1>5
  <2> HIDE DEF cards, tier, products, channels, periods, counts, total, latency, lag
  <2> QED BY <1>4, <1>6, <2>1, <2>3, <2>4, <2>5, <2>6
<1>8. ASSUME NEW R, NEW n PROVE [shown(R, n) EXCEPT !.late = 0] = shown(R, 0)
  <2>1. \A a1, a2, a3, a4, a5, a6, a7, a8, a9, a10, a11, a12, a13, a14, a15, a16 :
            [cards(a1, a2, a3, a4, a5, a6, a7, a8, a9, a10, a11, a12, a13, a14, a15, a16)
                EXCEPT !.late = 0]
              = cards(a1, a2, a3, a4, a5, a6, a7, a8, a9, a10, 0, a12, a13, a14, a15, a16)
    OBVIOUS
  <2> HIDE DEF cards, tier, products, channels, periods, counts, total, latency, lag
  <2> QED BY <2>1
<1> HIDE DEF shown, late
<1>9. [shown(P, late(P)) EXCEPT !.late = 0] = [shown(Q, late(Q)) EXCEPT !.late = 0]
  BY <1>7, <1>8
<1> QED BY <1>1, <1>9, Zenon DEF late

-----------------------------------------------------------------------------
(* The inputs that are picked are policies, executions, tokens, contexts,     *)
(* payloads, events and attributes of the kind that the theorems above are    *)
(* about.                                                                     *)
PolicyIs(policy, values) == policy \in Policies /\ values \in Values

CasesAre(policy, cases) ==
    policy \in Policies /\ \A i \in DOMAIN cases : cases[i].values \in Values

PlanIs(configurations, required, others) ==
    configurations \subseteq Configurations /\ required \subseteq Classes /\ others \subseteq Classes

TokenIs(token, catalog, now) ==
    /\ token.issued \in Nat /\ token.expires \in Nat /\ now \in Nat
    /\ token.notBefore \in Nat \cup {NoId}
    /\ \A tenant \in DOMAIN catalog : catalog[tenant] \in TenantEntries

ProposalIs(payload, change) ==
    /\ IsPayload(payload)
    /\ change[1] \in DOMAIN payload /\ change[2] \in DOMAIN payload[change[1]]

ContextIs(subject, others) == subject \in Subjects /\ others \in Seq(MetadataEntries)

ImpactsAre(impacts) == IsFiniteSet(impacts) /\ \A impact \in impacts : IsImpact(impact)

AttributesFit(attributes) ==
    IsAttributes(attributes) /\ Len(attributes) + Len(Context) <= MaxEntries

InputInv ==
    /\ topic = "evaluation" => PolicyIs(input.policy, input.values)
    /\ topic = "simulation" => CasesAre(input.policy, input.cases)
    /\ topic = "plan" => PlanIs(input.configurations, input.required, input.others)
    /\ topic = "execution" => Answerable(input.plan.items, input.answers)
    /\ topic = "token" => TokenIs(input.token, input.catalog, input.now)
    /\ topic = "context" => ContextIs(input.subject, input.others)
    /\ topic = "proposal" => ProposalIs(input.payload, input.change)
    /\ topic = "dashboard" => AreEvents(input)
    /\ topic = "impacts" => ImpactsAre(input)
    /\ topic = "payload" => IsTree(input)
    /\ topic = "key" => input \in NodeKeys
    /\ topic = "attributes" => AttributesFit(input)

(* Rules of a pool with some of its criteria, limits and a fallback make a policy. *)
LEMMA PoolsMakePolicies ==
    ASSUME NEW rules, rules \subseteq RulePool, NEW criteria, criteria \subseteq CriterionPool,
           NEW limits, limits \subseteq LimitPool \cup SimulatedLimits,
           NEW fallback \in FallbackPool
    PROVE  [rules |-> rules, criteria |-> criteria, limits |-> limits, fallback |-> fallback]
               \in Policies
  BY PolicyInputsAssumption DEF Policies

LEMMA EvaluationInput ==
    ASSUME PickEvaluation
    PROVE  topic' = "evaluation" /\ PolicyIs(input'.policy, input'.values)
<1>1. PICK rules \in OneOrTwo(RulePool), criteria \in AtMostOne(CriterionPool),
           limits \in OneOrTwo(LimitPool) \cup {{}}, fallback \in FallbackPool,
           values \in ValuePool :
             Pick("evaluation", [policy |-> [rules |-> rules, criteria |-> criteria,
                                             limits |-> limits, fallback |-> fallback],
                                 values |-> values])
  BY DEF PickEvaluation
<1>2. rules \subseteq RulePool /\ criteria \subseteq CriterionPool /\ limits \subseteq LimitPool
  BY DEF OneOrTwo, AtMostOne
<1>3. [rules |-> rules, criteria |-> criteria, limits |-> limits, fallback |-> fallback] \in Policies
  BY <1>2, PoolsMakePolicies
<1>4. values \in Values
  BY PolicyInputsAssumption
<1> QED BY <1>1, <1>3, <1>4 DEF Pick, PolicyIs

LEMMA SimulationInput ==
    ASSUME PickSimulation
    PROVE  topic' = "simulation" /\ CasesAre(input'.policy, input'.cases)
<1>1. PICK rules \in OneOrTwo(RulePool) \cup {{}}, criteria \in AtMostOne(CriterionPool),
           limits \in AtMostOne(SimulatedLimits), fallback \in FallbackPool,
           values, others \in SimulatedValues :
             Pick("simulation", [policy |-> [rules |-> rules, criteria |-> criteria,
                                             limits |-> limits, fallback |-> fallback],
                                 cases |-> <<[id |-> 1, values |-> values],
                                             [id |-> 2, values |-> others]>>])
  BY DEF PickSimulation
<1>2. rules \subseteq RulePool /\ criteria \subseteq CriterionPool /\ limits \subseteq SimulatedLimits
  BY DEF OneOrTwo, AtMostOne
<1>3. [rules |-> rules, criteria |-> criteria, limits |-> limits, fallback |-> fallback] \in Policies
  BY <1>2, PoolsMakePolicies
<1>4. values \in Values /\ others \in Values
  BY PolicyInputsAssumption
<1> DEFINE cases == <<[id |-> 1, values |-> values], [id |-> 2, values |-> others]>>
<1>5. DOMAIN cases = {1, 2} /\ cases[1].values = values /\ cases[2].values = others
  OBVIOUS
<1>6. \A i \in DOMAIN cases : cases[i].values \in Values
  BY <1>4, <1>5
<1> HIDE DEF cases
<1>7. topic' = "simulation" /\ input'.cases = cases
      /\ input'.policy = [rules |-> rules, criteria |-> criteria, limits |-> limits,
                          fallback |-> fallback]
  BY <1>1 DEF Pick, cases
<1> QED BY <1>3, <1>6, <1>7 DEF CasesAre

LEMMA PlanInput ==
    ASSUME PickPlan
    PROVE  topic' = "plan" /\ PlanIs(input'.configurations, input'.required, input'.others)
<1>1. PICK configurations \in {c \in OneOrTwo(ConfigurationPool) \cup {{}} : OneEach(c)},
           required \in SUBSET Classes, others \in SUBSET Classes :
             Pick("plan", [configurations |-> configurations, required |-> required,
                           others |-> others])
  BY DEF PickPlan
<1>2. configurations \subseteq Configurations
  BY JobInputsAssumption DEF OneOrTwo
<1> QED BY <1>1, <1>2 DEF Pick, PlanIs

LEMMA ExecutionInput ==
    ASSUME PickExecution
    PROVE  topic' = "execution" /\ Answerable(input'.plan.items, input'.answers)
<1>1. PICK execution \in ExecutionPool, scenario \in ScenarioPool :
             Pick("execution", [plan |-> Plan("ready", execution.items, {}),
                                scenarios |-> [class \in {"kyc"} |-> scenario],
                                answers |-> execution.answers])
  BY DEF PickExecution
<1>2. Answerable(execution.items, execution.answers)
  BY JobInputsAssumption
<1>3. /\ topic' = "execution"
      /\ input'.plan.items = execution.items /\ input'.answers = execution.answers
  BY <1>1 DEF Pick, Plan
<1> QED BY <1>2, <1>3

LEMMA TokenInput ==
    ASSUME PickToken
    PROVE  topic' = "token" /\ TokenIs(input'.token, input'.catalog, input'.now)
<1>1. PICK token \in TokenPool, payloadTenant \in PayloadTenants, roles \in RolesPool,
           catalog \in TenantCatalogs, now \in Clock :
             Pick("token", [token |-> token, payloadTenant |-> payloadTenant, roles |-> roles,
                            catalog |-> catalog, now |-> now])
  BY DEF PickToken
<1>2. TokenIs(token, catalog, now)
  BY AccessInputsAssumption DEF TokenIs
<1>3. topic' = "token" /\ input'.token = token /\ input'.catalog = catalog /\ input'.now = now
  BY <1>1 DEF Pick
<1> QED BY <1>2, <1>3

LEMMA ContextInput ==
    ASSUME PickContext
    PROVE  topic' = "context" /\ ContextIs(input'.subject, input'.others)
<1>1. PICK subject \in SubjectPool,
           others \in {<<>>} \cup {<<entry>> : entry \in MetadataEntries} :
             Pick("context", [subject |-> subject, others |-> others])
  BY DEF PickContext
<1>2. subject \in Subjects
  BY AccessInputsAssumption
<1>3. others \in Seq(MetadataEntries)
  <2>1. CASE others = <<>>
    BY <2>1
  <2>2. CASE others # <<>>
    <3>1. PICK entry \in MetadataEntries : others = <<entry>>
      BY <2>2
    <3> QED BY <3>1
  <2> QED BY <2>1, <2>2
<1> QED BY <1>1, <1>2, <1>3 DEF Pick, ContextIs

LEMMA ProposalInput ==
    ASSUME PickProposal
    PROVE  topic' = "proposal" /\ ProposalIs(input'.payload, input'.change)
<1>1. PICK payload \in PayloadPool :
         \E first, second \in Changes(payload) :
            \E edited \in {payload, Changed(payload, first), Without(payload, first)} :
                Pick("proposal", [payload |-> edited, change |-> second])
  BY DEF PickProposal
<1>0. PICK first \in Changes(payload), second \in Changes(payload) :
         \E edited \in {payload, Changed(payload, first), Without(payload, first)} :
             Pick("proposal", [payload |-> edited, change |-> second])
  BY <1>1
<1>2. PICK edited \in {payload, Changed(payload, first), Without(payload, first)} :
         Pick("proposal", [payload |-> edited, change |-> second])
  BY <1>0
<1>3. IsPayload(payload)
  BY PayloadInputsAssumption
<1>4. ASSUME NEW c \in Changes(payload)
      PROVE  c[1] \in DOMAIN payload /\ c[2] \in DOMAIN payload[c[1]]
  BY DEF Changes
<1>5. /\ DOMAIN edited = DOMAIN payload
      /\ \A s \in DOMAIN payload : DOMAIN edited[s] = DOMAIN payload[s]
  <2>1. CASE edited = payload
    BY <2>1
  <2>2. CASE edited = Changed(payload, first)
    BY <2>2 DEF Changed
  <2>3. CASE edited = Without(payload, first)
    BY <2>3 DEF Without
  <2> QED BY <2>1, <2>2, <2>3
<1>6. IsPayload(edited)
  BY <1>3, <1>5 DEF IsPayload, Nested
<1>7. second[1] \in DOMAIN edited /\ second[2] \in DOMAIN edited[second[1]]
  BY <1>4, <1>5
<1>8. topic' = "proposal" /\ input'.payload = edited /\ input'.change = second
  BY <1>2 DEF Pick
<1> QED BY <1>6, <1>7, <1>8 DEF ProposalIs

LEMMA DashboardInput ==
    ASSUME PickDashboard
    PROVE  topic' = "dashboard" /\ AreEvents(input')
<1>1. PICK events \in DashboardPool : Pick("dashboard", events)
  BY DEF PickDashboard
<1>2. AreEvents(events)
  BY DashboardInputsAssumption DEF AreEvents
<1> QED BY <1>1, <1>2 DEF Pick

LEMMA ImpactsInput ==
    ASSUME PickImpacts
    PROVE  topic' = "impacts" /\ ImpactsAre(input')
<1>1. PICK one \in ImpactPool, two \in ImpactPool, three \in ImpactPool :
            Pick("impacts", {one, two, three})
  BY DEF PickImpacts
<1>2. IsFiniteSet({one, two, three})
  <2>1. IsFiniteSet({}) /\ {one, two, three} = (({} \cup {one}) \cup {two}) \cup {three}
    BY FS_EmptySet
  <2>2. IsFiniteSet({} \cup {one})
    BY <2>1, FS_AddElement
  <2>3. IsFiniteSet(({} \cup {one}) \cup {two})
    BY <2>2, FS_AddElement
  <2>4. IsFiniteSet((({} \cup {one}) \cup {two}) \cup {three})
    BY <2>3, FS_AddElement
  <2> QED BY <2>1, <2>4
<1>3. ImpactsAre({one, two, three})
  BY <1>2, DashboardInputsAssumption DEF ImpactsAre
<1> QED BY <1>1, <1>3 DEF Pick

LEMMA PayloadInput ==
    ASSUME PickPayload
    PROVE  topic' = "payload" /\ IsTree(input')
  BY TreeInputsAssumption DEF PickPayload, Pick

LEMMA KeyInput ==
    ASSUME PickKey
    PROVE  topic' = "key" /\ input' \in NodeKeys
  BY GateInputsAssumption DEF PickKey, Pick

LEMMA AttributesInput ==
    ASSUME PickAttributes
    PROVE  topic' = "attributes" /\ AttributesFit(input')
  BY GateInputsAssumption DEF PickAttributes, Pick, AttributesFit

(* Every input is of its kind. *)
LEMMA InputsAreTyped == AllSpec => []InputInv
<1>1. Init => InputInv
  BY DEF Init, InputInv
<1>2. InputInv /\ [Next \/ PickExposed]_vars => InputInv'
  <2> SUFFICES ASSUME InputInv, [Next \/ PickExposed]_vars
               PROVE  InputInv'
    OBVIOUS
  <2>1. CASE PickEvaluation
    BY <2>1, EvaluationInput DEF InputInv
  <2>2. CASE PickSimulation
    BY <2>2, SimulationInput DEF InputInv
  <2>3. CASE PickPlan
    BY <2>3, PlanInput DEF InputInv
  <2>4. CASE PickExecution
    BY <2>4, ExecutionInput DEF InputInv
  <2>5. CASE PickToken
    BY <2>5, TokenInput DEF InputInv
  <2>6. CASE PickContext
    BY <2>6, ContextInput DEF InputInv
  <2>7. CASE PickProposal
    BY <2>7, ProposalInput DEF InputInv
  <2>8. CASE PickDashboard
    BY <2>8, DashboardInput DEF InputInv
  <2>9. CASE PickImpacts
    BY <2>9, ImpactsInput DEF InputInv
  <2>10. CASE PickPayload
    BY <2>10, PayloadInput DEF InputInv
  <2>11. CASE PickKey
    BY <2>11, KeyInput DEF InputInv
  <2>12. CASE PickCapability
    <3>1. topic' = "capability"
      BY <2>12 DEF PickCapability, Pick
    <3> QED BY <3>1 DEF InputInv
  <2>13. CASE PickAttributes
    BY <2>13, AttributesInput DEF InputInv
  <2>14. CASE UNCHANGED vars
    BY <2>14 DEF vars, InputInv
  <2> QED BY <2>1, <2>2, <2>3, <2>4, <2>5, <2>6, <2>7, <2>8, <2>9, <2>10, <2>11, <2>12, <2>13, <2>14
          DEF Next, PickExposed
<1> QED BY <1>1, <1>2, PTL DEF AllSpec

(* In every state, what an evaluation, a simulation and a decision make of a  *)
(* policy agrees.                                                             *)
THEOREM EvaluationsDoAgree == AllSpec => []EvaluationsAgree
<1>1. InputInv => EvaluationsAgree
  <2> SUFFICES ASSUME InputInv
               PROVE  EvaluationsAgree
    OBVIOUS
  <2>1. ASSUME topic = "evaluation"
        PROVE  input.policy \in Policies /\ input.values \in Values
    BY <2>1 DEF InputInv, PolicyIs
  <2>2. Approvals
    BY <2>1, ApprovalsAreWithinPolicy DEF Approvals, OnEvaluation
  <2>3. Adjustments
    BY <2>1, AdjustmentsAreWithinLimits DEF Adjustments, OnEvaluation
  <2>4. Rejections
    BY <2>1, RejectionsNameGrounds DEF Rejections, OnEvaluation
  <2>5. Decisions
    BY <2>1, EvaluationsCanDecide DEF Decisions, OnEvaluation
  <2>6. Questions
    BY <2>1, DataIsAskedForOnce, PolicyInputsAssumption DEF Questions
  <2>7. Explanations
    BY <2>1, FactorsAreOfShownReasons DEF Explanations
  <2>8. Simulations
    BY CleanSimulationsAreDecidedByRules DEF InputInv, CasesAre, Simulations
  <2> QED BY <2>2, <2>3, <2>4, <2>5, <2>6, <2>7, <2>8 DEF EvaluationsAgree
<1> QED BY <1>1, InputsAreTyped, PTL

(* In every state, each call of a job is counted, paid and recorded, and an  *)
(* execution fails exactly when it has to.                                    *)
THEOREM JobsAreAccounted == AllSpec => []JobsAccounted
<1>1. InputInv => JobsAccounted
  <2> SUFFICES ASSUME InputInv
               PROVE  JobsAccounted
    OBVIOUS
  <2>1. ReadyPlans
    BY ReadyPlansCoverRequired DEF InputInv, PlanIs, ReadyPlans
  <2>2. ASSUME topic = "execution"
        PROVE  Answerable(input.plan.items, input.answers)
    BY <2>2 DEF InputInv
  <2>3. Calls
    BY <2>2, CallsAreAccounted DEF Calls, OnExecution
  <2>4. Failures
    BY <2>2, FailuresAreForGood DEF Failures, OnExecution
  <2>5. Outcome
    BY <2>2, ExecutionsFailClosed DEF Outcome, OnExecution
  <2>6. Delays
    BY <2>2, DelaysGrowAndEnd DEF Delays, OnExecution
  <2>7. Reprocesses
    BY <2>2, ReprocessesRepeatFailures DEF Reprocesses, OnExecution
  <2> QED BY <2>1, <2>3, <2>4, <2>5, <2>6, <2>7 DEF JobsAccounted
<1> QED BY <1>1, InputsAreTyped, PTL

(* In every state, nobody gains a tenant, a tier, a scope or time between the *)
(* token of a client and the last service that is called for it.              *)
THEOREM AccessIsBacked == AllSpec => []AccessBacked
<1>1. InputInv => AccessBacked
  <2> SUFFICES ASSUME InputInv
               PROVE  AccessBacked
    OBVIOUS
  <2>1. ASSUME topic = "token"
        PROVE  TokenIs(input.token, input.catalog, input.now)
    BY <2>1 DEF InputInv
  <2>2. Grants
    BY <2>1, GrantsAreOfTheirTokens DEF Grants, TokenIs
  <2>3. Tenants
    BY TenantsAreApart DEF Tenants
  <2>4. ASSUME topic = "context"
        PROVE  input.subject \in Subjects /\ input.others \in Seq(MetadataEntries)
    BY <2>4 DEF InputInv, ContextIs
  <2>5. Arrivals
    BY <2>4, ContextsDoArrive DEF Arrivals, OnContext
  <2>6. Replacements
    BY <2>4, NothingTakesItsPlace DEF Replacements, OnContext
  <2> QED BY <2>2, <2>3, <2>5, <2>6 DEF AccessBacked
<1> QED BY <1>1, InputsAreTyped, PTL

(* In every state, what is kept of an accepted proposal names its payers and  *)
(* identifies nobody, and its fingerprint tells it apart from others.         *)
THEOREM ContractIsKept == AllSpec => []ContractKept
<1>1. InputInv => ContractKept
  <2> SUFFICES ASSUME InputInv
               PROVE  ContractKept
    OBVIOUS
  <2>1. ASSUME topic = "proposal"
        PROVE  /\ IsPayload(input.payload)
               /\ input.change[1] \in DOMAIN input.payload
               /\ input.change[2] \in DOMAIN input.payload[input.change[1]]
    BY <2>1 DEF InputInv, ProposalIs
  <2>2. Payers
    BY PayersAreKnown DEF Payers
  <2>3. Identity
    BY <2>1, KeptIdentifiesInTextOnly DEF Identity, IsPayload
  <2>4. Fingerprints
    BY <2>1, FingerprintsDoTellApart DEF Fingerprints
  <2> QED BY <2>2, <2>3, <2>4 DEF ContractKept
<1> QED BY <1>1, InputsAreTyped, PTL

(* In every state, the figures of a dashboard follow from the events of its   *)
(* tenant, in any order, and none is shown that one of them hides: apply and  *)
(* build_dashboard of services/reporting-insights.                            *)
THEOREM FiguresDoAgree == AllSpec => []FiguresAgree
<1>1. InputInv => FiguresAgree
  <2> SUFFICES ASSUME InputInv
               PROVE  FiguresAgree
    OBVIOUS
  <2>1. ASSUME topic = "dashboard"
        PROVE  AreEvents(input)
    BY <2>1 DEF InputInv
  <2>2. Cards
    BY <2>1, IntegrationCardsMatchEvents DEF Cards, OnEvents
  <2>3. Orders
    BY <2>1, OrderChangesLatenessAlone DEF Orders, OnEvents
  <2>4. Funnels
    BY <2>1, FunnelsDoAgree DEF Funnels, OnEvents
  <2>5. Hidden
    BY <2>1, RestrictedCodesHide DEF Hidden
  <2>6. Health
    BY WorstHealthIsShown DEF InputInv, ImpactsAre, Health
  <2> QED BY <2>2, <2>3, <2>4, <2>5, <2>6 DEF FiguresAgree
<1> QED BY <1>1, InputsAreTyped, PTL

(* In every state, masking hides what identifies, loses no entry, and may be  *)
(* repeated: mask_sensitive_data of packages/security.                        *)
THEOREM MaskingDoesHold == AllSpec => []MaskingHolds
<1>1. InputInv => MaskingHolds
  <2> SUFFICES ASSUME InputInv
               PROVE  MaskingHolds
    OBVIOUS
  <2>1. ASSUME topic = "payload"
        PROVE  IsTree(input)
    BY <2>1 DEF InputInv
  <2>2. EntriesStay
    BY <2>1, EntriesAreKept DEF EntriesStay, OnPayload
  <2>3. MaskedTwice
    BY <2>1, MaskingMayBeRepeated DEF MaskedTwice, OnPayload
  <2>4. Masks
    BY <2>1, MaskedPayloadsAreAccepted DEF Masks, OnPayload
  <2> QED BY <2>2, <2>3, <2>4 DEF MaskingHolds
<1> QED BY <1>1, InputsAreTyped, PTL

(* In every state, gates, masking and telemetry agree on what may be shown:   *)
(* the gates and telemetry of packages/observability and the masking of       *)
(* packages/security.                                                         *)
THEOREM GatesDoAgree == AllSpec => []GatesAgree
<1>1. InputInv => GatesAgree
  <2> SUFFICES ASSUME InputInv
               PROVE  GatesAgree
    OBVIOUS
  <2>1. StaysAccepted
    <3>1. TextOf({}, {}) \in TextValues /\ MaskText(TextOf({}, {})) = TextOf({}, {})
      BY DEF TextOf, TextValues, MaskText
    <3>2. topic = "payload" => IsTree(input)
      BY DEF InputInv
    <3> QED BY <3>1, <3>2, AcceptedPayloadsStayAccepted DEF StaysAccepted
  <2>2. KeyLists
    BY KeyListsDoAgree DEF InputInv, KeyLists
  <2>3. Capabilities
    BY CatalogIsMinimal DEF Capabilities
  <2>4. ASSUME topic = "attributes"
        PROVE  IsAttributes(input) /\ Len(input) + Len(Context) <= MaxEntries
    BY <2>4 DEF InputInv, AttributesFit
  <2>5. Contexts
    BY <2>4, SpansCarryTheirContext, GateInputsAssumption DEF Contexts
  <2> QED BY <2>1, <2>2, <2>3, <2>5 DEF GatesAgree
<1> QED BY <1>1, InputsAreTyped, PTL
=============================================================================
