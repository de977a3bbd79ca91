------------------------------- MODULE ReasonCodes -------------------------------
(***************************************************************************)
(* The content of a reason code catalog of services/decision and the two   *)
(* questions asked of it: does it hold what a policy refers to             *)
(* (validate_policy_rules), and may another content take its place without *)
(* a new version (_has_incompatible_change).                               *)
(*                                                                         *)
(* Texts stand for the wording of a code or factor towards the outside;    *)
(* internal descriptions and severities are not compared by the code.      *)
(***************************************************************************)

CONSTANTS
    Codes,     \* codes of reasons
    Factors,   \* ids of explainable factors
    Outcomes,  \* outcomes of a rule of a policy
    Texts      \* titles, external descriptions and audiences

(* ReasonCode and ExplainableFactor *)
Reasons ==
    [outcome : Outcomes, active : BOOLEAN, factors : (SUBSET Factors) \ {{}}, text : Texts]

FactorTexts == [text : Texts, required : BOOLEAN]

Maps(keys, values) == UNION {[some -> values] : some \in (SUBSET keys) \ {{}}}

(* reason_codes and explainable_factors, both with unique keys and not empty; *)
(* every reference to a factor is to one of the catalog.                      *)
Contents ==
    {content \in [reasons : Maps(Codes, Reasons), factors : Maps(Factors, FactorTexts)] :
        \A code \in DOMAIN content.reasons :
            content.reasons[code].factors \subseteq DOMAIN content.factors}

(* is_semantically_compatible_with of every code, and the same of factors *)
Extends(old, new) ==
    /\ DOMAIN old \subseteq DOMAIN new
    /\ \A key \in DOMAIN old : new[key] = old[key]

ReasonsKept(old, new) == Extends(old.reasons, new.reasons)

(* New factors are optional. *)
FactorsKept(old, new) ==
    /\ Extends(old.factors, new.factors)
    /\ \A factor \in DOMAIN new.factors \ DOMAIN old.factors : ~new.factors[factor].required

Compatible(old, new) == ReasonsKept(old, new) /\ FactorsKept(old, new)

(* A rule, or the fallback that rejects, refers to codes for its outcome. *)
References == [outcome : Outcomes, code : Codes]

Known(content, reference) == reference.code \in DOMAIN content.reasons

(* validate_policy_rules for one reference *)
Answers(content, reference) ==
    /\ Known(content, reference)
    /\ content.reasons[reference.code].active
    /\ content.reasons[reference.code].outcome = reference.outcome

(* _factor_refs_for_reason_codes *)
FactorsOf(content, codes) == UNION {content.reasons[code].factors : code \in codes}
=============================================================================
