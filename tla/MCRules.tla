--------------------------------- MODULE MCRules ---------------------------------
(***************************************************************************)
(* What RuleInputs and ExposureInputs pick from: values on both sides of   *)
(* every test.                                                             *)
(***************************************************************************)
EXTENDS ExposureInputs

-----------------------------------------------------------------------------
Test(field, op, value) == [field |-> field, op |-> op, value |-> value]

Rule(test, outcome, codes) == [test |-> test, outcome |-> outcome, codes |-> codes]

MCRulePool ==
    {Rule(Test("income", "gte", 1), Approve, {"a"}),
     Rule(Test("amount", "lte", 2), Approve, {"a"}),
     Rule(Test("income", "lte", 0), Reject, {"r", "s"}),
     Rule(Test("term", "exists", 0), Reject, {"s"}),
     Rule(Test("income", "exists", 1), Adjust, {"w"}),
     Rule(Test("installments", "eq", 1), Adjust, {"w"})}

MCCriterionPool == {Test("income", "gte", 1), Test("term", "exists", 0)}

Limit(field, op, value) == [type |-> [field |-> field, op |-> op], value |-> value]

MCLimitPool ==
    {Limit("amount", "lte", 2), Limit("amount", "lte", 1), Limit("amount", "gte", 2),
     Limit("installments", "lte", 1), Limit("term", "gte", 1)}

MCFallbacks ==
    {[action |-> AskData, codes |-> {}], [action |-> Unable, codes |-> {}],
     [action |-> "reject_by_policy", codes |-> {"r"}]}

MCValues ==
    {[amount |-> amount, installments |-> installments, term |-> term, income |-> income] :
        amount \in {None, 1, 3}, installments \in {None, 1, 2}, term \in {None, 1},
        income \in {None, 0, 1}}

Reason(outcome, factor) ==
    [outcome |-> outcome, active |-> TRUE, factors |-> {factor}, text |-> "t"]

MCCatalog ==
    [reasons |-> [a |-> Reason(Approve, "f"), r |-> Reason(Reject, "f"),
                  s |-> Reason(Reject, "g"), w |-> Reason(Adjust, "f")],
     factors |-> [f |-> [text |-> "t", required |-> TRUE],
                  g |-> [text |-> "t", required |-> FALSE]]]

(* Few limits and values, so that cases without issues are among them *)
MCSimulatedLimits == {Limit("amount", "lte", 2), Limit("amount", "gte", 2)}

MCSimulatedValues == {v \in MCValues : v.installments = 1 /\ v.term = 1}

-----------------------------------------------------------------------------
Item(class, adapter, requirement, timeout, attempts, cost, fallback) ==
    [class |-> class, adapter |-> adapter, requirement |-> requirement, timeout |-> timeout,
     attempts |-> attempts, cost |-> cost, fallback |-> fallback]

MCConfigurations ==
    {Item(class, adapter, requirement, 1000, 1, 1, fallback) :
        class \in Classes, adapter \in AdapterIds, requirement \in {"required", "optional"},
        fallback \in {"fail_closed", "skip_optional"}}

(* Adapters allowed for the classes, and also registered to run *)
MCAllowed == {<<class, "m">> : class \in Classes}

(* One job with every sequence of answers, or two with up to two attempts each *)
MCItems ==
    {{Item("kyc", "m", "required", timeout, 3, 1000000, "fail_closed")} :
        timeout \in {50, 300, 120000}}
    \cup {{Item("kyc", "m", "required", 300, attempts, 2, fallback),
           Item("bureau", "m", requirement, 1000, 2, 0, "fail_closed")} :
            attempts \in 1..2, fallback \in FallbackStrategies,
            requirement \in {"required", "conditional"}}

MCAnswers(items) ==
    IF Cardinality(items) = 1 THEN [ClassesOf(items) -> [1..3 -> AdapterAnswers]]
    ELSE [ClassesOf(items) -> [1..2 -> {"completed", "not_found", "failed", "late", "denied"}]]

MCExecutions ==
    UNION {{[items |-> items, answers |-> answers] : answers \in MCAnswers(items)} :
               items \in MCItems}

-----------------------------------------------------------------------------
MCToken(client, scopes, tenant, issued, expires, notBefore) ==
    [signed |-> TRUE, algorithm |-> "RS256", key |-> "k", issuer |-> "i", audience |-> "a",
     subject |-> client, client |-> client, tenant |-> tenant, tier |-> "bridge",
     scopes |-> scopes, issued |-> issued, expires |-> expires, notBefore |-> notBefore]

MCFaults(token) ==
    {token, [token EXCEPT !.signed = FALSE], [token EXCEPT !.algorithm = "none"],
     [token EXCEPT !.key = "other"], [token EXCEPT !.issuer = "other"],
     [token EXCEPT !.audience = "other"], [token EXCEPT !.subject = "other"]}

MCScopes == {{"proposal:submit"}, {"decision:read", "tenant:admin"}, {"decision:read", "a~b"}}

MCRoles == {{}, {"service-client"}, {"service-client", "tenant-admin"}}

MCCatalogs ==
    {[t1 |-> Tenant("active", "silo"), t2 |-> Tenant("suspended", None)],
     [t1 |-> Tenant("active", None), t2 |-> Tenant("active", "silo")]}

(* Every order of the three times of a token and the clock *)
MCTokens ==
    UNION {MCFaults(MCToken(client, scopes, tenant, issued, expires, notBefore)) :
        issued \in 0..2, expires \in 1..3, notBefore \in {None, 1, 3},
        client \in {"c", "d11"}, scopes \in MCScopes, tenant \in {"t1", "t2"}}

MCPayloadTenants == {None, "t1"}

MCSubjects ==
    [id : {"c", "d11"}, tenant : {"t1"}, tier : {"silo"}, scopes : MCScopes, roles : MCRoles,
     client : {None, "c"}, principal : {"m2m"}]

MCRequests == [correlation : {"q"}, id : {"q", "q14"}]

MCEntries ==
    [key : {"elsewhere", "tenant", "client", "authorization"}, value : {"t2"}]

-----------------------------------------------------------------------------
MCMost == [participants |-> 2, receivables |-> 2, events |-> 2, consents |-> 1, documents |-> 1]

BodyOf(person, product) ==
    [schema_version |-> "word", external_proposal_id |-> "reference", person_type |-> person,
     product_type |-> product, channel |-> "word"]

Terms == [amount |-> "large", currency |-> "word", down_payment |-> "small"]

Person == [document_type |-> "CPF", document |-> "cpf", name |-> "phrase"]
Company == [document_type |-> "CNPJ", document |-> "cnpj", legal_name |-> "phrase"]

MCParticipant(ref, role) ==
    [participant_ref |-> ref, role |-> role, person_type |-> "PF", document_type |-> "CPF",
     document |-> "cpf", name |-> "phrase"]

MCReceivable(id) ==
    [external_receivable_id |-> id, payer_ref |-> "reference", face_value |-> "small",
     due_date |-> "date", document_number |-> "phrase"]

(* A payload of each product *)
MCPayloads ==
    {[body |-> <<BodyOf("PF", "personal_credit")>>, requested_terms |-> <<Terms>>,
      borrower |-> <<Person>>, personal_credit |-> <<[occupation |-> "phrase"]>>,
      participants |-> <<MCParticipant("reference", "guarantor")>>,
      callback |-> <<[callback_profile_ref |-> "reference"]>>,
      events |-> <<[event |-> "reference"], [event |-> "other"]>>],
     [body |-> <<BodyOf("PJ", "receivables")>>, requested_terms |-> <<Terms>>,
      borrower |-> <<Company>>,
      participants |-> <<MCParticipant("reference", "payer"), MCParticipant("other", "merchant")>>,
      receivables |-> <<MCReceivable("reference"), MCReceivable("other")>>],
     [body |-> <<BodyOf("PF", "bnpl")>>, requested_terms |-> <<Terms>>, borrower |-> <<Person>>,
      bnpl |-> <<[merchant_reference |-> "reference", order_reference |-> "other"]>>,
      provided_data |-> <<<<>>>>, contact |-> <<[email |-> "email"]>>,
      risk_context |-> <<<<>>>>, geo |-> <<[country |-> "word"]>>],
     [body |-> <<BodyOf("PJ", "business_credit")>>, requested_terms |-> <<Terms>>,
      borrower |-> <<Company>>, business_credit |-> <<<<>>>>,
      consents |-> <<[subject_ref |-> "reference", purpose |-> "word", source |-> "word"]>>,
      decision_options |-> <<[execution_mode |-> "word", review_strategy |-> "word",
                              fallback_action |-> "word"]>>]}

MCFieldValues ==
    {"reference", "other", "padded", "word", "date", "cpf", "cpf_dotted", "cnpj", "email",
     "phrase", "zero", "small", "large", "true", "PF", "PJ", "CPF", "payer", "merchant", "bnpl"}

-----------------------------------------------------------------------------
BusinessEvent(type, status, tenant, day, at, codes) ==
    [type |-> type, status |-> status, tenant |-> tenant, tier |-> "bridge", product |-> "p",
     day |-> day, channel |-> None, at |-> at, processed |-> at + 1, codes |-> codes,
     class |-> None, adapter |-> None, estimated |-> 0, actual |-> 0, latency |-> None,
     errors |-> 0]

IntegrationEvent(adapter, day, at, actual, latency) ==
    [BusinessEvent("integration", "succeeded", "t1", day, at, {}) EXCEPT
        !.class = "kyc", !.adapter = adapter, !.actual = actual, !.latency = latency,
        !.errors = 1, !.processed = 6]

MCEvents ==
    {IntegrationEvent("m", day, at, 2, latency) :
        day \in {1, 2}, at \in {1, 4}, latency \in {None, 3, 10}}
    \cup {IntegrationEvent("n", 2, at, 2, latency) : at \in {1, 4}, latency \in {3, 10}}
    \cup {BusinessEvent("decision", status, tenant, 1, 2, codes) :
            status \in {"approved", "declined"}, tenant \in {"t1", "t2"}, codes \in {{"risk_a"}, {"risk_score"}}}
    \cup {BusinessEvent("proposal", status, "t1", 1, 1, {}) : status \in {"received", "approved"}}

MCImpact(tenant, component, status, message, incident) ==
    [tenant |-> tenant, component |-> component, status |-> status, message |-> message,
     incidents |-> {incident}]

MCImpacts ==
    {MCImpact(tenant, "api", status, message, status) :
        tenant \in {"t1", "t2"}, status \in {"operational", "degraded", "unavailable"},
        message \in {1, 2}}

MCDashboards == [1..3 -> MCEvents]

-----------------------------------------------------------------------------
MCNumerals == [n \in 2..8 |-> <<"1", "2", "3", "4", "5", "6", "7", "8">>[n]]

MCKeys ==
    {Key(words) : words \in {<<>>, <<"note">>, <<"note", "2">>, <<"cpf">>, <<"income">>,
        <<"payload">>, <<"prompt", "version">>, <<"payload", "digest">>, <<"event", "id">>,
        <<"tenant", "ref">>}}

MCNoisy ==
    {[Key(words) EXCEPT !.noisy = TRUE] :
        words \in {<<"note">>, <<"note", "2">>, <<"prompt", "version">>}}

MCCapitals == {[Key(<<"cpf">>) EXCEPT !.style = "upper"]}

MCTexts ==
    {TextOf(shows, {}) :
        shows \in {{}, {"cpf", "phone"}, {"digest", "run"}, {"hash", "run"}, {"glued"}}}
    \cup {TextOf({"email", "credential"}, {<<"token">>})}

MCSimple ==
    MCTexts \cup {Number({"cpf"}), Bytes, Back, Other, Omitted}

(* A container with branches, each a tree that has its key at its root *)
TreeOf(key, container, branches) ==
    [path \in {<<>>} \cup UNION {{<<i>> \o p : p \in DOMAIN branches[i]} : i \in DOMAIN branches} |->
        IF path = <<>> THEN Node(key, container) ELSE branches[path[1]][Tail(path)]]

Leaf(key, value) == TreeOf(key, value, <<>>)

MCListIn(key) ==
    TreeOf(key, List,
           <<Leaf(NoKey, TextOf({"cpf"}, {})), TreeOf(NoKey, List, <<Leaf(NoKey, Mapping)>>)>>)

MCBranches(key) ==
    {Leaf(key, value) : value \in MCSimple}
        \cup {MCListIn(key)}
        \cup {TreeOf(key, Mapping, <<Leaf(Key(words), Bytes)>>) : words \in {<<>>, <<"note">>, <<"cpf">>}}

MCFieldKeys == MCKeys \cup MCNoisy \cup MCCapitals

(* Two fields of any kind, or four whose keys become equal *)
MCTrees ==
    UNION {{TreeOf(NoKey, Mapping, <<one, Leaf(keys[2], two)>>) :
                one \in MCBranches(keys[1]), two \in {TextOf({}, {}), Bytes}} :
            keys \in {k \in MCFieldKeys \X MCFieldKeys : k[1] # k[2]}}
    \cup {TreeOf(NoKey, Mapping, [i \in 1..4 |-> Leaf(keys[i], TextOf({}, {}))]) :
            keys \in {k \in [1..4 -> {key \in MCKeys \cup MCNoisy :
                                        key.words \in {<<"note">>, <<"note", "2">>}}] :
                        \A i, j \in 1..4 : k[i] = k[j] => i = j}}

-----------------------------------------------------------------------------
MCWords ==
    {"access", "api", "authorization", "bearer", "cpf", "decision", "error", "id", "key", "output",
     "payload", "prompt", "raw", "senha", "stack", "token", "trace", "version"}

MCWordings ==
    UNION {{words, Append(words, "id")} : words \in UNION {[1..n -> MCWords] : n \in 1..2}}

MCKeyPool ==
    {[words |-> words, style |-> style, noisy |-> FALSE] :
        words \in MCWordings, style \in {"snake", "upper"}}
    \cup {[words |-> words, style |-> "camel", noisy |-> FALSE] :
            words \in {w \in MCWordings : Len(w) > 1}}

MCVocabulary ==
    MCWords \cup {"1", "2", "3", "4", "5", "6", "7", "8"}
        \cup {"channel", "correlation", "digest", "email", "event", "income", "isolation", "note",
              "omitted", "ref", "tenant", "tier"}

MCContext ==
    <<Node(Key(<<"correlation", "id">>), TextOf({"hash", "run"}, {})),
      Node(Key(<<"tenant", "id">>), TextOf({"hash"}, {})),
      Node(Key(<<"tenant", "isolation", "tier">>), TextOf({"digest"}, {}))>>

MCAttributeKeys ==
    {[Key(words) EXCEPT !.noisy = noisy] :
        words \in {<<"tenant", "id">>, <<"correlation", "id">>, <<"tenant", "isolation", "tier">>,
                   <<"channel">>, <<"email">>},
        noisy \in BOOLEAN}

MCAttributes ==
    {<<Node(keys[1], TextOf({}, {})), Node(keys[2], Bytes), Node(keys[3], Number({}))>> :
        keys \in {k \in [1..3 -> MCAttributeKeys] : \A i, j \in 1..3 : k[i] = k[j] => i = j}}

MCAllowedAttributes == {Key(<<"channel">>)}

=============================================================================
