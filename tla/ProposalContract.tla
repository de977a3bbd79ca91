------------------------------ MODULE ProposalContract ------------------------------
(***************************************************************************)
(* The contract of the proposals services/proposal-intake takes: which     *)
(* payloads ValidateAndNormalizeProposal accepts, what of them the         *)
(* canonical proposal keeps, and the fingerprint by which a repetition     *)
(* under the same idempotency key is told from another proposal.           *)
(*                                                                         *)
(* A payload maps each structure it holds to the sequence of its objects   *)
(* (one, but for the lists), and an object maps its fields to values.  A   *)
(* value is the name of a class of values no check tells apart; an object  *)
(* of another type than the contract's is one with a field of that name.   *)
(* `participants` and `callback` may be null: that is their absence.       *)
(***************************************************************************)
EXTENDS Integers, Sequences, FiniteSets

CONSTANTS
    MaxOf,          \* the most objects of each list, by its name
    CriticalRoles,  \* _CRITICAL_PARTICIPANT_ROLES
    OtherRoles      \* the rest of _PARTICIPANT_ROLES

Roles == CriticalRoles \cup OtherRoles

-----------------------------------------------------------------------------
(* Classes of values.  A padded text is one with blanks around it, "word" one *)
(* that the field's own rule names (an enumeration, a constant, the letters   *)
(* of a state), a CPF or CNPJ one with valid digits.  No text is too long.    *)
PublicTexts == {"reference", "other", "padded", "word", "date"}
CPFs == {"cpf", "cpf_dotted", "cpf_of_other"}
CNPJs == {"cnpj", "cnpj_dotted"}
Documents == CPFs \cup CNPJs
Text == PublicTexts \cup Documents \cup {"email", "instant", "secret", "phrase"}

(* A role is none of the texts that other fields hold *)
ASSUME RolesAssumption == "payer" \in CriticalRoles /\ Roles \cap Text = {}

(* _require_text strips; normalize_document keeps the digits *)
Stripped(value) == IF value = "padded" THEN "reference" ELSE value
Digits(value) ==
    IF value = "cpf_dotted" THEN "cpf" ELSE IF value = "cnpj_dotted" THEN "cnpj" ELSE value

(* _require_public_identifier: no 10 to 15 digits, e-mail or word of a secret *)
Identifier == PublicTexts

(* Whole numbers: "small" up to 10 000, "large" up to 10^12, "huge" above *)
MoneyOrZero == {"zero", "small", "large"}
Money == MoneyOrZero \ {"zero"}
CashFlow == MoneyOrZero \cup {"negative"}
Positive == {"small", "large", "huge"}
NonNegative == Positive \cup {"zero"}
BasisPoints == {"zero", "small"}
WaitTime == {"small"}
Bool == {"true", "false"}
Enum == {"word"}
IsoDate == {"date"}
IsoInstant == {"instant"}
Email == {"email"}
Phone == Text \ {"word"}
Anything == Text \cup NonNegative \cup Bool

AtMostAs(lesser, greater) ==
    \/ lesser = "zero"
    \/ lesser = greater
    \/ lesser = "small" /\ greater = "large"

-----------------------------------------------------------------------------
(* Objects of the contract: the fields an object must have, and the values of *)
(* each field it may have                                                      *)
Each(fields, values) == [field \in fields |-> values]

one ++ other ==
    [field \in DOMAIN one \cup DOMAIN other |->
        IF field \in DOMAIN one THEN one[field] ELSE other[field]]

Object(required, values) == [required |-> required, values |-> values]

Body ==
    Object({"schema_version", "external_proposal_id", "person_type", "product_type", "channel"},
           Each({"schema_version", "channel"}, Enum)
           ++ Each({"person_type"}, {"PF", "PJ"})
           ++ Each({"product_type"},
                   {"personal_credit", "bnpl", "business_credit", "receivables"})
           ++ Each({"external_proposal_id"}, Identifier))

RequestedTerms ==
    Object({"amount", "currency"},
           Each({"amount"}, Money) ++ Each({"currency"}, Enum)
           ++ Each({"installments"}, Positive) ++ Each({"down_payment"}, MoneyOrZero)
           ++ Each({"first_due_date"}, IsoDate))

(* trade_name is taken unread *)
Borrower ==
    Object({"document_type", "document"},
           Each({"document_type"}, {"CPF", "CNPJ"}) ++ Each({"document"}, Documents)
           ++ Each({"name", "legal_name", "trade_name"}, Anything)
           ++ Each({"birth_date", "foundation_date"}, IsoDate))

(* The document and the names of a participant are read of critical roles only *)
Participant ==
    Object({"participant_ref", "role"},
           Each({"participant_ref"}, Identifier) ++ Each({"role"}, Roles)
           ++ Each({"person_type"}, {"PF", "PJ"}) ++ Each({"document_type"}, {"CPF", "CNPJ"})
           ++ Each({"document", "name", "legal_name"}, Anything)
           ++ Each({"relationship"}, Text) ++ Each({"ownership_percentage"}, BasisPoints)
           ++ Each({"signature_required"}, Bool))

PersonalCredit ==
    Object({}, Each({"employment_type", "occupation", "income_source"}, Text)
               ++ Each({"declared_monthly_income", "declared_monthly_debt"}, MoneyOrZero))

Bnpl ==
    Object({"merchant_reference", "order_reference"},
           Each({"merchant_reference", "order_reference", "delivery_method",
                 "shipping_address_ref"}, Text)
           ++ Each({"cart_items_count"}, Positive))

BusinessCredit ==
    Object({}, Each({"business_activity_code", "requested_collateral"}, Text)
               ++ Each({"declared_monthly_revenue", "declared_monthly_debt"}, MoneyOrZero)
               ++ Each({"company_age_months"}, NonNegative))

(* document_number is taken unread *)
Receivable ==
    Object({"external_receivable_id", "payer_ref", "face_value", "due_date"},
           Each({"external_receivable_id", "payer_ref"}, Identifier)
           ++ Each({"face_value"}, Money) ++ Each({"due_date"}, IsoDate)
           ++ Each({"document_number"}, Anything))

Callback == Object({"callback_profile_ref"}, Each({"callback_profile_ref"}, Identifier))

CallbackEvent == Object({"event"}, Each({"event"}, Identifier))

Consent ==
    Object({"subject_ref", "purpose", "source"},
           Each({"subject_ref", "reference_id"}, Identifier)
           ++ Each({"purpose", "source", "basis"}, Enum)
           ++ Each({"granted_at", "expires_at"}, IsoInstant))

Contact == Object({}, Each({"email"}, Email) ++ Each({"phone"}, Phone))

Financial ==
    Object({}, Each({"declared_monthly_income", "declared_monthly_revenue",
                     "declared_monthly_debt"}, MoneyOrZero)
               ++ Each({"declared_cash_flow"}, CashFlow))

Relationship ==
    Object({}, Each({"relationship_months", "days_past_due_last_12m"}, NonNegative)
               ++ Each({"internal_score_reference"}, Identifier))

Address == Object({}, Each({"country", "state"}, Enum) ++ Each({"postal_code", "city"}, Text))

Employment == Object({}, Each({"employment_type", "occupation", "employer_ref"}, Identifier))

Banking ==
    Object({}, Each({"account_age_months"}, NonNegative) ++ Each({"bank_reference"}, Identifier))

Commerce == Object({}, Each({"merchant_reference", "order_reference"}, Identifier))

DocumentRef ==
    Object({"document_ref", "document_type"},
           Each({"document_ref", "document_type", "issuer"}, Identifier))

RiskContext ==
    Object({}, Each({"ip_address", "user_agent", "device_id", "session_id"}, Text))

Geo == Object({}, Each({"country", "state", "city"}, Text))

Transaction ==
    Object({}, Each({"transaction_reference"}, Identifier) ++ Each({"attempt_number"}, Positive))

Signals ==
    Object({}, Each({"email_age_days", "velocity_24h"}, NonNegative)
               ++ Each({"device_reputation"}, Enum) ++ Each({"billing_shipping_match"}, Bool))

DecisionOptions ==
    Object({"execution_mode", "review_strategy", "fallback_action"},
           Each({"execution_mode", "review_strategy", "fallback_action"}, Enum)
           ++ Each({"max_wait_ms"}, WaitTime))

Contract ==
    [body |-> Body, requested_terms |-> RequestedTerms, borrower |-> Borrower,
     participants |-> Participant, personal_credit |-> PersonalCredit, bnpl |-> Bnpl,
     business_credit |-> BusinessCredit, receivables |-> Receivable, callback |-> Callback,
     events |-> CallbackEvent, consents |-> Consent, provided_data |-> Object({}, <<>>),
     contact |-> Contact, financial |-> Financial, relationship |-> Relationship,
     address |-> Address, employment |-> Employment, banking |-> Banking, commerce |-> Commerce,
     documents |-> DocumentRef, risk_context |-> RiskContext, geo |-> Geo,
     transaction |-> Transaction, customer_provided_signals |-> Signals,
     decision_options |-> DecisionOptions]

Lists == {"participants", "receivables", "events", "consents", "documents"}

ProvidedData ==
    {"contact", "financial", "relationship", "address", "employment", "banking", "commerce",
     "documents"}

(* The structure an object is nested in, which the payload then has too *)
Within(structure) ==
    CASE structure \in ProvidedData -> "provided_data"
      [] structure \in {"geo", "transaction", "customer_provided_signals"} -> "risk_context"
      [] structure = "events" -> "callback"
      [] OTHER -> "body"

Nested(payload) == \A structure \in DOMAIN payload : Within(structure) \in DOMAIN payload

-----------------------------------------------------------------------------
(* _require_mapping: one object, but for the lists *)
IsPayload(payload) ==
    /\ DOMAIN payload \subseteq DOMAIN Contract
    /\ Nested(payload)
    /\ \A structure \in DOMAIN payload \ Lists : DOMAIN payload[structure] = {1}

Objects(payload, structure) ==
    IF structure \in DOMAIN payload THEN payload[structure] ELSE <<>>

One(payload, structure) == payload[structure][1]

(* _reject_unknown_fields, _require_fields and the check of each field *)
Fits(object, type) ==
    /\ DOMAIN object \subseteq DOMAIN type.values
    /\ type.required \subseteq DOMAIN object
    /\ \A field \in DOMAIN object : object[field] \in type.values[field]

Distinct(objects, field) ==
    \A i, j \in DOMAIN objects :
        Stripped(objects[i][field]) = Stripped(objects[j][field]) => i = j

DocumentTypeOf(person) == IF person = "PF" THEN "CPF" ELSE "CNPJ"

(* normalize_document, of the type that the kind of person has, and the name *)
IsIdentified(object, person) ==
    /\ {"document_type", "document"} \subseteq DOMAIN object
    /\ object.document_type = DocumentTypeOf(person)
    /\ object.document \in IF person = "PF" THEN CPFs ELSE CNPJs
    /\ LET name == IF person = "PF" THEN "name" ELSE "legal_name"
       IN name \in DOMAIN object /\ object[name] \in Text

(* _normalize_requested_terms, beyond its fields *)
TermsHold(terms) ==
    "down_payment" \in DOMAIN terms => AtMostAs(terms.down_payment, terms.amount)

(* _require_complete_participant_identity *)
ParticipantsHold(participants) ==
    /\ Distinct(participants, "participant_ref")
    /\ \A i \in DOMAIN participants :
        participants[i].role \in CriticalRoles =>
            /\ "person_type" \in DOMAIN participants[i]
            /\ IsIdentified(participants[i], participants[i].person_type)

PayerRefs(participants) ==
    {Stripped(participants[i].participant_ref) :
        i \in {j \in DOMAIN participants : participants[j].role = "payer"}}

(* _normalize_receivables, beyond the fields of each *)
ReceivablesHold(receivables, participants) ==
    /\ receivables # <<>>
    /\ Distinct(receivables, "external_receivable_id")
    /\ \A i \in DOMAIN receivables :
        Stripped(receivables[i].payer_ref) \in PayerRefs(participants)

Products == {"personal_credit", "bnpl", "business_credit", "receivables"}

(* _normalize_product_data: the product's own data and no other's *)
ProductHolds(payload) ==
    /\ DOMAIN payload \cap Products = {One(payload, "body").product_type}
    /\ "receivables" \in DOMAIN payload =>
        ReceivablesHold(payload.receivables, Objects(payload, "participants"))

(* execute *)
Accepts(payload) ==
    /\ {"body", "requested_terms", "borrower"} \subseteq DOMAIN payload
    /\ \A structure \in DOMAIN payload :
        /\ structure \in Lists => Len(payload[structure]) <= MaxOf[structure]
        /\ \A i \in DOMAIN payload[structure] :
            Fits(payload[structure][i], Contract[structure])
    /\ TermsHold(One(payload, "requested_terms"))
    /\ IsIdentified(One(payload, "borrower"), One(payload, "body").person_type)
    /\ ParticipantsHold(Objects(payload, "participants"))
    /\ ProductHolds(payload)
    /\ Distinct(Objects(payload, "events"), "event")

-----------------------------------------------------------------------------
(* What the canonical proposal keeps of the objects of each structure: none of *)
(* the names and documents of the people, of what they consented to and of the *)
(* data that was provided, whose presence alone is kept                        *)
Discarded == ProvidedData \cup {"provided_data", "consents", "events"}

NotKept(structure) ==
    CASE structure = "borrower" -> DOMAIN Borrower.values \ {"document_type"}
      [] structure = "participants" -> {"document", "name", "legal_name"}
      [] structure = "receivables" -> {"document_number"}
      [] OTHER -> {}

Kept(structure, object) ==
    [field \in DOMAIN object \ NotKept(structure) |-> Stripped(object[field])]

(* A risk context of nothing is the same as none *)
Canonical(payload) ==
    LET structures ==
            {s \in DOMAIN payload \ Discarded :
                ~(s = "participants" /\ payload[s] = <<>>)} \cup {"risk_context"}
    IN [kept |-> [structure \in structures |->
                    IF structure \notin DOMAIN payload THEN <<<<>>>>
                    ELSE [i \in DOMAIN payload[structure] |->
                            Kept(structure, payload[structure][i])]],
        provided |-> DOMAIN payload \cap ProvidedData # {},
        consented |-> Objects(payload, "consents") # <<>>]

OnlyBorrower(payload) ==
    {<<"borrower", One(payload, "borrower").document_type,
       Digits(One(payload, "borrower").document)>>}

(* _sensitive_identity_fingerprints, of the documents' digits; a participant's *)
(* reference goes in as it was written                                         *)
Identities(payload) ==
    LET borrower == One(payload, "borrower")
        participants == Objects(payload, "participants")
    IN {<<"borrower", borrower.document_type, Digits(borrower.document)>>}
       \cup {<<participants[i].participant_ref, participants[i].document_type,
               Digits(participants[i].document)>> :
                i \in {j \in DOMAIN participants : participants[j].role \in CriticalRoles}}

(* _fingerprint_proposal: hashes of different values are taken as different *)
Fingerprint(payload) ==
    [canonical |-> Canonical(payload), identities |-> Identities(payload)]

-----------------------------------------------------------------------------
(* Every receivable of an accepted proposal is owed by one participant with a  *)
(* valid document of its own kind: payer_ref has to lead, through the roles of *)
(* the participants, to a complete identity.                                   *)
PayersAreIdentified(payload) ==
    Accepts(payload) /\ "receivables" \in DOMAIN payload =>
        \A i \in DOMAIN payload.receivables :
            \E j \in DOMAIN payload.participants :
                LET payer == payload.participants[j]
                IN /\ Stripped(payer.participant_ref) = Stripped(payload.receivables[i].payer_ref)
                   /\ payer.role = "payer"
                   /\ payer.person_type = "PF" => payer.document \in CPFs
                   /\ payer.person_type = "PJ" => payer.document \in CNPJs

(* What a canonical proposal keeps holds a document or an e-mail only where the *)
(* contract takes free text: never in a reference, a role or an enumeration     *)
IdentityOnlyInText(payload) ==
    Accepts(payload) =>
        LET kept == Canonical(payload).kept
        IN \A structure \in DOMAIN kept : \A i \in DOMAIN kept[structure] :
            \A field \in DOMAIN kept[structure][i] :
                kept[structure][i][field] \in Documents \cup {"email", "secret"} =>
                    Contract[structure].values[field] = Text

(* Fields that no fingerprint sees: names, what was provided or consented to, *)
(* and the documents of participants whose role is not critical               *)
Unseen(structure, object, field) ==
    \/ structure \in Discarded
    \/ structure = "borrower" /\ field \notin {"document_type", "document"}
    \/ structure = "participants" /\ field \in {"name", "legal_name"}
    \/ structure = "participants" /\ field = "document" /\ object.role \notin CriticalRoles
    \/ structure = "receivables" /\ field = "document_number"

(* The blanks around the reference of a critical participant make a difference *)
Same(structure, object, field, other) ==
    LET value == object[field]
        exact == structure = "participants" /\ field = "participant_ref"
                 /\ object.role \in CriticalRoles
    IN
    \/ value = other
    \/ ~exact /\ field # "document" /\ Stripped(value) = Stripped(other)
    \/ field = "document" /\ Digits(value) = Digits(other)

WithField(object, field, value) ==
    [f \in DOMAIN object \cup {field} |-> IF f = field THEN value ELSE object[f]]

(* Two accepted proposals that differ in one field have one fingerprint exactly *)
(* when the field is one no fingerprint sees or the values mean the same: a     *)
(* repetition is answered from the first, anything else is refused as reuse     *)
(* of the key.                                                                  *)
FingerprintsTellApart(payload, structure, i, field, value) ==
    LET object == payload[structure][i]
        other == [payload EXCEPT ![structure][i] = WithField(object, field, value)]
    IN Accepts(payload) /\ Accepts(other) =>
        (Fingerprint(payload) = Fingerprint(other)
            <=> (\/ Unseen(structure, object, field)
                 \/ field \in DOMAIN object /\ Same(structure, object, field, value)))
=============================================================================
