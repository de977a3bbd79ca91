------------------------------ MODULE PayloadMasking ------------------------------
(***************************************************************************)
(* mask_sensitive_data of packages/security (masking.py): what is left of  *)
(* a payload before it is logged, traced or audited.                       *)
(*                                                                         *)
(* A payload is a tree: a path leads to a node through the places of the   *)
(* entries or items on its way, and a node is a key and a value.  A        *)
(* key is the words it is made of, how they are written ("snake",          *)
(* "camel" or "upper") and whether it also has characters that are not     *)
(* printed.  A fragment is a run of whole words.  A text is the set of     *)
(* what stands in it: identifiers that are words of their own ("cpf",      *)
(* "cnpj", "email", "phone"), the value after a secret's name              *)
(* ("credential"), digits of a document inside a longer word ("glued"), a  *)
(* short run of digits ("run"), a SHA-256 ("digest") or a hash that is an  *)
(* id ("hash"); and the terms among its words.  Where a container stands   *)
(* in itself, its value is Back.                                           *)
(***************************************************************************)
EXTENDS Integers, Sequences, FiniteSets

CONSTANTS
    MaxMaskingDepth,  \* 12 in _MAX_MASKING_DEPTH
    MaxEntries,       \* bound of the entries of one mapping
    Words,            \* what keys and terms are made of
    Numeral           \* the words "2", "3" and so on of numbered keys

Key(words) == [words |-> words, style |-> "snake", noisy |-> FALSE]

NoKey == Key(<<>>)

TextOf(shows, words) == [kind |-> "text", shows |-> shows, words |-> words]
Omitted == [kind |-> "omitted", as |-> "OMITIDO"]
FinancialOmitted == [kind |-> "omitted", as |-> "DADO_FINANCEIRO_OMITIDO"]
Number(shows) == [kind |-> "number", shows |-> shows]
Bytes == [kind |-> "bytes"]
Other == [kind |-> "set"]
Back == [kind |-> "back"]
List == [kind |-> "list"]
Mapping == [kind |-> "mapping"]

Containers == {List, Mapping}

Node(key, value) == [key |-> key, value |-> value]

Shown == {"cpf", "cnpj", "email", "phone", "credential", "glued", "run", "digest", "hash"}

NodeKeys ==
    {key \in [words : Seq(Words), style : {"snake", "camel", "upper"}, noisy : BOOLEAN] :
        /\ key.words = <<>> => key.style = "snake"
        /\ key.style = "camel" => Len(key.words) > 1}

(* Nothing else stands in a text that is a digest, but for runs of its digits *)
TextValues ==
    {text \in [kind : {"text"}, shows : SUBSET Shown, words : SUBSET Seq(Words)] :
        "digest" \in text.shows => text.shows \subseteq {"digest", "run"}}

NodeValues ==
    {Omitted, FinancialOmitted, Bytes, Other, Back} \cup Containers
        \cup [kind : {"number"}, shows : SUBSET Shown] \cup TextValues

ASSUME MaskingAssumption ==
    /\ MaxMaskingDepth \in Nat \ {0}
    /\ MaxEntries \in Nat
    /\ {"omitted", "key"} \subseteq Words
    /\ Numeral \in [2..MaxEntries + 1 -> Words]
    /\ \A m, n \in 2..MaxEntries + 1 : Numeral[m] = Numeral[n] => m = n

-----------------------------------------------------------------------------
SecretFragments ==
    {<<"authorization">>, <<"credential">>, <<"password">>, <<"senha">>, <<"secret">>,
     <<"token">>, <<"cookie">>}

SecretSuffixes == {<<"api", "key">>, <<"apikey">>, <<"private", "key">>, <<"public", "key">>}

PayloadFragments ==
    {<<"headers">>, <<"payload">>, <<"request", "body">>, <<"response", "body">>, <<"prompt">>,
     <<"completion">>, <<"embedding">>, <<"document">>, <<"documento">>, <<"imagem">>,
     <<"image">>, <<"biometria">>, <<"attachment">>, <<"anexo">>}

PayloadKeys ==
    {<<"output">>} \cup {<<of, "output">> : of \in {"raw", "model", "ai", "llm", "provider"}}

IdentifierFragments ==
    {<<"cpf">>, <<"cnpj">>, <<"email">>, <<"e", "mail">>, <<"phone">>, <<"telefone">>}

FinancialFragments ==
    {<<"renda">>, <<"income">>, <<"salary">>, <<"faturamento">>, <<"revenue">>, <<"financial">>,
     <<"financeiro">>, <<"credit", "limit">>}

FinancialKeys == {<<"limite", "credito">>, <<"dados", "financeiros">>}

SafeReferences ==
    {<<of, "fingerprint">> : of \in {"prompt", "output", "completion"}}
        \cup {<<of, "digest">> : of \in {"payload", "body", "manifest"}}

SafeTechnical == {<<"prompt", "version">>}

(* _normalize_key: a capital starts a word, so capitals alone are words of    *)
(* one letter, which no list has                                              *)
Normalized(key) == IF key.style = "upper" THEN <<>> ELSE key.words

Among(words, fragments) ==
    \E m, n \in 0..Len(words) : SubSeq(words, m + 1, n) \in fragments

IsSecret(words) ==
    \/ Among(words, SecretFragments)
    \/ \E m \in 0..Len(words) : SubSeq(words, m + 1, Len(words)) \in SecretSuffixes

IsOmitted(words) ==
    \/ IsSecret(words)
    \/ words \in PayloadKeys \/ Among(words, PayloadFragments)
    \/ Among(words, IdentifierFragments)

IsFinancial(words) == words \in FinancialKeys \/ Among(words, FinancialFragments)

-----------------------------------------------------------------------------
(* _safe_mapping_key *)
SafeKey(key) ==
    IF key.words = <<>> THEN Key(<<"omitted", "key">>) ELSE [key EXCEPT !.noisy = FALSE]

Numbered(key, n) == [key EXCEPT !.words = Append(@, Numeral[n])]

KeyAsIs(key, used) == key

(* _deduplicated_key *)
Deduplicated(key, used) ==
    IF key \notin used THEN key
    ELSE LET n == CHOOSE n \in 2..Cardinality(used) + 2 :
                    /\ Numbered(key, n) \notin used
                    /\ \A m \in 2..n - 1 : Numbered(key, m) \in used
         IN Numbered(key, n)

(* The keys of masked_mapping, which is filled from the first entry to the last *)
OutputKeys(keys) ==
    LET output[i \in DOMAIN keys] ==
            Deduplicated(SafeKey(keys[i]), {output[j] : j \in {k \in DOMAIN keys : k < i}})
    IN output

(* mask_text *)
MaskText(text) == [text EXCEPT !.shows = @ \ {"cpf", "cnpj", "email", "phone", "credential"}]

(* _safe_reference_value *)
SafeReference(value) ==
    IF value.kind = "text" /\ "digest" \in value.shows THEN value ELSE Omitted

(* _safe_technical_value: the brackets of an omitted value are delimiters *)
SafeTechnicalValue(value) ==
    CASE value.kind = "text" -> value
      [] value.kind = "omitted" -> TextOf({}, {})
      [] OTHER -> Omitted

(* _mask_sensitive_data of one value; what a container holds is masked by itself *)
MaskedValue(value, key, depth) ==
    LET words == Normalized(key) IN
    CASE depth > MaxMaskingDepth -> Omitted
      [] depth <= MaxMaskingDepth /\ words \in SafeReferences -> SafeReference(value)
      [] depth <= MaxMaskingDepth /\ words \in SafeTechnical -> SafeTechnicalValue(value)
      [] OTHER ->
            IF IsOmitted(words) THEN Omitted
            ELSE IF IsFinancial(words) THEN FinancialOmitted
            ELSE CASE value.kind \in {"bytes", "back"} -> Omitted
                   [] value.kind = "text" -> MaskText(value)
                   [] OTHER -> value

-----------------------------------------------------------------------------
Parent(path) == SubSeq(path, 1, Len(path) - 1)

Place(path) == path[Len(path)]

IsEntry(payload, path) == path # <<>> /\ payload[Parent(path)].value = Mapping

(* The keys of the entries of a mapping, by their places *)
KeysUnder(payload, parent) ==
    [i \in {Place(path) : path \in {p \in DOMAIN payload \ {<<>>} : Parent(p) = parent}} |->
        payload[Append(parent, i)].key]

(* A tree whose inner nodes are containers; what is no entry of a mapping has  *)
(* no key, and two entries of one have two keys, printed or not.              *)
IsTree(payload) ==
    /\ payload \in [DOMAIN payload -> [key : NodeKeys, value : NodeValues]]
    /\ IsFiniteSet(DOMAIN payload)
    /\ DOMAIN payload \subseteq Seq(Nat)
    /\ <<>> \in DOMAIN payload
    /\ \A path \in DOMAIN payload \ {<<>>} :
        /\ Parent(path) \in DOMAIN payload
        /\ payload[Parent(path)].value \in Containers
    /\ \A path \in DOMAIN payload :
        /\ ~IsEntry(payload, path) => payload[path].key = NoKey
        /\ Cardinality(DOMAIN KeysUnder(payload, path)) <= MaxEntries
        /\ \A other \in DOMAIN payload :
            /\ IsEntry(payload, path) /\ other # <<>> /\ Parent(other) = Parent(path)
            /\ payload[path].key = payload[other].key /\ ~payload[path].key.noisy
            => path = other

MaskedAt(payload, path) ==
    MaskedValue(payload[path].value,
                IF IsEntry(payload, path) THEN SafeKey(payload[path].key) ELSE NoKey, Len(path))

(* The paths on which no container was left out *)
KeptPaths(payload) ==
    {path \in DOMAIN payload :
        \A n \in 0..Len(path) - 1 : MaskedAt(payload, SubSeq(path, 1, n)) \in Containers}

(* mask_sensitive_data *)
MaskSensitiveData(payload) ==
    [path \in KeptPaths(payload) |->
        Node(IF IsEntry(payload, path) THEN OutputKeys(KeysUnder(payload, Parent(path)))[Place(path)]
             ELSE NoKey,
             MaskedAt(payload, path))]

-----------------------------------------------------------------------------
(* Masking loses no entry of a mapping that stays: keys that become equal     *)
(* when what is not printed is removed get numbers that no other key has.     *)
EntriesKept(payload) ==
    LET masked == MaskSensitiveData(payload) IN
    \A path, other \in {p \in DOMAIN payload \ {<<>>} :
                            /\ Parent(p) \in DOMAIN masked
                            /\ masked[Parent(p)].value = Mapping} :
        /\ path \in DOMAIN masked
        /\ Parent(path) = Parent(other) /\ masked[path].key = masked[other].key => path = other

(* build_structured_log masks its extra fields, then the whole event.  The    *)
(* second time a field is as it was or left out, under the same key: only the *)
(* first of several safe technical keys stays one, and under it what had been *)
(* left out is then a text.                                                   *)
TwiceOmitsMore(payload) ==
    LET once == MaskSensitiveData(payload)
        twice == MaskSensitiveData(once)
    IN /\ DOMAIN twice \subseteq DOMAIN once
       /\ \A path \in DOMAIN twice :
            /\ twice[path].key = once[path].key
            /\ \/ twice[path].value \in {once[path].value, Omitted, FinancialOmitted}
               \/ once[path].key.words \in SafeTechnical /\ once[path].value = Omitted
=============================================================================
