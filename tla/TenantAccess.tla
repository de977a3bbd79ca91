------------------------------- MODULE TenantAccess -------------------------------
(***************************************************************************)
(* Tenants and authorisation of services/identity-tenant with the trusted  *)
(* context of packages/security: a bearer token is verified and resolved   *)
(* to an active tenant of the catalog, the subject made of it is           *)
(* authorised for an operation on a resource, and its context is sent to   *)
(* other services as gRPC metadata or attributes of an event and read back *)
(* there.                                                                  *)
(*                                                                         *)
(* Texts are members of Ids with the blanks around them gone.  What the    *)
(* rules tell apart is whether the digits in a text number 11 or 14, as    *)
(* those of a document, and whether a text has a character that only a     *)
(* scope of a token may have.  A catalog maps tenants to status and tier.  *)
(***************************************************************************)
EXTENDS Integers, Sequences, FiniteSets

CONSTANTS
    Ids,            \* texts of tenants, clients, scopes, roles and requests
    DocumentLike,   \* those with 11 or 14 digits
    ScopeOnly,      \* those with a character outside _AUTHORIZATION_TEXT_PATTERN
    TrustedKeys, Issuer, Audience, RequiredScopes, Skew,
    MaxTokens,      \* 64 in _MAX_AUTHORIZATION_TOKENS and _MAX_CONTEXT_TOKENS
    NoId            \* absence of a text

ASSUME SkewAssumption == Skew \in Nat

Tiers == {"bridge", "silo"}

TenantEntries == [status : {"active", "suspended"}, tier : Tiers]

-----------------------------------------------------------------------------
(* OperatorContext: platform operators see the catalog, tenants' own do not *)
PlatformOperator(id) == [id |-> id, authorized |-> TRUE, catalog |-> TRUE]
TenantOperator(id) == [id |-> id, authorized |-> TRUE, catalog |-> FALSE]

MayUseCatalog(operator) == operator.authorized /\ operator.catalog

Tenant(status, tier) ==
    [status |-> status, tier |-> IF tier = NoId THEN "bridge" ELSE tier]

(* CreateTenantUseCase and save_unique; a refused tenant leaves the catalog as it is *)
Create(catalog, operator, id, status, tier) ==
    IF MayUseCatalog(operator) /\ id \notin DOMAIN catalog
    THEN [t \in DOMAIN catalog \cup {id} |->
            IF t = id THEN Tenant(status, tier) ELSE catalog[t]]
    ELSE catalog

(* GetTenantUseCase *)
MayReadTenant(catalog, operator, id, trusted) ==
    /\ operator.authorized
    /\ IF trusted = NoId THEN operator.catalog ELSE trusted = id
    /\ id \in DOMAIN catalog

-----------------------------------------------------------------------------
HeaderHolds(token) ==
    token.signed /\ token.algorithm = "RS256" /\ token.key \in TrustedKeys

NotExpired(token, now) == token.expires > now - Skew

(* _validate_temporal_claims *)
InTime(token, now) ==
    /\ NotExpired(token, now)
    /\ token.expires >= token.issued
    /\ token.issued <= now + Skew
    /\ token.notBefore # NoId =>
        token.notBefore <= token.expires /\ token.notBefore <= now + Skew

(* LocalM2MTokenVerifier.verify *)
Verified(token, now) ==
    /\ HeaderHolds(token)
    /\ token.issuer = Issuer
    /\ token.audience = Audience
    /\ InTime(token, now)
    /\ token.scopes # {}
    /\ token.subject = token.client
    /\ RequiredScopes \subseteq token.scopes

TierOfToken(token, catalog) == token.tier

(* The tier is the catalog's, whatever the token says *)
TierFor(token, catalog) == catalog[token.tenant].tier

(* ResolveM2MTenantContextUseCase *)
MayResolve(token, payloadTenant, catalog, now) ==
    /\ Verified(token, now)
    /\ payloadTenant \in {NoId, token.tenant}
    /\ MayReadTenant(catalog, TenantOperator(token.client), token.tenant, token.tenant)
    /\ catalog[token.tenant].status = "active"

(* AuthorizationSubject.from_resolved_tenant_context, when IsSubject *)
SubjectOf(token, catalog, roles) ==
    [id |-> token.subject, tenant |-> token.tenant, tier |-> TierFor(token, catalog),
     scopes |-> token.scopes, roles |-> roles, client |-> token.client, principal |-> "m2m"]

Subjects ==
    [id : Ids, tenant : Ids, tier : Tiers, scopes : SUBSET Ids, roles : SUBSET Ids,
     client : Ids \cup {NoId}, principal : {"m2m", "human", "platform"}]

TextsOf(subject) == {subject.id, subject.tenant, subject.client} \ {NoId}

IsSubject(subject) ==
    /\ (TextsOf(subject) \cup subject.scopes \cup subject.roles) \cap ScopeOnly = {}
    /\ subject.scopes # {}
    /\ Cardinality(subject.scopes) <= MaxTokens
    /\ Cardinality(subject.roles) <= MaxTokens
    /\ subject.tier \in Tiers

-----------------------------------------------------------------------------
(* DEFAULT_AUTHORIZATION_OPERATION_REGISTRY *)
Requirement(scope, roles) == [scopes |-> {scope}, roles |-> roles]

Registry ==
    [submit |-> Requirement("proposal:submit", {"service-client"}),
     decision |-> Requirement("decision:read", {}),
     catalog |-> Requirement("tenant:admin", {"tenant-admin"})]

(* AuthorizationPolicy.authorize, for an operation of the registry *)
Granted(subject, operation, resourceTenant) ==
    /\ operation \in DOMAIN Registry
    /\ subject.tenant = resourceTenant
    /\ Registry[operation].scopes \subseteq subject.scopes
    /\ Registry[operation].roles \subseteq subject.roles

-----------------------------------------------------------------------------
(* TrustedContext and PropagatedContext of a subject and of the request it is *)
(* about: no text may hold as many digits as a document                       *)
IsContext(subject, request) ==
    /\ IsSubject(subject)
    /\ (TextsOf(subject) \cup {request.correlation, request.id})
            \cap (DocumentLike \cup ScopeOnly) = {}

Entry(key, value) == [key |-> key, value |-> value]

EntryIf(holds, entry) == IF holds THEN <<entry>> ELSE <<>>

ContextEntries(subject, request) ==
    <<Entry("correlation", request.correlation), Entry("request", request.id),
      Entry("tenant", subject.tenant), Entry("tier", subject.tier),
      Entry("subject", subject.id), Entry("principal", subject.principal),
      Entry("scopes", subject.scopes)>>

(* context_to_grpc_metadata; context_to_cloudevent_attributes differs in the *)
(* names of the keys and in the idempotency key                              *)
Encode(subject, request) ==
    ContextEntries(subject, request)
    \o EntryIf(subject.client # NoId, Entry("client", subject.client))
    \o EntryIf(subject.roles # {}, Entry("roles", subject.roles))

RequiredKeys ==
    {"correlation", "request", "tenant", "tier", "subject", "principal", "scopes"}

ContextKeys == RequiredKeys \cup {"client", "roles"}

(* _SENSITIVE_METADATA_KEYS and _is_sensitive_key *)
ForbiddenKeys == {"authorization", "token", "payload"}

KeysOf(entries) == {entries[i].key : i \in DOMAIN entries}

CountOf(entries, key) == Cardinality({i \in DOMAIN entries : entries[i].key = key})

(* _metadata_to_mapping and the required entries of context_from_grpc_metadata: *)
(* entries of others are passed over, and no key of the context comes twice     *)
Readable(entries) ==
    /\ KeysOf(entries) \cap ForbiddenKeys = {}
    /\ RequiredKeys \subseteq KeysOf(entries)
    /\ \A key \in ContextKeys : CountOf(entries, key) <= 1

ValueOf(entries, key, default) ==
    IF key \in KeysOf(entries)
    THEN entries[CHOOSE i \in DOMAIN entries : entries[i].key = key].value
    ELSE default

(* context_from_grpc_metadata, cloudevent_context_from_attributes *)
Decode(entries) ==
    [id |-> ValueOf(entries, "subject", NoId), tenant |-> ValueOf(entries, "tenant", NoId),
     tier |-> ValueOf(entries, "tier", NoId), scopes |-> ValueOf(entries, "scopes", {}),
     roles |-> ValueOf(entries, "roles", {}), client |-> ValueOf(entries, "client", NoId),
     principal |-> ValueOf(entries, "principal", NoId)]

RequestOf(entries) ==
    [correlation |-> ValueOf(entries, "correlation", NoId), id |-> ValueOf(entries, "request", NoId)]

(* authorization_subject_from_grpc_metadata, with ensure_expected_tenant *)
MayReceive(entries, expected) ==
    /\ Readable(entries)
    /\ IsContext(Decode(entries), RequestOf(entries))
    /\ expected \in {NoId, Decode(entries).tenant}

-----------------------------------------------------------------------------
(* What another service reads from a context that was sent, whatever unrelated *)
(* metadata came along, is the subject that was authorised: there it is        *)
(* granted exactly what it was granted here, roles left out when empty or not. *)
ContextsArrive(subject, request, others) ==
    /\ IsContext(subject, request)
    /\ KeysOf(others) \cap (ContextKeys \cup ForbiddenKeys) = {}
    =>
        LET entries == Encode(subject, request) \o others
        IN /\ MayReceive(entries, subject.tenant)
           /\ Decode(entries) = subject
           /\ \A operation \in DOMAIN Registry, tenant \in Ids :
                Granted(Decode(entries), operation, tenant) = Granted(subject, operation, tenant)

(* gRPC metadata that names a part of the context a second time, before or      *)
(* after, is never read: no value can take the place of the sender's. The       *)
(* attributes of an event are a mapping that is read without such a check, so   *)
(* this is not about them.                                                      *)
NothingReplaced(subject, request, others) ==
    KeysOf(others) \cap KeysOf(Encode(subject, request)) # {} =>
        /\ ~MayReceive(others \o Encode(subject, request), NoId)
        /\ ~MayReceive(Encode(subject, request) \o others, NoId)

(* A grant made from a token is for the token's own tenant, active in the      *)
(* catalog and in the tier the catalog gives it, while the token, give or take *)
(* the clocks' skew, is valid from the latest of its starts to its end.        *)
GrantsAreBacked(token, payloadTenant, roles, catalog, now, operation, resourceTenant) ==
    LET subject == SubjectOf(token, catalog, roles)
    IN /\ MayResolve(token, payloadTenant, catalog, now)
       /\ IsSubject(subject)
       /\ Granted(subject, operation, resourceTenant)
       => /\ resourceTenant = token.tenant
          /\ catalog[resourceTenant] = [status |-> "active", tier |-> subject.tier]
          /\ now + Skew >= token.issued /\ now - Skew < token.expires
          /\ token.notBefore # NoId => token.notBefore \in 0..(now + Skew)
          /\ Registry[operation].scopes \subseteq token.scopes

(* An operator of one tenant reads that tenant alone, and adds none: only the *)
(* platform's operators see the catalog.                                      *)
TenantsStayApart(catalog, id, read, trusted) ==
    /\ MayReadTenant(catalog, TenantOperator(id), read, trusted) => read = trusted
    /\ \A status \in {"active", "suspended"}, tier \in Tiers \cup {NoId} :
        /\ Create(catalog, TenantOperator(id), read, status, tier) = catalog
        /\ \A tenant \in DOMAIN catalog :
            Create(catalog, PlatformOperator(id), read, status, tier)[tenant] = catalog[tenant]

(* What the stories say: an authenticated and authorised context, with the     *)
(* identifiers its observability context was given, goes into the metadata of  *)
(* a call.  Identifiers are random hexadecimal (token_hex, uuid4), so some     *)
(* happen to hold 11 or 14 decimal digits.                                     *)
AuthorizedCanSend(token, payloadTenant, roles, catalog, now, operation, resourceTenant, request) ==
    LET subject == SubjectOf(token, catalog, roles)
    IN MayResolve(token, payloadTenant, catalog, now) /\ IsSubject(subject)
            /\ Granted(subject, operation, resourceTenant)
       => IsContext(subject, request)
=============================================================================
