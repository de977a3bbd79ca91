# Verification of creditos

TLA+ models of the services of this repository, the TLC configurations that check
them on small instances, and proofs that TLAPS checks for every value of the
constants. The models are translated from the code under `src/`; documents are
quoted only where the code turned out to differ from them.

Check one model with `tlc -workers 2 -config X.cfg MCModule`, one set of proofs
with `tlapm ModuleProofs.tla`.

## 1. Inventory

The repository is a set of Python services. A service is an `application/service.py`
with the operations, entities that validate themselves, and adapters that keep
all state in memory. There are no processes between the parts: a service is called by
several threads, and what they share are the adapters. **Each repository has a
lock of its own** (an `RLock`, or a `Condition` in the execution store), and with one
exception (`ProposalIntakeService`) no lock spans two repository calls; some audits are published inside the lock of a repository. So an operation
is a sequence of short critical sections, and everything that is hard about these
services is in what other threads do between them, and in what an operation that
fails half way leaves behind.

| Component | State | Operations | What is hard | What makes it correct |
|---|---|---|---|---|
| integration: executions | executions and reservations per idempotency key; dead letters with their reprocess history; used reprocess keys; staged and published events | `start_integration_execution`, `reprocess_integration_dlq` | waiting on a reservation, release on every error path, five writes that are not one transaction, replays that finish the publication of another call | one execution per key, no leaked reservation, history agrees with executions, events in order and delivered by the call that executed |
| integration: plans and dispatcher | configured classes; a run's futures | `configure_integration_class`, `build_integration_plan`, `dispatch` | attempts, backoff, timeouts that are evaluated after the adapter has returned, which failures fail an execution | a plan covers what is required; every attempt is counted, paid and recorded with its delay; it fails closed |
| integration: webhooks | deliveries; retry schedules; dead letters | `dispatch_webhook_notification`, `process_due_webhook_retries`, `reprocess_webhook_dlq` | workers that list the same due schedule, delivery saved before its schedule, answers that are lost | a delivery that was heard to be accepted is not repeated, a failed delivery is scheduled or dead, never lost |
| integration: configurations | configurations of classes and webhooks with idempotency records | `configure_integration_class`, `configure_webhook`, `disable_webhook_configuration` | read, save, audit and undo with no lock between them | what the last accepted call asked for is visible; a replay finds its configuration |
| proposal-intake: contract | none | `validate_and_normalize_proposal`, `_fingerprint_proposal` | ten structures whose rules refer to each other; what of a person is kept | payers are identified; documents are in no canonical proposal; a fingerprint tells apart what it should |
| proposal-intake | canonical proposals by external id; submissions by client and key; initial statuses; outbox | `validate_and_normalize`, `submit_idempotent`, `submit_with_initial_status_and_outbox` | two entry points, only one of which takes the lock; compensation by four deletions | a submission keeps its proposal; status and event exist exactly with it; what was accepted stays |
| decision: policies | policies by id and version; simulations; decisions by proposal | draft, update, version, simulate, publish, decide | read-validate-write over three repositories, revisions given back by compensations, audits before and after commits | never two applicable policies; published content was simulated, audited, final; accepted changes stay |
| decision: evaluation | none | `evaluate_policy_case`, `CreditDecision.create`, `to_explainable_response`, simulations | rules, criteria, limits and fallbacks combined; terms adjusted to limits; codes that are not shown | approved is within policy; rejected has grounds; what is asked for once is not asked for again |
| decision: reason codes | catalogs by version | create, update, version, and the references of policies | compensations by revision number | accepted changes stay; versions have two numbers; references stay valid |
| decision: decisions and queries | decisions by proposal; public statuses; audit trail | `execute_credit_decision`, `get_public_credit_decision_by_proposal`, explanations | two reads with a decision between them; audit published under the lock | one decision per proposal; an answer was true; evidence comes first |
| automated-review | agent configurations; reserved ids; executions; evidence | configuration calls, `execute_consultative_review` | a configuration pinned over a long call, a reserved id that nothing releases whatever raises after it, evidence before its execution is audited | one owner of an id; a review keeps its configuration; evidence agrees with it |
| audit-evidence | hash chain of events per tenant, checkpoints, objects in write-once storage, records of exports | register, checkpoint, verify, export, reconcile | late events inside a closed window; object written but its record not; answers lost | a checkpoint verifies until a late event; alterations are noticed; records reconcile |
| reporting-insights | projections per tenant and their applied events | `record_event`, `list_tenant_snapshots`, `build_dashboard` | duplicates, order, a projection read outside the lock, figures combined over projections | an event counts once, in every counter; figures follow from events |
| identity-tenant, packages: security | tenants by id | `create_tenant`, token verification, authorisation, propagation of a context | validity with a skew, tenants and tiers named in three places, repeated metadata | a grant is for what was signed; no context gains anything on its way |
| packages: masking and gates | none | `mask_sensitive_data`, gates, attributes of spans and metrics | lists of keys kept in three places, masking applied twice | what identifies is hidden, nothing else is lost, and the lists agree |
| packages: contracts, scripts, service-template | none | constants, static checks, skeleton | - | not modelled |

Interactions: services call their own repositories and publishers (*calls*); audit
publishers run as *callbacks*, some inside a repository's critical section before it
commits (`before_commit` of publication, simulation, decision, review and evidence), some after the
commit with a compensation; waiting callers of one idempotency key share the
*condition variable* of the execution store; the decision service reads reason code
catalogs and integration results as inputs. `PROJECT.json` lists every component with its
sources, and under `hazards` the lines where each of these difficulties bites.

## 2. Modules

| Module | What it is |
|---|---|
| `IntegrationExecution` | the two operations on executions, stores and publication |
| `IdempotentClaim` | abstract specification of executions and of webhook jobs: claim a key, settle it or abandon it |
| `IntegrationJobs` | plans, attempts, costs, dead letters and outcome of the jobs of an execution |
| `WebhookDelivery` | notifications, retries and reprocesses of webhooks |
| `ConfigurationChanges` | configurations of classes and webhooks, their idempotency keys and compensations |
| `ProposalSubmission` | the three entry points of proposal-intake |
| `ProposalContract` | which payloads are accepted, what is kept of them, their fingerprint |
| `PolicyWindows` | applicability windows: two overlap checks and the selection |
| `PolicyLifecycle` | the six operations on policies; extends `PolicyWindows` |
| `ReasonCodes`, `ReasonCodeCatalogs` | the content of a catalog; its versions and their compensations |
| `PolicyEvaluation` | the evaluator, the decision and the explanation made of it; extends `ReasonCodes` |
| `PolicySimulations` | simulated cases and what a publication asks of them; extends `PolicyEvaluation` |
| `DecisionQueries` | decisions and the queries of clients |
| `WriteOnce` | abstract specification of decisions and of evidence: a name is bound to one value for ever |
| `ReviewOutput`, `ReviewExecution` | what becomes of an output of the reviewer; configurations and reviews; the second extends the first |
| `AuditChain` | the chain, checkpoints, exports and their records |
| `BusinessProjection` | events recorded once and snapshots copied without the lock |
| `DashboardFigures` | what events add to a projection and what a dashboard makes of projections |
| `TenantAccess` | tokens, tenants, authorisation, propagation of a context |
| `PayloadMasking`, `ObservabilityGates` | masking; gates and attributes; the second extends the first |
| `RuleInputs` | picks one input of the rules that change no state, and states what they make of it; extends `PolicySimulations`, `IntegrationJobs`, `TenantAccess`, `ProposalContract` |
| `ExposureInputs` | the same for what is shown outside: dashboards, masking, gates and attributes; extends `RuleInputs`, `DashboardFigures`, `ObservabilityGates` |
| `MC*` | constants, symmetry and compositions for TLC; `MCRules` has the pools of `RuleInputs` and `ExposureInputs` |
| `IntegrationExecutionProofs`, `WebhookDeliveryProofs`, `AuditChainProofs`, `ReviewExecutionProofs` | theorems about the module of that name |
| `ProposalSubmissionProofs`, `PolicyLifecycleProofs`, `ServicesProofs` | theorems about `ProposalSubmission`; `PolicyLifecycle` and `PolicyWindows`; the four components of `MCServices`. They extend the composition that the run checks (`MCIntake`, `MCPolicyChanges`, `MCServices`), so its properties are theorems too |
| `RulesProofs` | theorems about the rules that change no state, and about `ExposureInputs` (`AllSpec`, which picks every input) |

All state machines have the same form. A caller (thread) has a place `pc[c]` in its
call and locals (`call[c]`, or `todo[c]` and `current[c]`); an action is one critical section of one repository, or
one call of something outside (dispatcher, publisher), together with the pure computation that
follows it up to the next. Actions are named for what they do and say in a
comment which call of the code they are. `Proceed(c)` is the disjunction of the steps inside
a call. Errors are steps: a fault that is enabled in the constant `Faults`
makes a call of a port raise, and the step after it is the code's `except` path.
Hashes (fingerprints, execution ids, dead-letter ids) are the tuples of the parts that are hashed,
which is what a collision-free hash is. Every repository is keyed by tenant
first, so one tenant is modelled, except where tenants meet (`BusinessProjection`, `TenantAccess`, `DashboardFigures`).

The rules that change no state (`PolicyEvaluation`, `PolicySimulations`, `IntegrationJobs`, `ProposalContract`,
`TenantAccess`, `DashboardFigures`, `ReviewOutput`, `PayloadMasking`, `ObservabilityGates`) are operators. Texts, documents
and keys are classes of values that the checks of the code tell apart; what a check looks for in a text is the set of things that stand in it.

### 2.1 Executions of integrations

| Model | Code |
|---|---|
| `executions`, `reservations` | the two maps of `InMemoryIntegrationExecutionStore` |
| `letters`, `history`, `reprocessKeys` | `InMemoryIntegrationDlqStore`: records, each record's reprocess history, `_reprocess_keys` |
| `staged`, `published`, `delivered` | staged events of the event store, the marks, and what the publisher received (observation) |
| `Reserve*`, `Woken` | `reserve_or_get` and its condition: take the key, find the execution, conflict, wait |
| `CheckPasses/Fails` | preflight of a start; eligibility of a dead letter on the record as it was read |
| `Dispatch`, `DispatchRaises` | the dispatcher, as one step with any outcome of each job and the dead letters it leaves |
| `Save`, `SaveFails` | `IntegrationExecution.create` and `save` |
| `MarkReprocessed`, `MarkFails` | `mark_reprocessed` |
| `Stage`, `ListUnpublished`, `Publish*`, `ConfirmPublished`, `EndPublication` | staging and the publication loop |
| `Fail` | `release_reservation` where `reservation_acquired` and the error leaves the call |

Abstractions: only dead letters of started executions are reprocessed (`ReprocessDepth = 1`: a
dead letter of a reprocess goes through the same code with a longer id); events of
one kind and execution are one event; the publisher is always configured;
`max_attempts >= 2`, so that a retryable failure leaves a dead letter after its attempts; audit
records of refusals are left out, they change nothing that a later step reads.

`IdempotentClaim` is the promise to a client: a key is free, claimed by one fingerprint, or
settled with one result for that fingerprint for ever. The mapping is
`claimed <- reservations`, `settled <- executions`.

### 2.2 Submission of proposals

`proposals`, `submissions`, `statuses`, `outbox` are the four repositories; `lock` is
`_initial_status_outbox_lock`. `Normalize` is `validate_and_normalize`; `Submit` begins one of the other
two. `FindNothing/FindReplay/FindConflict`, `SaveProposal/SaveDuplicate`, `SubmitOnce`, `Discard`,
`Withdraw` are `submit_idempotent`; `Lock`, `Compare*`, `RecordStatus`, `PrepareEvent`, `RecordingFails`
and `Undo*` are what `submit_with_initial_status_and_outbox` adds: the four deletions of
the compensation are four steps, and one that raises skips the rest.

### 2.3 Life of policies

`policies`, `simulations`, `decisions` are the three repositories. `audited` (publications
whose audit intent was published) and `accepted` (the newest policy a caller was told of) are
observations. `SaveDraft/SaveUpdate/SaveSimulation` make a change visible before its audit,
`*AuditFails` is the compensation (`delete`, `restore_if_current`, deletion of the
simulation), `ChangeAudited/SimulationAudited` the success. `CheckEvidence` reads the simulation of
a publication, `CommitPublication` and `CommitDecision` are the commits under the repository's lock with their
audit callback. `PolicyWindows` has `AppliesTo`, `Conflict` (the check of a publication) and the selection of a decision.

Abstractions: a content is a model value with a window (product, channels, start,
end); all contents use one reason code catalog; the outcome of a validation is a fault
("validation"), the outcome of an evaluation a choice; ids of decisions are fresh; calls
that fail before their first write and read nothing others change are left out. Instants are naturals up to `MaxInstant`,
which only the missing end of a window is mapped to.

### 2.4 Delivery of webhooks

| Model | Code |
|---|---|
| `jobs`, `reservations`, `events`, `schedules` | the maps of `InMemoryWebhookDeliveryStore`; `jobs` is also its index of idempotency keys, which belong to one job each |
| `letters` | `InMemoryWebhookDeliveryDlqStore`: the jobs that reprocessed each dead letter |
| `active` | the configurations with status active; `SaveConfiguration` changes it at any moment |
| `Notify`, `ProcessRetries`, `Reprocess` | the beginning of the three calls: what they list or read is `todo[c]` |
| `Reserve`, `Replay` | `reserve_or_get`; that neither is enabled for a reserved job is the wait |
| `TakeSchedule`, `SkipSchedule`, `Consume` | the loop of `process_due_webhook_retries` and `consume_retry_schedule` |
| `Deliver`, `DispatchRaises` | `dispatch` with what the receiver did and what the dispatcher heard of it (`Answered`, `Unheard`); a dispatch that raises, and `release` |
| `Save`, `SaveSchedule`, `SaveLetter`, `MarkReprocessed` | the writes after a dispatch, in their order |

`accepted` (how often the receiver took a job), `unanswered` (how often the dispatcher did not hear of it) and `raced` (jobs with a schedule that two calls had at the
same time) are observations. A job is accepted more than once for two reasons. `dispatch` takes a timeout or an exception of the adapter for a temporary
failure and retries it, although the receiver may have the delivery (`answer_lost`): `AcceptedOnce` allows one more acceptance for each answer
that was lost. And `list_due_retry_schedules` takes nothing, so two overlapping calls of `process_due_webhook_retries` deliver one attempt twice and overwrite each
other's result: `raced` is the condition of three properties. What they say is that nothing *else* does: no replay, reprocess, notification or failing dispatch, and
that a delivery is not repeated once the dispatcher heard that it was accepted (`HeardIsLast`, a part of `DeliveriesFinal`). A job whose answers were all lost may end as a dead letter
although the receiver has it. Each attempt and each retry carries the key of its job in the header `X-CreditOS-Idempotency-Key` (`ports/webhook_delivery.py:279`), by which a receiver may recognise a
repetition; what receivers do is not modelled.

Abstractions: the clock (any schedule may be due, in any order, so its backoff and jitter are left out); `no_retry` is a configuration
with one attempt; which events a configuration subscribes to and whether it is active are one condition; the attempts of a
configuration do not change; the exceptions an adapter may raise are the outcomes `temporary` and `final`, with or without an acceptance before them; only dead letters
of notifications are reprocessed, as with executions. The reads of job, event and configuration before a retry are
one step: the first two never disappear (`SchedulesKnown`).

### 2.5 Jobs, plans and configurations of integrations

`IntegrationJobs` gives, for the configurations of a tenant and what each adapter answers to each attempt, the plan
(`BuildPlan`, with the invalid and missing classes), the jobs with their attempts (`_execute_job`), the
records of costs, schedules with their delays and dead letters and the outcome (`FailsExecution`). It is the inside of the step
`Dispatch` of `IntegrationExecution`, which takes any outcome of each job. Jobs run at the same time but share nothing.
A schedule records a backoff (`Backoff`: `Doubled` up to the timeout) and a delay, which is the backoff and a jitter that a hash draws from `JitterWindow`; nothing waits for it, the loop of `_execute_job` goes on
with the next attempt. `DelaysGrow` is about these records: backoffs never shrink and no delay exceeds the timeout and 250 ms, while
delays grow only up to the first backoff that the timeout cuts. With a timeout of 300, a delay of up to 374 may come before one of 300.

`ConfigurationChanges` has a step for every access of a call: look up the idempotency record, read, save, publish the audit, compensate, remember
the key. `mixed` (configurations whose calls overlapped) and `shared` (keys used by two calls at once) are
observations and the conditions of its properties: with overlapping calls the compensation puts a stale copy back, which the code does not prevent.

### 2.6 Contract of a proposal

`ProposalContract` reads the contract as a table: for each structure the fields that are required and what classes of values
each may have, then the rules between structures (products and their blocks, terms, roles, payers of receivables). `Canonical` is what
is kept; `IsPayload` the shape that `_require_mapping` asks for; `Identities` the documents whose fingerprints go into the fingerprint of a proposal. Free text may hold a document, which
`Identity` says and the code allows; documents of participants in no critical role are in no fingerprint.

### 2.7 Evaluation, catalogs and decisions

`PolicyEvaluation!Evaluate` is `evaluate_policy_case`: issues of criteria and limits, triggered rules, and the four ways an evaluation ends. `Adjusted`
and `SatisfyLimits` are the terms of a decision, `VisibleFactors` the explanation. The values of a case are naturals or absent, as in the
code; a test that expects a text or a truth value of an ordinary field can never pass, and is left out. `ReasonCodeCatalogs` has the compensations of drafts and updates by revision; `undone` (versions of which a change was taken back)
is the condition of its properties. `DecisionQueries` keeps the lock of the decisions while an audit is published (`publish`, `commit`).

### 2.8 Reviews

`configs`, `reserved`, `executions`, `evidence` are the repositories of automated-review. `Resolve` finds the one published version that matches, `Reserve` the
id, `Execute` is the executor with any output, `CommitEvidence` and `CommitExecution` the nested commits, each with its audit. `ReviewRaises` is a call that ends between its reservation and the first lock, where nothing catches what is raised: the service has no executor
(`executor_missing`), or the evidence of an accepted result is refused (`evidence_refused`; for its ids are texts, which are not modelled, any evidence may be). `raised` observes the ids
in which this happened or an audit raised: these stay reserved for ever, and after the audit of the execution they have evidence without one. `ReviewOutput` decides
what of an output is accepted: items with the flaw each check finds in them.

### 2.9 Evidence

`chain` is the tenant's hash chain; a hash is the sequence of contents up to an event. `checkpoints`, `objects` and `exports` are the other stores. Audit events
of the module's own operations go on the same chain (`AppendVerdict`), where they may fall in a window that is being closed. `storage_raises`, `answer_lost` and
`records_raise` are the faults. `now` is the clock; retention and closing of windows depend on it.

### 2.10 Projections and the dashboard

`BusinessProjection` splits `apply` and `snapshot` into the fields they write and copy (`Stages`), since the second holds no lock. `overlapped` observes
the snapshots that were copied while an event was applied; copies are made in the order in which the projections were created. `DashboardFigures` computes what a dashboard shows of the projections and when it is refused: an event adds a bag of
figures to the counters of its projection (`Counted`, `Sums`), a projection is made of the events of its key one after the other (`ProjectionOf`), and a card is a sum over projections (`Total`).

### 2.11 Access, masking and gates

`TenantAccess` follows a token: `Verified` (signature, claims, times with the skew), the tenant and tier that are granted, `Granted` (the scopes and roles an operation requires), and the encoding and decoding of a context as metadata
or attributes of an event. That nothing takes the place of what the sender sent (`NothingReplaced`) is about metadata only: attributes are a mapping, and of two keys that differ in the spaces around them one is taken without a check (`context.py:453-472`).
`PayloadMasking` masks a payload, which is a function from paths to nodes with a key and a value: the recursive calls of the code are one operator at every path (`MaskedAt`), below
a container that was left out there is nothing (`KeptPaths`), and the loop over a mapping that gives equal keys their numbers is a recursive function over its places (`OutputKeys`). A set of Python is a single
value, because masking returns it as it is. `ObservabilityGates` has the scan of a payload, again by paths (`Findings`), the three exposures,
the catalog of capabilities and the attributes of spans and metrics.

## 3. Properties and runs

| Run | Constants | Shows |
|---|---|---|
| `executions` | 2 callers, 2 keys, 3 calls, 1 job that completes or fails, every fault; fair | `ReservationsOwned`; `StoresAgree`; `EventsDelivered`; `ImplementsClaim`; `CallsReturn` |
| `intake` | 3 callers, 2 scopes, 2 external ids, 4 calls: either all entry points with one body, saves and deletions may raise, or locked calls with two bodies | `SubmissionsBacked`; `LockedAllOrNothing` |
| `policies` | 2 callers, 2 versions, 6 calls: either all operations on 2 overlapping contents, where audits without compensation fail, or changes of one content where all audits may fail | `SelectionUnambiguous`; `AuditedBeforeVisible`; `SteadyChangesKept`; `SteadyPublishedWasSimulated` |
| `webhooks` | 2 callers, 1 event, 1 configuration with 3 attempts, 1 reprocess key, 5 calls, dispatches may raise, one answer for each job may be lost; fair | `DeliveriesKept`; `AcceptedOnce`; `MarkedWasAccepted`; `DeliveriesFinal`; `ImplementsClaim`; `CallsReturn` |
| `audit` | 2 callers, 2 event ids, 4 events, 1 window, 3 exports, a clock of 3 instants, every fault | `CheckpointsVerify`; `TamperEvident`; `ExportsTruthful`; `ImplementsWriteOnce` |
| `reviews` | 2 callers, 2 versions, 2 contents of which one has a scope, 2 reviews, 3 outputs, every audit may fail, the executor may be missing and evidence refused; fair | `TypeOK`; `ReviewsPinned`; `ResultsAgree`; `ReservationsOwned`; `ConfigurationsKept`; `ReservedIsReviewed` |
| `rules` | the inputs of `RuleInputs` and `ExposureInputs` (`AllSpec`), one state each | `EvaluationsAgree`; `JobsAccounted`; `AccessBacked`; `ContractKept`; `FiguresAgree`; `MaskingHolds`; `GatesAgree` |
| `services` | 4 components, 2 callers each, 3 or 4 calls | `AnswersWereTrue`; `EvidenceUnderLock`; `ImplementsWriteOnce`; `ConfigurationsReplay`; `CatalogsKept`; `EventsCounted` |

Several properties are conjunctions of named parts, each with its own comment in the module, in `RuleInputs` or in `ExposureInputs`. Every type
invariant is proved; TLC checks that of `reviews` and those of three components of `services` as well.
A configuration that composes (`MCIntake`, `MCPolicyChanges`, `MCServices`) makes one choice at the start and then runs the instance it chose; `MCServices`
puts four components side by side that share no state, so its states are the sum of theirs and not the product.

Why the bounds are enough: a race of these operations is between two calls of one
key (a third caller can only wait or replay); it needs a call to create what is raced for,
hence three calls of executions (start, reprocess, and a replay or competitor), four
of submissions and six of policies (two policies drafted, simulated and published). Two keys distinguish the key
of a start from the key of a reprocess, and a reprocess under the start's key is the fingerprint
conflict. One job per plan is enough because the service only looks at the set of
outcomes; one that completes and one that fails give each status of an execution. Five calls of webhooks are a
notification, two retries, a reprocess and a call that races one of them, and three attempts are a first, a middle and a last one; one lost answer of a job, at any of its attempts, gives both a second acceptance and a dead letter that the receiver has; configurations
and events never meet in a key. A checkpoint, a late event, an export and its repetition
are four events and three requests. Two versions and two reviews are what two editors and two callers can contend for.
The inputs of `rules` hold, for every test of the code, values on both sides and at the boundary: policies of two rules and two limits,
one job with three attempts or two with two, each payload of a product with up to two changes, tokens at every order of its three times and the clock, three events in each of their orders,
three impacts, two keys of any kind or four that become equal. Callers and ids that
nothing orders are symmetric, except in `executions`, `webhooks` and `reviews`, which check liveness.

Each property of a passing run has a mutation of a translated definition that violates it
(`PROJECT.json`, `mutants`): the definition before the original, marked *Mutation*.

### Where the code does something else than its documents say

| Run | Property | What happens |
|---|---|---|
| `intake_window` | `AcceptedIsSubmitted` | a direct call replays a locked submission that is then rolled back |
| `policy_stale` | `PublishedWasSimulated` | a revision number given back by a compensation makes an old simulation evidence for new content |
| `policy_removed` | `PublishedIsFinal` | the compensation of a draft deletes the policy that was published meanwhile |
| `access_sends` | `Sends` | an identifier the system generated has eleven or fourteen digits and is refused as a document |

So `AcceptedIsSubmitted` is guaranteed only where all submissions use one entry point, and
what the parts of `SteadyChangesKept` and `SteadyPublishedWasSimulated` say only where the audits of drafts and updates
do not fail: that is what `Steady` means.
The number that `policy_stale` shows to be reused also lets a compensation put refused content over an accepted change.

Four more properties are stated in the modules, which TLC finds false when they are added to a configuration; they are not
part of the runs:

| Property | What happens |
|---|---|
| `IntegrationExecution!OneTerminalReprocess` | two reprocesses with different keys check the same copy of a dead letter (`service.py:880`, `:907`); both end terminal |
| `IntegrationExecution!PublishedOnce` | a replay that overlaps the first call's publication (`service.py:638`) publishes an event again |
| `PolicyLifecycle!VersionsDistinct` | two drafts of one policy get one version number (`service.py:391`, `:401` of decision) |
| `ReviewExecution!NoEvidenceAfterFailedAudit` | the audit of an execution raises after its evidence was created (`service.py:597` of automated-review) |

Also seen, and stated as what the code does rather than as a fault: a key in capitals (`CPF`, `API_KEY`) is split into letters by `_normalize_key` and not masked, but gates find it (`KeyLists`);
one restricted reason code refuses the whole dashboard of its tenant (`Hidden`); a simulation with a proposal that is approved with changes is never clean (`Simulations`);
a reprocess with the mock adapters repeats the failure (`Reprocesses`). Also seen, and not stated as a property: `mark_reprocessed` that raises after `save` leaves
a stored execution whose events no retry ever stages; the id of a review of 26 to 31 letters, digits, `_` and `-` gives with the prefix `cevid_` an id of evidence that
`_TECHNICAL_REF_SECRET_PATTERN` takes for a secret (`consultative_evidence.py:271-275`, `review_execution.py:20-22`), so a review of that id whose result is accepted raises and the id stays reserved (`service.py:583-592`); a failed optional job gives a reprocess
the status PARTIAL, which counts as terminal (`integration_execution.py:667-693`, `service.py:3061-3065`).

### Fairness

Only `executions`, `webhooks` and `reviews` assume any: weak fairness of `Proceed(c)` or `Continue(c)`, that is, a thread that is inside a call
keeps running, an adapter or executor returns (with some outcome or by raising), and a waiter that was
notified is scheduled. No new call is ever required. Python threads that are not blocked run on, and
`Condition.notify_all` makes every waiter runnable, so nothing stronger is needed
where the number of calls is bounded. An adapter
that never returns is outside this assumption: the code evaluates its timeout only afterwards.

## 4. Proofs

Every theorem is about the specification with arbitrary constants that satisfy the named assumptions of its module: sets of
callers, keys, policies, payloads and so on of any size, any faults and any bound on the calls. Every invariant of a passing run is a
theorem, and so are the action properties and the refinements; liveness is not (below: what is only model-checked). The eight modules hold
96 theorems and the 479 lemmas they rest on; `PROJECT.json` lists sixty, and most of the others are parts of those.

### State machines

- **Executions.** `IInv == TypeOK /\ PhasesConsistent /\ ReservationsOwned`. `ReservationsOwned` alone is not
  inductive: that a call between `reserve` and `save` has acquired its reservation, and that a call after `save` finds its
  execution, are facts about `pc` (`PhaseConsistent`). From it follow `ReservationsAreOwned`,
  `ExecutionsAreFinal` (two calls with one key never both save, although `save` overwrites; no run checks it) and
  `Refinement`: every step is a claim, a settlement, an abandonment or a stutter of `IdempotentClaim`.
  `StoresDoAgree` adds `StoresInv` to it: the history of a dead letter agrees with the executions and the used keys after *each* of the five
  writes, and a call that has marked its record finds the mark (`MarkStands`) until it returns. `EventsAreDelivered` adds `EventsInv`:
  what is staged is fixed at once and never again (`StagingConsistent`), events are marked in their order (`EventOrder`), and what a
  publication loop has left out of its list is marked already, by whichever call (`LoopConsistent`). The last is what makes the
  promise hold when several callers publish the events of one key.
- **Submissions.** `SubmissionsBacked` needs the calls *between* their save and the end of their compensation: such a
  call has its proposal in the store (`OwnersStore`), alone for its external id (`OwnersApart`), and while it
  has not submitted or has rolled back nobody has (`OwnersUnsubmitted`), so its deletion takes the proposal away from no submission. `SubmissionsAreBacked` holds with every entry point and every fault.
  `LockedCallsLeaveNothing` (`AllOrNothing` where every call takes the lock and no deletion raises) and `LockedIsAllOrNothing`, the
  same for the instance of the run, rest on `LockedInv`: one call at a time is between its lock and its return, every external id but its own
  is whole (four records or none), and for its own the place of the call says exactly which of the four are written.
- **Windows.** `ConflictIsSharedPoint`: two windows with a start conflict exactly if a product, a channel and an instant select
  both. This is the fact about half-open intervals and empty channel lists that the next proof rests on.
- **Policies.** `SelectionUnambiguous` follows from `PublishedApart` (published policies do not conflict), which is inductive with
  `TypeOK` and `LocalsSet` (what a call stores without a check is a draft). `DecisionsUnambiguous`,
  `PublicationsAreAudited`, `DecisionsAreFinal` (which no run checks) hold with every fault.
  `SteadyInv` is for where the audits of drafts and updates do not fail, the hypothesis that `policy_stale` and `policy_removed` show to be needed:
  a policy is replaced only by its next revision and not at all once published, so whatever a call or a
  simulation has read is what is stored or has a smaller revision (`ReadsHold`, `EvidenceHolds`). From it `ChangesAreKept`,
  `DecisionsAreExplained`, `PublicationsWereSimulated`, for all operations and all other faults, and
  `RunKeepsChanges`, `RunPublishesSimulated` for the instance of the run.
- **Webhooks.** `NothingLost` and `SchedulesKnown` need what a place says of its delivery (`PlacesConsistent`), that a reserved job is
  new and has one owner (`ReservationsOwned`), and that only later attempts are scheduled (`SchedulesRetry`). The heart of it is
  that `release` forgets only a job that its own call reserved and nobody has saved, so a job once stored stays (`KnownStable`), and
  that the only steps which take a schedule away go on to save its job (`SchedulesStay`). `DeliveriesAreKept`
  holds also where two calls have one schedule; `Refinement` maps reservations to claims and stored jobs to settlements.
  `FinalInv` adds, for jobs whose schedule no two calls had, that one delivery at most is on its way (`HeldOnce`) and the numbers of acceptances,
  less those of which the answer was lost, follow from where the job stands (`Settled`): `AcceptedAgainOnlyIfLost` and `DeliveriesAreFinal`. `MarksWereAccepted` needs no such condition: a
  reprocess is marked by the one call that reserved it (`MarksOwned`).
- **Evidence.** `Inv == TypeOK /\ AllSound /\ ExportsReconcile /\ ChainTruthful`: what a call holds between reading a checkpoint and recording its export is still stored, since objects and checkpoints
  are never replaced. `ExportsAreTruthful` and `EvidenceIsWriteOnce` hold under every fault. `CheckpointsCover` adds that each event is linked to
  the one before it, and that a checkpoint is of an unbroken part of the chain from the first event of its window (true when the chain is read, and after that, since the
  chain only grows at its end). `CheckpointsFailOnlyWhenLate` is then an equivalence: verification fails exactly for the checkpoints whose window got a later
  event. `TamperingIsEvident` goes through the sequence with one event removed, swapped or altered and finds a hash in it that
  cannot be where it is, since a hash covers as many events as come before it.
- **Reviews.** `IInv` has, besides the three properties, that versions only grow by changes at the end of their changelog, so what a call has
  read of one is either still what is stored or shows by its length that it is not (`PlaceConsistent`), that a reserved id has one owner or its call
  raised (`HoldersApart`), and who holds the lock of the executions. `ReviewsArePinned`, `ResultsDoAgree`, `ReservationsAreOwned`
  and the action property `ConfigurationsAreKept` follow, for every output, every failing audit and every call that raises before one.
- **Decisions and queries.** `Inv == TypeOK /\ AllSound /\ EvidencePrecedes /\ LockIsInUse`: `Sound` says what each place of a call knows of its decision, above all that the caller
  in `publish` or `commit` holds the lock and found no decision of its proposal when it took it. From it
  `EvidenceIsUnderLock` and `DecidedOnce`, the refinement of `WriteOnce`. `AnswersWereTrueOnce` adds `WasTrue`: what a query has read stays true, or was
  true at an instant between its two reads, because decisions are only gained.
- **Configurations.** `ConfigurationChanges!IInv`: a call that is alone on its configuration has read what is stored (`LonersKnow`), two calls on one configuration make it
  `mixed` before either writes (`CallsMeet`), and a key that no two calls use is free until its own call remembers it (`KeysAreFree`). `ConfigurationsAreKept` is the step property of the run.
- **Reason codes.** `ReasonCodeCatalogs!IInv`: `Knows` says of a caller that what it read is an earlier revision of what is stored, unless a
  change was taken back. `CatalogsAreKept` has the same condition as the property, so it does not speak of the versions in `undone`.
- **Projections.** `BusinessProjection!IInv`: every counter of a projection is what its records say, except in the projection and for the event that the caller with the lock is applying, where it depends on the
  stage (`CountersFollow`, `RecordsFollow`, `TimesFollow`); a copy that nothing overlapped is of one instant
  (`QuietlyCopied`); an answer has its event or one it repeats, because that was counted before the answer was begun (`EventAnswered`). `EventsAreCounted` follows.

### Rules

What a rule promises is proved for **every** input, of any number of rules, limits, jobs, attempts, fields events, entries or depth; that the properties of the run `rules`
hold in every state of its specification, `AllSpec` of `ExposureInputs` (`EvaluationsDoAgree`, `JobsAreAccounted`, `AccessIsBacked`, `ContractIsKept`,
`FiguresDoAgree`, `MaskingDoesHold`, `GatesDoAgree`), then only needs that what is picked is an input of its kind (`InputInv`). Each of the parts of
these properties rests on a theorem of its own about one operator.

- **Evaluation.** `EvaluationEnds` lists the four ways an evaluation ends, and each theorem goes through them.
  `AdjustmentsAreWithinLimits` rests on the least and greatest of finitely many limits (well-founded induction on naturals at a fixed set),
  `UpdatesChangeNoEvaluation` on `Compatible` keeping what a policy refers to. `FactorsAreOfShownReasons` and `CleanSimulationsAreDecidedByRules` are about explanations and
  about what publishes a policy.
- **Jobs.** `CallsAreAccounted` rests on a bijection between the attempts of a job that did not end it and its retry schedules;
  `FailuresAreForGood`, `ExecutionsFailClosed`, `ReprocessesRepeatFailures` on where the sequence of attempts stops. `DelaysGrowAndEnd` needs that there are at most five attempts
  (`ConstantsOfJobs`, from `validate_max_attempts`).
- **Access.** `GrantsAreOfTheirTokens`, `TenantsAreApart`; `ContextsDoArrive` and `NothingTakesItsPlace` are about metadata with any sequence of other entries before or after those of the context: what has
  other keys leaves every entry of the context where it is found, and what repeats one of its keys makes the whole unreadable.
- **Contract.** `PayersAreKnown` follows roles and references from a receivable to a participant with a document. `KeptIdentifiesInTextOnly` goes through the table of the contract:
  no field that is kept, but for free text, takes a value that identifies. `FingerprintsDoTellApart` is an equivalence for every payload and every change of one field: the
  fingerprint stays the same exactly if the field is one no fingerprint sees, or both values are normalised to the same.

- **Figures.** What a sum over a finite set is cannot be had from the library's induction theorems, which take an operator. The proofs build it: `SumsAre` shows that there is a function on the subsets
  of a set which grows by one value with one element (otherwise there would be a least size without one, `LeastExists`), and that the fold of the model is its value. `FiniteSets` is the
  induction on finite sets without an operator, for a *set* of good subsets. From these: a sum over parts is the sum of the whole (`SumOfParts`), a counter of a projection is the sum of what its events
  add (`ProjectionIs`), a total over projections the sum of what the events of the tenant add (`TotalIs`, `AddsAre`). So `IntegrationCardsMatchEvents` holds however the events are spread over periods, channels and adapters, and
  `OrderChangesLatenessAlone` for every order: the counters and the two last instants of a projection are the same in both, and only `late` depends on which event came first.
  `RestrictedCodesHide` is an equivalence; `FunnelsDoAgree` compares counters of the same events; `WorstHealthIsShown` rests on `WorstExists`.
- **Masking.** A key that is repeated finds a number, because a mapping has no more keys than there are numbers, and the key with it is no other's (`NumberedIs`, `DeduplicatedIs`, `OutputIs`); hence `EntriesAreKept`.
  A masked payload is a payload again (`MaskedIsTree`), so masking can be repeated: `MaskingMayBeRepeated` compares the key of a node before and after, numbered or not (`KeysMaskedTwice`), and what masking makes
  of its value under each (`TwiceMaskedValue`). `MaskedPayloadsAreAccepted` says what the technical gate may still find in a masked payload.
- **Gates.** `AcceptedPayloadsStayAccepted`: keys without unprinted characters stay what they are, but for those without words, which get a key that no gate refuses, numbered or not (`PlainIsNotRefused`),
  and masking gives no value that is refused (`MaskedFindsNothing`). The expected reference of a tenant must be a text that masking leaves alone.
  `KeyListsDoAgree` is about every sequence of words in each way of writing it, and goes through the terms of the lists; `CatalogIsMinimal` about any sets of services and operations. `SpansCarryTheirContext` follows the numbering of keys: a
  caller's key that becomes a reserved one comes before that of the context, and this is the only way in which a span loses a part of its context.

Each proof of `RulesProofs` is about operators, and the modules it uses declare no operator as `RECURSIVE`:
`ProposalContract` merges field tables with an operator of its own (`++`), `Backoff`, `OutputKeys` and `ProjectionOf` use recursive functions, and a payload is a function on paths.

### Assumptions on constants

They are named where the constants are declared, and every run evaluates them. Beyond the types of the constants they say:

- `None` is no member of the sets it is compared with (`NoneAssumption`, the last conjuncts of the `ConstantsAssumption`s): the absence of a value is not a value in Python either.
- `ConstantsOfJobs`: at most five attempts, and the limit of actual costs is no less than the limit of all attempts of a job, as
  the validation of configurations (`catalog.py`) and of cost records (`execution.py`) does.
- `SkewAssumption`: the skew of the clock is a natural number of seconds.
- `RolesAssumption`: the payer is a critical role, and a role is no text that stands for something else in a proposal.
- `ConstantsAssumption` of `BusinessProjection`: a projection belongs to one tenant and every event has a key to be recognised by.
- `MaskingAssumption`: the numbers for repeated keys are different words, and there is one for each entry a mapping may have. `MaxEntries` is any bound of the entries of a mapping; the code counts on as far as it needs to.
- `NumeralsAssumption`: a number is no word of a forbidden term or of a reserved key, as the lists of the code show.
- `GatesAssumption`: there is a critical service, and `none` is no type of operation.
- `NothingAssumption`: the absence of a value is no number.
- The assumptions of `ExposureInputs` say that its pools hold what the code can have built: sequences of events (`IsEvent`, from `BusinessEvent.__post_init__`), impacts (`IsImpact`), trees in which
  two entries of a mapping have two keys (`IsTree`), attributes and a context with the keys of a dictionary (`IsAttributes`, `IsTelemetryContext`); and that no attribute allowed on metrics is an identifier of the context.
- The assumptions of `RuleInputs` say that its pools hold policies, configurations, tokens, contexts and payloads, and nothing of what these are.

### Only model-checked

- `CallsReturn` and `ReservedIsReviewed`: liveness under fairness is beyond the prover.
- That the mutations of definitions violate the properties, and the four runs that end in a violation.

## 5. Not modelled, and the plan

Left out of the models:

- The clock of `IntegrationExecution` (a backward step makes `mark_reprocessed` raise, which is one of its faults) and the order of the loop of
  `process_due_webhook_retries`, where a schedule whose dispatch always raises starves the others. With it: a model of that loop and its liveness.
- An adapter that never returns: the code has no answer to it, its timeout is evaluated afterwards.
- The catalogs of dashboards and alerts (`dashboards.py`, `alerts.py`): data and its rendering.
- Logging, wording and layout of answers, and the lists of words themselves, of which the models keep one of each kind.
- `scripts/check_contracts.py` and other tools: static checks of contract files that nothing in the system calls. Generated or static contract files and the service template hold no logic.

To come, in this order: the loop of due retries with the clock; `IntegrationJobs` as the inside of the step `Dispatch` of
`IntegrationExecution`, with a proof that each of its outcomes is one that `Dispatch` takes; and `BusinessProjection` with the counters of
`DashboardFigures`, so that what a dashboard shows while events are recorded is one model.
