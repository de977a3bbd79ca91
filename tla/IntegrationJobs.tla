------------------------------ MODULE IntegrationJobs ------------------------------
(***************************************************************************)
(* Plans of services/integration and the jobs that are made of them: which *)
(* of a tenant's configurations a plan takes (build_integration_plan), the *)
(* attempts of each job at its adapter (the dispatcher's _execute_job and  *)
(* its retry policy), and the records of results, costs, retries and dead  *)
(* letters that an execution is made of.                                   *)
(*                                                                         *)
(* One tenant and one product: configurations are listed by both, one for  *)
(* each class.  Plans, jobs and records are sets, one member for each      *)
(* class; what an adapter answers is given for each attempt.               *)
(***************************************************************************)
EXTENDS Integers, FiniteSets

CONSTANTS
    Classes,        \* IntegrationClass
    MockClasses,    \* SUPPORTED_MOCK_INTEGRATION_CLASSES, which adapters can run
    AdapterIds,
    MaxAttempts,    \* 5 in validate_max_attempts
    MaxTimeout,     \* 120000 in validate_timeout_ms
    MaxCost,        \* 1000000 in validate_estimated_cost_units
    MaxActualCost,  \* 1000000000 in validate_integration_cost_units
    NoItem          \* absence of a value

FailureClasses == {"timeout", "invalid_result", "non_recoverable", "recoverable"}

ASSUME ConstantsOfJobs ==
    /\ MockClasses \subseteq Classes
    /\ MaxAttempts \in 1..5
    /\ MaxTimeout \in Nat /\ MaxCost \in Nat
    /\ MaxActualCost \in Nat /\ MaxActualCost >= MaxAttempts * MaxCost
    /\ NoItem \notin FailureClasses

Requirements == {"required", "optional", "conditional"}
FallbackStrategies == {"fail_closed", "allow_partial", "skip_optional"}

(* IntegrationConfiguration and IntegrationPlanItem, which copies it *)
Configurations ==
    [class : Classes, adapter : AdapterIds, requirement : Requirements, timeout : 50..MaxTimeout,
     attempts : 1..MaxAttempts, cost : 0..MaxCost, fallback : FallbackStrategies]

-----------------------------------------------------------------------------
Of(class, items) == {item \in items : item.class = class}

ClassesOf(items) == {item.class : item \in items}

Plan(status, items, classes) == [status |-> status, items |-> items, classes |-> classes]

(* What a class that the plan requires has to be configured as *)
MeetsRequirement(configuration, required) ==
    configuration.class \in required =>
        configuration.requirement = "required" /\ configuration.fallback # "skip_optional"

(* _invalid_configuration_classes: also of classes nobody asked for *)
InvalidClasses(configurations, required, allowed) ==
    {configuration.class : configuration \in
        {c \in configurations :
            <<c.class, c.adapter>> \notin allowed \/ ~MeetsRequirement(c, required)}}

(* build_integration_plan, for the enabled configurations *)
BuildPlan(configurations, required, others, allowed) ==
    LET requested == required \cup others
        invalid == InvalidClasses(configurations, required, allowed)
        missing == required \ ClassesOf(configurations)
        items == {c \in configurations : requested = {} \/ c.class \in requested}
    IN IF requested = {} /\ configurations = {}
       THEN Plan("no_applicable_integrations", {}, {})
       ELSE IF invalid # {} THEN Plan("invalid_configuration", {}, invalid)
       ELSE IF missing # {} THEN Plan("missing_required_configuration", {}, missing)
       ELSE Plan(IF items = {} THEN "no_applicable_integrations" ELSE "ready", items, {})

(* _validate_execution_plan, _validate_scenario_classes and *)
(* _preflight_mock_execution, before anything is dispatched  *)
MayExecute(plan, scenarios, adapters) ==
    /\ plan.status = "ready"
    /\ plan.items # {}
    /\ DOMAIN scenarios \subseteq ClassesOf(plan.items)
    /\ \A item \in plan.items :
        item.class \in MockClasses /\ <<item.class, item.adapter>> \in adapters

ScenarioOf(scenarios, item) ==
    IF item.class \in DOMAIN scenarios THEN scenarios[item.class] ELSE "synthetic_success"

-----------------------------------------------------------------------------
(* What one attempt at an adapter comes to: a result in time, one that is late, *)
(* one that does not fit the job (_validate_result), or an exception            *)
ResultStatuses == {"completed", "partial", "not_found", "failed"}
AdapterAnswers == ResultStatuses \cup {"late", "foreign", "timeout", "denied", "raises"}

(* The mock adapter: _status_for_scenario *)
MockAnswer(scenario) ==
    CASE scenario = "synthetic_success" -> "completed"
      [] scenario = "synthetic_partial" -> "partial"
      [] scenario = "synthetic_not_found" -> "not_found"
      [] scenario = "synthetic_failure" -> "failed"

(* The except clauses of _execute_job *)
FailureClass(answer) ==
    CASE answer \in {"late", "timeout"} -> "timeout"
      [] answer = "foreign" -> "invalid_result"
      [] answer = "denied" -> "non_recoverable"
      [] answer \in {"raises", "failed"} -> "recoverable"
      [] OTHER -> NoItem

(* DeterministicIntegrationRetryPolicy.evaluate; otherwise a dead letter *)
Retried(item, class, attempt) ==
    class \in {"recoverable", "timeout"} /\ attempt < item.attempts

(* The attempt that is not retried *)
LastAttempt(item, answers) ==
    CHOOSE n \in 1..item.attempts :
        /\ ~Retried(item, FailureClass(answers[n]), n)
        /\ \A k \in 1..(n - 1) : Retried(item, FailureClass(answers[k]), k)

AtMostOf(one, other) == IF one <= other THEN one ELSE other

(* 250 * 2 ** (attempt - 1) *)
Doubled[attempt \in 1..MaxAttempts] ==
    IF attempt = 1 THEN 250 ELSE 2 * Doubled[attempt - 1]

(* _backoff_ms and the window _jitter_ms draws from *)
Backoff(item, attempt) == AtMostOf(item.timeout, Doubled[attempt])
JitterWindow(backoff) ==
    LET half == AtMostOf(250, backoff \div 2) IN IF half < 1 THEN 1 ELSE half

(* retry_delay_ms, the backoff and a jitter that a hash draws from the window, is *)
(* at least the backoff and at most this                                         *)
LongestDelay(backoff) == backoff + JitterWindow(backoff)

(* _retry_schedule: one for each attempt but the last. It is a record: the next *)
(* attempt is made at once                                                      *)
Schedules(item, answers) ==
    {[class |-> item.class, attempt |-> n, next |-> n + 1, backoff |-> Backoff(item, n)] :
        n \in 1..(LastAttempt(item, answers) - 1)}

(* _job_status_from_result, or timed_out where the failure is a timeout *)
JobStatus(answer) ==
    CASE answer = "not_found" -> "missing"
      [] answer \in {"completed", "partial"} -> answer
      [] FailureClass(answer) = "timeout" -> "timed_out"
      [] OTHER -> "failed"

(* A failed result is _failed_result's and not the adapter's: of the scenario  *)
(* synthetic_failure, whatever was asked for.                                  *)
ResultOf(item, scenario, answer) ==
    [class |-> item.class, adapter |-> item.adapter,
     status |-> IF FailureClass(answer) = NoItem THEN answer ELSE "failed",
     scenario |-> IF FailureClass(answer) = NoItem THEN scenario ELSE "synthetic_failure"]

(* IntegrationExecutionJob with the result it refers to *)
Job(item, scenario, answers) ==
    LET n == LastAttempt(item, answers) IN
    [item |-> item, status |-> JobStatus(answers[n]), attempts |-> n,
     result |-> ResultOf(item, scenario, answers[n])]

(* IntegrationExecutionCostRecord.from_job_result *)
CostOf(job) == job.item.cost * job.attempts

CostRecord(job) ==
    [class |-> job.item.class, adapter |-> job.item.adapter, fallback |-> job.item.fallback,
     status |-> job.result.status, calls |-> job.attempts, estimated |-> job.item.cost,
     actual |-> CostOf(job)]

(* _dlq_record, saved while the jobs still run *)
Letter(job, answer) ==
    [class |-> job.item.class, failure |-> FailureClass(answer), attempts |-> job.attempts]

FailsIfRequired(job) ==
    job.status \in {"failed", "timed_out"} /\ job.item.requirement = "required"

(* _execution_status_from_jobs *)
FailsExecution(job) ==
    /\ job.status \in {"failed", "timed_out"}
    /\ job.item.requirement = "required"
    /\ job.item.fallback = "fail_closed"

ExecutionStatus(jobs) ==
    IF \E job \in jobs : FailsExecution(job) THEN "failed"
    ELSE IF {job.status : job \in jobs} = {"missing"} THEN "missing"
    ELSE IF {job.status : job \in jobs} = {"completed"} THEN "completed"
    ELSE "partial"

(* dispatch, for the answers of each item's adapter, and IntegrationExecution.create *)
Execute(plan, scenarios, answers) ==
    LET jobOf == [item \in plan.items |->
                      Job(item, ScenarioOf(scenarios, item), answers[item.class])]
        jobs == {jobOf[item] : item \in plan.items}
    IN [jobs |-> jobs, status |-> ExecutionStatus(jobs),
        costs |-> {CostRecord(job) : job \in jobs},
        schedules |-> UNION {Schedules(item, answers[item.class]) : item \in plan.items},
        letters |-> {Letter(job, answers[job.item.class][job.attempts]) :
                        job \in {j \in jobs : j.status \in {"failed", "timed_out"}}}]

(* The bounds of validate_integration_cost_units and validate_attempt_count, and *)
(* _validate_cost_records                                                        *)
CostsValid(execution) ==
    /\ Cardinality(execution.costs) = Cardinality(execution.jobs)
    /\ \A job \in execution.jobs : job.attempts \in 1..5 /\
        \E record \in Of(job.item.class, execution.costs) :
            /\ record.calls = job.attempts
            /\ record.status = job.result.status
            /\ record.actual = record.estimated * record.calls
            /\ record.actual \in 0..MaxActualCost

(* _reprocess_scenario_from_original_execution *)
ScenarioAgain(job) == job.result.scenario

-----------------------------------------------------------------------------
(* A ready plan has every class that is required, configured as required and *)
(* not to be skipped, nothing but what was asked for, and allowed adapters.  *)
ReadyPlansCover(configurations, required, others, allowed) ==
    LET plan == BuildPlan(configurations, required, others, allowed) IN
    plan.status = "ready" =>
        /\ \A class \in required : \E item \in plan.items :
            /\ item.class = class
            /\ item.requirement = "required"
            /\ item.fallback # "skip_optional"
        /\ \A item \in plan.items : <<item.class, item.adapter>> \in allowed
        /\ required \cup others # {} => ClassesOf(plan.items) \subseteq required \cup others

(* Whatever the adapters answer, the calls made are the calls paid for, and each *)
(* of them has its record: a schedule if it was tried again, a dead letter if it *)
(* failed for good, or else the result of the job.                               *)
CallsAccounted(plan, scenarios, answers) ==
    LET execution == Execute(plan, scenarios, answers) IN
    /\ CostsValid(execution)
    /\ \A job \in execution.jobs :
        /\ Cardinality(Of(job.item.class, execution.schedules)) = job.attempts - 1
        /\ \A n \in 1..job.attempts :
            LET answer == answers[job.item.class][n] IN
            IF n < job.attempts
            THEN FailureClass(answer) \in {"recoverable", "timeout"}
            ELSE IF FailureClass(answer) = NoItem
            THEN job.result.status = answer /\ Of(job.item.class, execution.letters) = {}
            ELSE Letter(job, answer) \in execution.letters

(* A job that fails for good was denied, answered with a result of another job, *)
(* or called as often as it may be.                                             *)
FailuresAreFinal(plan, scenarios, answers) ==
    \A letter \in Execute(plan, scenarios, answers).letters :
        \/ letter.failure \in {"non_recoverable", "invalid_result"}
        \/ \E item \in Of(letter.class, plan.items) : letter.attempts = item.attempts

(* An execution is completed only if the last call of every adapter was answered *)
(* completely, and failed exactly if a class that must not fail has a dead letter. *)
FailsClosed(plan, scenarios, answers) ==
    LET execution == Execute(plan, scenarios, answers) IN
    /\ execution.status = "completed" =>
        \A item \in plan.items :
            answers[item.class][LastAttempt(item, answers[item.class])] = "completed"
    /\ execution.status = "failed" <=>
        \E item \in plan.items :
            /\ item.requirement = "required"
            /\ item.fallback = "fail_closed"
            /\ Of(item.class, execution.letters) # {}

(* What the schedules of a job record, for attempts that are made without a     *)
(* wait: no jitter is above its backoff, which validate_jitter_ms would refuse,  *)
(* no delay exceeds the timeout and a quarter of a second, and the backoffs      *)
(* never shrink. Delays grow whatever their jitters are while the backoff is     *)
(* below the timeout. One of a backoff that the timeout cuts may be the shorter: *)
(* of a timeout of 300, 250 and a jitter of 124 before 300 and none.             *)
DelaysGrow(plan, scenarios, answers) ==
    LET schedules == Execute(plan, scenarios, answers).schedules IN
    \A one \in schedules :
        /\ JitterWindow(one.backoff) <= one.backoff
        /\ \A item \in Of(one.class, plan.items) :
            /\ LongestDelay(one.backoff) <= item.timeout + 250
            /\ \A other \in Of(one.class, schedules) :
                one.attempt < other.attempt =>
                    /\ one.backoff <= other.backoff
                    /\ other.backoff < item.timeout =>
                        LongestDelay(one.backoff) < other.backoff

(* With the mock adapters, the reprocess of a dead letter fails again, whatever *)
(* scenario the job was started with: it repeats the scenario of the failed     *)
(* result, which is synthetic_failure.                                          *)
ReprocessesFailAgain(plan, scenarios, answers) ==
    LET execution == Execute(plan, scenarios, answers) IN
    \A letter \in execution.letters : \E job \in execution.jobs :
        /\ job.item.class = letter.class
        /\ FailureClass(MockAnswer(ScenarioAgain(job))) # NoItem
=============================================================================
