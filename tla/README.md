# Creative Marketer: TLA+ models and proofs

Creative Marketer runs marketing work for a tenant: agents research a product,
propose creative concepts, produce media, assemble and publish it, measure it
and learn from it. Everything with an effect outside the database passes one
gateway; everything asynchronous passes one outbox; everything long runs in
Temporal workflows. This directory models the parts whose correctness depends
on the order of events: what concurrent transactions, crashes, retries, expired
leases and late answers can and cannot do.

Paths below are relative to `src/apps/api/src/creative_marketer/` unless they
begin with `docs/`, `migrations/` (`src/apps/api/migrations/versions/`) or
`api/` (`src/apps/api/src/creative_marketer_api/`).

## 1. Inventory

The database is PostgreSQL at READ COMMITTED. A unit of work is one
transaction; leaving it without `commit` rolls it back. Row triggers of the
migrations repeat many of the state machines of the domain modules.

| Component | State it keeps | Operations | What is hard | What makes it correct |
|---|---|---|---|---|
| Tool Gateway (`tool_execution/`) | `tool_calls` | `invoke`, `request`, `_complete` | unlocked reads by concurrent retries, crash between the two transactions, lost commit acknowledgement, an executor that times out | the external effect happens at most once; the rows tell the truth about it; nothing runs that policy and approval do not allow |
| Execution control (`execution_control/`) | `idempotency_records` | reserve, begin, complete, reconcile | an attempt whose worker is gone, two owners | one attempt at a time; unknown outcomes block until reconciled |
| Approval governance (`approval_governance/`) | requests, decisions, revocations | create, decide, revoke, expiry | decision and revocation race with execution | a refusal is final; an approval covers one exact action |
| Permission governance, agent and tool registries (`permission_governance/`, `agent_governance/`, `tool_governance/`) | drafts, immutable versions, lifecycle | propose, activate, disable, archive, evaluate | versions change while a call is under way | a call runs under the versions it is bound to |
| Event delivery (`events/`, `infrastructure/database/event_delivery.py`) | `event_delivery.outbox_events`, `inbox_receipts` | append, claim, publish, retry, terminal; inbox reserve and commit | leases that expire under a slow publisher, redelivery, poison messages | nothing committed is lost; a receipt is written once with the handler's writes |
| Event bridges and workers (`workflow_orchestration/`, `api/*_worker.py`) | none of their own | poll, start or signal a workflow | the start is outside the transaction | redelivery starts no second workflow |
| Media production (`production/`) | generation jobs, spend authorizations, provider operations, media assets | request, authorize, execute, poll, import, cancel, recover | concurrent jobs under one budget and cap, provider accepted but not recorded | the budget is never exceeded; no job is generated or charged twice |
| Durable workflows (`infrastructure/temporal/`) | workflow histories | start, signal, activities | signals before waits, deadlines | a workflow ends or waits for something that can come |
| Agent runtime (`agent_runtime/`) | runs, attempts, budgets, recoveries | request, claim, start, reserve model call, complete, fail, recover | expired leases, provider answers after recovery | one attempt owns a run; tokens and cost are accounted once |
| Creative cycle orchestration (`orchestration/`) | cycles, steps, commands, handoffs | start, advance, decide, pause, cancel, wake | events out of order, stale steps | stages advance on evidence that is current |
| Publishing (`publishing/`) | plans, publication jobs, publications | draft, approve, schedule, publish, reconcile | approval binds to content that may change | what is published is what was approved, once |
| Commerce operations (`commerce/`) | snapshots, proposals, commands | sync, propose, request, execute, reconcile | unknown outcomes of store writes | a command is executed at most once and its outcome reconciled |
| Final creative assembly (`assembly/`) | assembly jobs, outputs, reviews | request, claim, render, publish, review | lost worker during a render, superseded revisions | one output per claim; a rejected revision is not used |
| Performance measurement (`measurement/`) | collections, observations, attributions | schedule, collect, correct | late and repeated observations | metrics are counted once |
| Intelligence (`intelligence/`) | insights, experiments | propose, review, promote, supersede | evidence that has been superseded | a promoted insight rests on current evidence |
| Product catalog and assets (`catalog/`) | products, knowledge versions, assets | draft, activate, upload, complete, quarantine | two activations at once, upload completed twice | one active version; an available asset was verified |
| Research evidence (`research/`) | sources, snapshots, claims | register, acquire, extract, review | repeated acquisition | a claim cites evidence that exists |
| Creative strategist (`creative/`) | briefs, concepts, decisions | materialize, revise, review | review of an old version | an approved concept is the current one |
| Knowledge projection, Obsidian bridge (`knowledge/`, `infrastructure/obsidian/`) | projected notes, sync cursor | project, synchronise | partial synchronisation | the projection is derived from the rows |
| Identity, audit, observability, HTTP API, provider and storage adapters, web client | sessions, audit rows | | | |

How they interact. API requests and workers call application services; a
service changes rows and appends outbox events in one transaction. Bridge
workers claim outbox rows and start or signal Temporal workflows; workflow
activities call application services and the gateway again. The gateway is the
only path to a provider with external effect (`commerce_worker.py:562`,
`publishing/execution.py:180`, `production/execution.py:197`,
`infrastructure/temporal/activities.py:137`).

`PROJECT.json` lists the hazards of this kind that the models are about, each at
its line; section 10 adds those that no property covers.

## 2. Plan

The most important behaviour comes first: the gateway, on which every external
effect depends, then the delivery that everything asynchronous depends on, then
the components in the order of what a mistake would cost.

1. `ToolGateway`, with `EffectOnce` as its abstract specification, and proofs
   (`ToolGatewayProofs`).
2. `EventDelivery` (rows, leases, the worker loop), composed into `EventBridge`
   (receipts, handlers, workflows) and `OutboxPublisher` (a transport, bounded
   attempts); abstract specification `DeliverOnce`; proofs in
   `EventBridgeProofs` and `OutboxPublisherProofs`.
3. `MediaProduction`: the jobs of a plan, its run, attempts, money and recoveries,
   over the gateway's and the outbox's promises; `MediaProductionProofs` shows that
   what rows say of provider tasks is so, and that what these may cost is counted
   and stays within the cap.
4. `AgentRun`: admission, claims, transport attempts, settlement, recovery; abstract
   specification `BudgetOnce`; proofs in `AgentRunProofs`.
5. `Pipeline`, what a product has and the one action it resolves to, composed into
   `CreativeCycle`: cycles, steps and the workflow that reconciles them; proofs in
   `CreativeCycleProofs`.
6. `CommerceAction` and `Publication`, both over the gateway's promise; proofs in
   `CommerceActionProofs` and `PublicationProofs`.

All six are done, and every invariant the runs check is also a theorem. What could
come next: the attempts of an assembly job.

## 3. The Tool Gateway

### What the model is

`ToolGateway.tla` is the gateway together with the parts of execution control,
approvals and permissions it reads and writes.

| Variable | Code |
|---|---|
| `call` | rows of `tool_calls`: status, binding digest, external outcome, current attempt |
| `rec` | rows of `idempotency_records`: state, digest, attempt count, current attempt, reconciliation |
| `approval` | approval request, decision, revocation and whether the clock has passed `expires_at` |
| `active` | the agent, tool and permission versions the registries resolve now |
| `callLock`, `recLock` | row locks and uncommitted unique keys held by a transaction |
| `inv` | each `ToolGateway.invoke` coroutine: program counter and the values it has read |
| `emitted` | outbox events, counted by kind |
| `effects`, `inflight` | what the provider did, and whether an abandoned request may still reach it |
| `started` | attempts begun (each gets a fresh `uuid4`) |

An action is one SQL statement or one external call, so everything READ
COMMITTED lets happen between two statements can happen between two actions:
`Invoke` (resolve and evaluate), `InsertCall`/`ReadCall`/`RequestApproval`
(`tool_calls.reserve`), `ValidateApproval`, `VerifySnapshot`,
`InsertRecord`/`ReadRecord` (`idempotency.reserve` and what its outcome
decides), `ReplayReconciled`, `AcquireAttempt` (`begin_attempt`, its UPDATE and
the trigger), `CommitExecuting`, `ExternalEffect` and `ExecutorOutcome` (the
executor), `CompleteLocksCall` and `CompleteCommits` (`_complete`), with
`CompleteCommitsUnseen` for a commit whose acknowledgement is lost and
`CompleteFails` for one that failed. `Crash` ends a process anywhere. `Decide`,
`Revoke`, `Expire`, `Activate`, `Disable` and `Reconcile` are the other services
that write the same rows. `LateEffect` is the provider receiving a request whose
caller has given up.

Three assumptions about the outside, stated where they are used: an executor
raises `PreEffectFailure` only when the provider was not reached (the repository's own
executors do not always keep to it, see sections 8 and 9); the effect of
one request is applied at most once by the provider; whoever reconciles has
established for good what the provider did (`Reconcile` requires that no request
is in flight). Bodies of messages, schemas, permission rules and redaction are
abstracted: a binding is a snapshot version and an input, a policy is a function
from versions to decisions.

### What is checked

| Run | Instance | Properties |
|---|---|---|
| `gateway_mixed` | 2 invocations, 1 operation, versions ALLOW and REQUIRES_APPROVAL, 2 attempts | the safety properties, the action properties and the refinement |
| `gateway_live` | 2 invocations, 1 operation, 2 attempts, fairness | `InvocationEnds` |

`AtMostOneEffect`: the provider applies an operation once at most. `OutcomesAreTrue`:
what is recorded and answered about the effect is so. `OnlyGovernedEffects`: no
attempt without ALLOW or an approval. `OrphanStaysBlocked`: an attempt whose
owner is gone stays EXECUTING, whatever anybody does. `RefusalIsFinal`: after a denial or
revocation nothing that had not passed it starts. `ImplementsEffectOnce`: record and
effect together are one effect, known once. `InvocationEnds`: every
invocation ends. (A starting and a completing transaction lock the record and the
ToolCall in opposite orders; they never wait for each other, because the record one of
them may start from is none that the other may complete.)

Bounds. Operations share nothing but the active snapshot, so one operation is
enough for all properties, which are stated per operation. Two invocations give
every race of two transactions; `EffectAtMostOnce` below covers any number of
them. Two attempts are the first and a retry; the bound
`MaxAttempts` is in `WithinBound`: an operation that has used its attempts is
only invoked again to be replayed. Invocation processes are interchangeable
(symmetry), and a process that has returned serves another invocation, so the
number of invocations is not bounded.

Fairness (`gateway_live` only). `SF_vars(Proceed(p))`: a worker continues what it
has begun, because asyncio schedules runnable coroutines, the executor is bounded
by `asyncio.timeout`, and PostgreSQL queues the waiters of a lock. Nothing makes
anyone invoke, decide, revoke or reconcile.

The disagreement with the documentation: ADR-022 says the gateway "commits the
final locked authorization snapshot". `verify_authorization_snapshot` uses plain
SELECTs, so a permission disabled between it and the commit does not stop the
attempt (`infrastructure/database/tool_execution_uow.py:78`). The model has it
(`VerifySnapshot`, `Activate`, `Disable`), and no property claims otherwise.

### What is proved

For every set of processes, operations, versions and inputs and every policy
(assumptions: `None` is no process and no operation; `Policy` is a function into
the three decisions):

| Theorem | Says |
|---|---|
| `TypeCorrect` | `Spec => []TypeOK` |
| `KnowledgeStaysSound` | `Spec => []KnowledgeIsSound`, the inductive invariant |
| `EffectAtMostOnce` | `Spec => []AtMostOneEffect` |
| `OutcomesStayTrue` | `Spec => []OutcomesAreTrue` |
| `EffectsStayGoverned` | `Spec => []OnlyGovernedEffects` |
| `OrphansStayBlocked` | `Spec => OrphanStaysBlocked` |
| `RefusalsAreFinal` | `Spec => RefusalIsFinal` |
| `GatewayImplementsEffectOnce` | `Spec => ImplementsEffectOnce` |

The argument. "At most one effect" is not inductive: it needs to know that an
attempt starts only where none has had an effect. `KnowledgeIsSound` has three
parts. `RecordKnows`: a record from which an attempt may start (none, failed
before its effect, reconciled without effect) means no effect and nothing in
flight; a settled one means exactly one effect. `InvocationKnows`: at each point
an invocation knows something of the provider, and the transaction about to
commit EXECUTING holds the record's lock on a startable record, so it commits
what is still so. `OneAttempt`: at most one invocation is past the commit of
EXECUTING, because EXECUTING is not startable. It also says that an invocation
recording UNKNOWN after it lost the acknowledgement of a success finds the
record SUCCEEDED and so is refused. What may run rests on a second invariant,
`Governance`: a record under way belongs to a ToolCall under way, the two have one
binding, and a requested approval is of a policy that asks for one
(`RowIsGoverned`); an invocation that has been cleared has the row's binding, or
holds the key of the row it is inserting, so that nobody can bind it to another
(`InvocationIsGoverned`). `RefusalIsFinal` follows: what has passed the validation
is known by its place, and whatever has not finds the refusal. Each theorem has one lemma per action;
the refinement maps `rec` to the phases of `EffectOnce` and shows that
each action is a step of it or leaves phase and effect unchanged.

Only model-checked: `InvocationEnds`, since liveness is out of the prover's reach.

## 4. Event delivery

### What the models are

`EventDelivery.tla` holds what every delivering process does to the outbox;
`EventBridge.tla` and `OutboxPublisher.tla` are the two programs and say what
happens between taking a claimed event and finishing it.

| Variable | Code |
|---|---|
| `outbox` | rows of `event_delivery.outbox_events`: publication state, owner, attempts, and whether `next_attempt_at` and `lease_expires_at` have passed |
| `worker` | a process: its program counter, the claimed events it has yet to come to, the one it is at and the attempt that one was claimed with |
| `receipts`, `keyLock` | `inbox_receipts`, and the uncommitted insert that holds a key |
| `workflow` | the last run of each Temporal workflow id: none, running, completed, failed |
| `wanted` | what the handlers look up: plans that have READY jobs, cycles that are active |
| `left` | the workflows a handler has still to start or signal |
| `concerns`, `reached` | history: whom a fact had to be told to, and who has been |
| `completions`, `unrecorded` | history: completed runs of each workflow; handlers that had called all and left no receipt |
| `accepted`, `refused` | history of the publisher: what the transport has answered |

The loop: `PollOutbox` (`claim_ready_types`, one statement that takes ready rows
under `FOR UPDATE SKIP LOCKED` and leases them), `Take` (the next item of the
batch), then in `EventBridge` one `ProcessEvent` transaction: `Reserve` (the
receipt, waiting for a concurrent insert of the same key), `Resolve` (what the
handler reads), `Call` for each workflow, `Commit`; `CallRefused` when Temporal
answers that a run is under way or that there is none to signal, `CallFails` and
`CommitFails` for errors whose effect may have happened. `Published` and `Retry`
write the row back only under the claim's owner and attempt. `Crash` ends a
process anywhere; its locks go, its leases stay. `LeaseExpires` and `BecomesDue`
are the clock. `CommitFact` is any service that appends an event with a fact;
`OpenCycle`, `StartCycle`, `RunSettles` and `RunEnds` are the rest of the world.

An event's kind is what its handler does: `start` (researcher, agent and
assembly runs, default reuse policy, an already running workflow is success),
`approve` and `retry` (`ALLOW_DUPLICATE_FAILED_ONLY`, running or completed is
success), `redo` and `restart` (a running workflow is an error), `wake` (signal
every active cycle). Abstracted: the set of READY jobs of a plan is one bit, so a
recovery's job set either matches or does not; a tenant has fewer active cycles
than the hundred a wake-up reaches; workflow ids of different kinds differ.

### What is checked

| Run | Instance | Properties |
|---|---|---|
| `bridge` | retry of a plan denied by the cap and an order to run it again, or a fact that wakes a cycle, 2 workers, 1 fault | `TypeOK`, `NothingIsLost`, `HandlersAreAlone`, `GenerationsAreOrdered`, `DeliveryStepsAreSafe`, `ImplementsDeliverOnce` |
| `publisher` | 1 event, 2 publishers, 2 attempts, 2 faults, fairness | `RowsHaveReasons`, `EventuallySettled` |

`NothingIsLost`: an event is given up only after its receipt, and has a receipt
only after everything its fact concerns was called. `DeliveryStepsAreSafe`: a
process slower than its lease neither reopens a settled event nor moves one that
another has claimed. `HandlersAreAlone`: redelivery never overlaps.
`GenerationsAreOrdered`: a plan's completed runs are one for its approval, one for each
order to run it again, and one for each time an order's handler had called Temporal and
lost its receipt; a repeated approval, or retry after a denial by the cap, adds none,
whichever workers deliver it and however often. `RowsHaveReasons`: the last
state written is earned, whoever wrote it. `ImplementsDeliverOnce`: rows and
receipts together are at-least-once delivery consumed once.

Bounds. Two workers are the slow one and the one that overtakes it. The events
differ in what their handlers do: one starts a workflow whose earlier run must have
failed, one starts it whatever became of that run, the third signals what is active. The
plan's two events and runs and those of the cycle are not in one behaviour
(`PlanOrCycle`): they have nothing in common. Batches have one event; a worker with a
longer batch only holds its claims longer, which a lease that runs out at any time
already shows. The theorems below hold for any events, cycles and batch size. The
publisher does nothing that relates two events, so one is enough there. `MaxFaults` counts crashes, failed calls
and failed commits. `AttemptCap` stops `attempts` from growing: its comparison
with the claim's count is redundant beside the owner, because a process never
holds two claims of one event, and the publisher's limit lies below it. The outbox may be empty and every
process asleep, so the system may stop: deadlock is not checked.

Fairness (`FairSpec` of `OutboxPublisher`). A process continues and a supervisor
restarts it; leases run out and backoffs end; claims take the oldest rows first, so
a ready row is not passed over for ever (`SF` on `Serves`, per event).
That is all
the code schedules. `EventuallySettled` needs more, and says so: `SentWithinTheLease`,
its hypothesis, is that from some time on no lease runs out on the event its process is
at. Nothing in the code makes it so, since `transport.publish` has no time limit beside
the lease of 30 seconds. Without it the property fails: of two publishers slower than
their leases each takes the event over while the other still sends it, a send that is
answered late finds the claim gone and writes nothing, and the event is sent for ever
and never settled (TLC finds the loop when the hypothesis is dropped).

The disagreement with the documentation: docs/06_EVENT_MODEL.md says that an
exhausted or permanent failure enters `FAILED_TERMINAL`. The bridges call
`mark_retryable` for every failure (`api/production_worker.py:156` and its
siblings), so an event that can no longer succeed is retried for ever. Such events
exist: a restart is committed while the plan's approval is still on its way, the
approval's run takes up the READY jobs, and the restart's handler refuses the
changed set at every retry. `OutboxPublisher` does keep the promise
(`EventuallySettled`, under its hypothesis).

### What is proved

For any events, workers, workflows, batch size and number of faults, from the
assumptions that `None` is no worker and no event and that no plan or run
workflow is a cycle:

| Theorem | Says |
|---|---|
| `BridgeTypeCorrect` | `Spec => []TypeOK` |
| `NothingIsEverLost` | `Spec => []NothingIsLost` |
| `DeliveryStaysSafe` | `Spec => DeliveryStepsAreSafe` |
| `HandlersStayAlone` | `Spec => []HandlersAreAlone` |
| `GenerationsStayOrdered` | `Spec => []GenerationsAreOrdered` |
| `BridgesDeliverOnce` | `Spec => ImplementsDeliverOnce` |

The argument. `NothingIsLost` is not inductive. `Inv` adds: a process about to
publish holds an event with a receipt (`ReceiptsAreEarned`); it only holds
events that were committed (`HoldsCommitted`), so a new fact is in nobody's
hands; a handler has called, or has yet to call, everything the event concerns
(`HandlersCover`), which holds when it resolves because a cycle that was active
at the fact is either still active, and resolved, or no longer wanted and so
excused; and a cycle that is no longer wanted has had its run and is not opened
again (`ConcernsAreKept`). The first part of `EventBridgeProofs` shows once, for any
program on top, what the loop's steps keep; the second adds one lemma per action.
For the refinement, a step either leaves rows and receipts as `DeliverOnce` sees
them or moves one event one phase on (`StutterRefines`, `MoveRefines`).
`HandlersAreAlone` needs `HandlersHoldKeys`: from its receipt's insert to its
commit a handler holds the uncommitted key, for which the next one waits.
`GenerationsAreOrdered` is not inductive: a run that is under way has been paid for and
not counted yet. `IsOwed` says that completed runs, and one more unless the last has
completed, are at most one more than the orders `Spent` (those with a receipt, or whose
handler has called) and the orders that lost their receipt. A call spends its order once,
because a handler is the first and the only one (`HandlersAreFirst`), and a handler that
loses its receipt moves its order from the one set to the other.

For the publisher (`OutboxPublisherProofs`), any events, publishers, batch size and
limit of attempts:

| Theorem | Says |
|---|---|
| `PublisherStaysTyped` | `Spec => []Typed(Labels)`, the loop's types at the publisher's program counters |
| `RowsKeepReasons` | `Spec => []RowsHaveReasons` |

The argument. A row is written by a process that decided a step earlier, perhaps on a
claim it has lost since. `Reasons` says for each process that its place has a reason
(`ProcessHasReason`: it is about to write PUBLISHED because the transport accepted the
event, FAILED_TERMINAL because the answer was final or the attempt it claimed was the
last) and the same of each row. A row that a process may write is under that process's
claim, hence at the attempt for which it decided; and what the transport has answered
it has answered for good (`AnswersLast`).

Only model-checked: liveness.

## 5. Media production

### What the model is

`MediaProduction.tla` follows the jobs of one approved plan from approval to
outcome. It takes the two models above at their promises: the gateway does not
attempt an operation whose earlier attempt is under way, ambiguous or settled
(`closed`), and the outbox hands an event to its handler until the handler
succeeds, perhaps again.

| Variable | Code |
|---|---|
| `job` | rows of `production.generation_jobs`: status, provider reference, unknown cost, failure code, the two identity columns, `updated_at` |
| `flow` | the plan's `MediaProductionWorkflow`: state, run, the job it is at, the attempt of the activity and who works at it |
| `act` | each worker's activity attempt: program counter and the row it read first; `live` says that Temporal still waits for it |
| `closed` | the operation ids the gateway will not execute |
| `requests`, `sent` | events that ask for a run, and the ids in the outbox |
| `order` | what an operator decided on what live-next showed, before it is carried out |
| `cap`, `other` | `LIVE_E2E_MAX_USD`, and what other plans of the product commit |
| `tasks` | external: each request that left for a provider and what became of it |
| `accepted` | history: how often an operator accepted a duplicate |

A database transaction is a step, and so is a call to a provider. The attempt:
`Begin` (`current_job`), `Prepare` (`authority.prepare` with the cap), `CapDenied`
or `ConvergeLostStart`, `Invoke` (the gateway, on an operation id made of the row
read first), `Execute` (the executor prepares again), `Start` (STARTING is
committed), `Create` (the request leaves), `Accepted`, `Refused` or `AnswerLost`,
`StoreImage`; `Poll` and `Import` for videos; `Report`. `Records` is
`_transition`: a check of `Allowed` and a compare-and-set on the status, in one
step because the update's condition is the status the check saw; whether it was
read a moment before makes no difference to an outcome of which only the refusal
is left. `Advanced`, `Retried`, `GiveUpOn` are the workflow with its retry policy
and time-outs. `Observe` and `Carry` are an operator's order through
`PipelineActionExecutor`: what live-next shows may be stale when it is carried
out. `Deliver` is `StartMediaProductionWorkflow` with the reuse policies.

Abstracted. What a provider charges is what was reserved; times are a counter per
row; the gateway's own decisions are ALLOW; an import or a poll that fails is
`PreEffectFailure` as in the executors; an exception while a request is on its way or its
answer is being recorded has no action of its own beside the crash and the lost answer. Two constants name circumstances.
`Patient`: no attempt to start a video outlives its five minutes, because its HTTP
client gives up after 30 seconds (`production/infrastructure/seedance.py:53`);
attempts at images, whose client waits for ten minutes by default, and polls may
outlive theirs. `Expires`: the three days of a run pass. That an image which was paid for
comes back unreadable is always possible. `HigherCaps` are the values an environment may
raise the cap to.

### What is checked

| Run | Instance | Properties |
|---|---|---|
| `media_mixed` | an image and a dearer video, a cap of 2 to be raised to 4, another plan, 2 orders, 2 faults, `Patient` | `SpendIsCounted`, `WithinCap`, `OutcomesAreTrue`, `TasksStayKnown` |
| `media_live` | an image and a video, a cap of 3, 1 order, 1 fault, not `Patient`, `Expires`, fairness | `DuplicatesAreAccepted`, `StartingConverges`, `RunEnds` |

`SpendIsCounted`: the spend view never counts less for a job than its providers
may charge, but for one reservation of an image that was delivered, could not be read
and is recorded as a failure at no cost (`WrittenOff`). `WithinCap`: what they may charge
for the plan, such an image included, stays within the cap: exactly, without an allowance.
`DuplicatesAreAccepted`: no second task beside one that may be charged, unless an
operator accepted it. `OutcomesAreTrue`: success and confirmed failure are the
provider's. `TasksStayKnown`: the reference of a live task is never replaced.
`StartingConverges`: a start lost in a crash is explained. `RunEnds`: a run ends.

Bounds. Two workers are an attempt and the one that comes after it, late or not.
Two attempts per activity are the first and a retry; the other three of the policy
would repeat the second. Jobs of one plan meet in the cap, in the order of the run
and in what an order demands of all rows, so one image before one video shows each.
Two orders allow a recovery and the one after it; `MaxFaults` counts crashes,
exceptions, failing polls, time-outs of attempts that go on, and repeated
deliveries; the mixed instance leaves out only behaviours that use up every bound at once
(`FewTroubles`). Each cap leaves room for what it is about: both instances reach an operator's
abandonment that commits, the second task of a job that it accepts, and an image written
off (TLC refutes the claim that any of the three is never reached). The system stops when nothing is left to do: deadlock is not checked.

Fairness. A worker goes on with its attempt; Temporal notices an attempt whose
worker is gone, because each has a start-to-close time-out; providers finish what
they accepted; time passes, and with it the deadline of a run; the outbox handles
its events (section 4). Operators owe nothing.

### Where code and documentation disagree

They are in the model, not in runs of their own.

A denial by the cap is to be persisted
(`infrastructure/database/production_authority.py:252`). `spend_cap_blocked` names
the workload and no user, which `ck_generation_jobs_execution_identity` rejects: the
row stays READY and the run fails after its attempts (`CapDenied`).

A task's reference resumes polling after a restart
(`docs/19_PRODUCER_AND_MEDIA_GENERATION.md:148`).
A poll that dies leaves its operation id under way; the row is unchanged, so every
later poll has the same id (`production/execution.py:191`) and the gateway answers it. Only the deadline ends the
run, which is why `RunEnds` needs `Expires`.

Four more:

- `_transition` compares the status only. Without `Patient`, an attempt at a video
  that outlived its time-out can record its task over a later one
  (`TasksStayKnown`), or fail a later start while its request leaves
  (`SpendIsCounted`).
- An image that was charged and cannot be decoded is recorded as a failure that cost
  nothing (`production/infrastructure/openai_images.py:66`); `SpendIsCounted` has to allow
  for it.
- The id of an order to abandon an unknown outcome does not depend on the run
  (`TransitionId`): the second such order of a plan collides with the first in
  `pk_outbox_events` and is rolled back (`Commits`).
- A restart refuses rows that a retry of a confirmed failure left READY
  (`MayRestart`, `RetriedRow`), although it is offered (`Offered`).

### What is proved

For any plan, reservations, workers and bounds:

| Theorem | Assumes | Says |
|---|---|---|
| `MediaTypeCorrect` | | `Spec => []TypeOK` |
| `OutcomesStayTrue` | `Patient` | `Spec => []OutcomesAreTrue` |
| `TasksAreNeverForgotten` | `Patient` | `Spec => TasksStayKnown` |
| `DuplicatesStayAccepted` | `Patient` | `Spec => []DuplicatesAreAccepted` |
| `SpendStaysCounted` | `Patient` | `Spec => []SpendIsCounted` |
| `SpendStaysWithinCap` | `Patient` | `Spec => []WithinCap` |

The condition is the circumstance named above: without it the first of the four
disagreements just listed breaks what the theorems say. `media_live` checks
`DuplicatesAreAccepted` without `Patient`, on its smaller instance.

The argument. A worker decides on a row it read transactions ago, and its update
looks at the status only. That this does no harm is the invariant `VideosFit`.
`HeardIsAlone`: the attempt Temporal waits for is the run's only one, and under
`Patient` one that starts a video is waited for, so starters are alone.
`OwnersAreAlone`: an operation id has one executor, by the gateway's promise.
`ReadsRows`: what an attempt read is the row as it is now or an earlier one, because
`updated_at` only grows. `RowFits`: the row's reference is a task that exists, and
its status says what became of it. `AttemptFits`: an attempt that executes owns its
row as long as the operation is closed. Every step is first bounded (`RowsMove`,
`OpsMove`, `TasksMove`, `AttemptMoves`: what it may do to rows, operations, tasks and
its attempt), and the bounds, not the actions, are combined with the invariant in
`AttemptStep`. Recoveries touch only rows that no attempt owns.

For the money, `Load(j)` counts what the provider may charge for a job beside the
task its row follows: the tasks nobody follows any more, and the creates that are
about to leave, one per attempt at `create`. `Moves(j)` lists what any step may do to
a job: the status it comes from and goes to, the change of its unknown cost and of
its accepted duplicates, and by how much the load grows or shrinks. `StepMoves` shows
that the list is complete, one lemma per group of actions, from `VideosFit` and
`Handled` (an attempt that waits for an answer waits for a task of its own, and an image
is started, never polled). The rest is arithmetic on the list. `LoadIsCounted`: each task
nobody follows was paid for by one reservation put into the unknown cost, but for the
one that a row under way, or an image written off, allows. `LoadIsAccepted`: each is a duplicate that an operator
accepted, with the same exception.

`WithinCap` is not inductive: before the first start the jobs of a plan may well reserve
more than the cap, and nothing is charged because none of them is let through. So
`CapIsHeld` says that the plan is `Pristine` (no job beyond READY or BLOCKED_SPEND_CAP, no
attempt past its check) or that what is counted for it is within the cap. The first start is
let through by a check of the whole sum (`FirstStart`); from then on workers never
increase the sum (`SpendMoves`), and an operator who retries what was written off checks it with
what that adds (`OrderIsWithinCap`). That the check and the create lie in different
transactions does no harm, because the job was counted before its check. What is
held for the plan (`Held`) is what is counted and, for an image that failed, its
reservation, whether it was charged or not. The check does not see that reservation; it
need not, because of `InOrder`: a job is reached only after those before it succeeded, so
that no job is let through beside an image that failed (`OneUnsettled`), and a retry of
that image only takes back the reservation that is held for it. Sums are
folds over sets; `FoldsCount` shows that such a fold is the number of elements of a set of units
(by induction over the subsets of the plan's jobs, which the library states as
well-foundedness), so comparing sums is comparing finite sets.

Only model-checked: liveness.

## 6. Agent runs

### What the model is

`AgentRun.tla` follows the paid model runs of one agent: a caller's request admitted
under a period budget, the activity that claims the run and calls the provider, what
is recorded of the answer, and what an operator does when the worker is gone.
`BudgetOnce.tla` is the ledger as it should be: each run's reservation is made once,
when there is room for it, and leaves once.

| Variable | Code |
|---|---|
| `run`, `attempt` | `agent_runs` and `model_attempts`: status, key, period, predecessor, code, response, cost, unknown cost |
| `ledger` | `agent_budget_usage` per period: admitted runs, reserved, actual and unknown cost |
| `invoiced` | `model_cost_reconciliations` |
| `caller` | the key an admission found free, before it locks the budget |
| `worker` | each activity: its run, how far it is, the transport attempts it has made, the answer it holds |
| `period` | the current budget period |
| `calls`, `billed` | external: inferences received, and what is charged for them |

Admission: `Request` (the unlocked look for the key), `Admit` (budget lock, room,
insert) and `GiveUp`. The activity: `Claim`, `RefuseInvocation` (an agent that may
not run), `MarkProviderStarted`, `CallProvider`, `Answer`, `TryAgain` and `EndCall`
(at most two transport attempts), `RecordResponse`, `FinishSuccess`,
`FinishFailure`, `MarkAttemptUnknown`, and `LateWorkerStops` for one whose guarded
update finds the row closed. `Crash` ends a worker anywhere. The operator:
`Abandon` with the three codes of docs/16, `RerunStranded`, `RerunKnownFailure`,
`ReconcileUnknownCost`. A transaction is a step, except that what an admission reads
before its lock may be old when it writes. Abstracted: the context, the schemas and
the validation of an output; an output is usable or not. One kind of agent stands
for all of them.

### What is checked

| Run | Instance | Properties |
|---|---|---|
| `agent_run` | 2 runs and a third that is only admitted, 2 keys of one product, 2 workers, 2 periods, 1 crash, room for one reservation and a half | `TypeOK`, `LedgerMatchesRuns`, `OneCaller`, `ChargesAreTrue`, `SuccessorsFollowClosedRuns`, `ClosedRunsRest`, `ImplementsBudgetOnce` |

`LedgerMatchesRuns`: the five transactions that add deltas to a period's row keep it
the sum of its runs. `OneCaller`: only the worker that claimed a run calls the
provider for it, after saying so in the row. `ChargesAreTrue`: a run is closed with
what the provider charged, or with an unknown cost; closed as free, it was free.
`SuccessorsFollowClosedRuns`: one replacement at most, of a closed run without a result,
although two operators may order one for the same run.
`ClosedRunsRest`: a late worker or a second operator does not touch a closed run.

Bounds. Two runs are a run and the one that replaces it, or two that compete for the
budget; a third is admitted or refused beside whatever these two leave, and not executed
(`ThirdIsOnlyAdmitted`), so that two operators may replace one run, or an operator the
replacement of another. What is left after one reservation does not admit a second, so the order of
settlement and admission matters. Two periods make a settlement meet a period that is
not its own. One caller suffices beside the operators' re-runs, which admit too. Workers and keys are
interchangeable (symmetry). The
system may stop: deadlock is not checked, and no fairness is assumed.

### Where code and documentation disagree

- A stranded attempt whose response is recorded is to be settled as recorded
  (docs/16_AGENT_RUN_RECOVERY.md:15). For a response that was returned and is no
  result, `agent_runtime_repositories.py:4107` writes a combination that a trigger
  of migration 0033 refuses; the run stays open.
- A first inference whose outcome is unknown, followed by one that is refused, closes
  the run as one that cost nothing (`agent_runtime/application.py:3786`).
  `ChargesAreTrue` is about runs whose inference was sent once.
- A run whose activity fails twice before its claim keeps its reservation, and no
  recovery takes a run that was never claimed.

### What is proved

For any runs, keys, callers, workers, periods and prices:

| Theorem | Says |
|---|---|
| `TypeCorrect` | `Spec => []TypeOK` |
| `RunsHaveOneCaller` | `Spec => []OneCaller` |
| `ChargesStayTrue` | `Spec => []ChargesAreTrue` |
| `SuccessorsFollow` | `Spec => []SuccessorsFollowClosedRuns` |
| `ClosedRunsStay` | `Spec => ClosedRunsRest` |
| `LedgerStaysTrue` | `Spec => []LedgerMatchesRuns` |
| `LedgerImplementsBudgetOnce` | `Spec => ImplementsBudgetOnce` |

The argument. `Typed` adds to the types that a worker that is not idle carries a run
(`Carrying`). `Sound` says what a row knows of its provider: `RunIsSound`, for each
run, relates its status, its attempt's status, the inferences sent and the charge;
`WorkerIsSound`, for each worker, what it has heard beyond that; `Alone`, that a run
has one worker. `ChargesAreTrue` is the terminal case of the first. `Origins` says
that a successor's predecessor is closed and has no other, which needs that the key
of a replacement is made of its predecessor's id. For the refinement each action
moves one run's money as `BudgetOnce` does. `LedgerMatchesRuns` rests on it: a step of
`BudgetOnce` moves one run from one stage to another and the accounts of the two stages
with it, so that each account stays the number of its runs times a reservation.

All of the run's properties are proved.

## 7. Creative cycles

### What the models are

`Pipeline.tla` is what a product has, how orchestration observes it and the one
action it resolves to; `CreativeCycle.tla` is the cycles over it and the workflow
that reconciles each.

| Variable | Code |
|---|---|
| `runs` | `agent_runs` in the order of their creation, each with how far its outcome got: evidence, concept, plan, media, final creative, draft |
| `revalidated` | `creative.concept_revalidations` |
| `cycle` | `orchestration.creative_cycles`: status, stage, bindings, source of a child cycle |
| `steps` | `orchestration.cycle_steps` |
| `flow` | `CreativeCycleWorkflow` of each cycle |
| `attempt` | a reconciliation between its transactions: what it decided, and what it saw |
| `launched` | drafts whose publication workflow was started |

`Order` is `PipelineActionExecutor` (what it orders is `Observe` and the rules that
follow it, `ResearchRule`, `CreativeRule`, `ProducerRule`); `AskIntelligence`,
`Progress` and `SetBack` are workers and reviewers; `Publish` a publication
workflow. A reconciliation is `Reconcile` (`reconcile` and `_next`, one read), then
`Transition`, `Halt`, `SkipStep`, `StartStep` and `RecordStep`, or
`RequestIntelligence`, on the row as it is by then; `TimesOut` and `Dies` let an
attempt be overtaken by the next. `Start`, `StartWorkflow`, `LoseWorkflow` and
`Cancel` are users. Abstracted: a concept set has one concept, a plan one creative,
a creative one draft; a wake-up makes a timer run out sooner, so a reconciliation may
begin at any time.

### What is checked

| Run | Instance | Properties |
|---|---|---|
| `cycle` | a product whose creative has a draft, 4 runs, 2 cycles, 2 attempts, 1 fault | `StepsWereTaken`, `EndsAreFinal` |
| `cycle_live` | a new product, 4 runs, 1 cycle, 1 attempt, 1 fault, 1 setback, fairness | `StagesAreEarned`, `CyclesFollow` |
| `cycle_cancelled` | a new product, 1 cycle, 2 attempts | `CancellationIsFinal`, which is violated |

`StepsWereTaken`: a recorded step was taken, for this cycle's draft, and the analysis
was asked for once. `EndsAreFinal`: no late attempt moves a cycle on from the stage
it ended in. `StagesAreEarned`: publishing, measuring and completion are
bound to drafts that got that far, although bindings are rewritten at every step.
`CyclesFollow`: a running cycle catches up with its pipeline, an expired research or
a replaced run included.

Bounds. Four runs are one of each kind, or a replacement of the first to fail. The
first run starts late in a product's life so that two cycles, parent and child or one
after the other, reach publishing, measuring and analysis; the second starts at the
beginning with one setback anywhere. A fault of the first run meets a second cycle
only before that one publishes (`FaultsComeEarlyInTheSecond`): a fault further on is
explored in the first cycle. A cycle may wait for people for ever: deadlock is
not checked. Fairness (`cycle_live`): a worker takes up a workflow and goes on with
its attempts, whose time-outs Temporal keeps; people and the pipeline owe nothing.

### Where code and documentation disagree

`cycle_cancelled`: `_start_action` writes BLOCKED or NEEDS_RECOVERY on whatever row
it locks (`orchestration/application.py:835`, `:852`). A reconciliation that decided so
before a cancellation commits reopens the cancelled cycle, although "Cancellation
stops future coordination" (docs/28_SUPERVISOR_AND_CREATIVE_CYCLE.md:97). The cycle is then
active at stage CANCELLED, from which nothing leads, and the product can start no other.

A cycle is committed and its workflow started afterwards (`:612`). When the process
dies in between (`LoseWorkflow`), nothing starts the workflow; `CyclesFollow` is about
cycles whose workflow runs.

### What is proved

For any number of cycles, runs, attempts, faults and setbacks, and whatever a product
has at first (`HistoryAssumption`: rows of the shape of `RunRow` that no cycle asked
for):

| Theorem | Says |
|---|---|
| `CyclesStayTyped` | `Spec => []TypeOK` |
| `StagesStayEarned` | `Spec => []StagesAreEarned` |
| `RecordedStepsWereTaken` | `Spec => []StepsWereTaken` |
| `EndsStayFinal` | `Spec => EndsAreFinal` |

The argument. A reconciliation reads in one transaction and writes in others, so what it
writes was true of rows that may have moved. `CycleIsEarned` says of a cycle what its
stage, its draft and its recorded steps rest on: from the approval of a publication on it
is bound to a draft that got as far as that stage needs (`Needed`), which drafts do not
lose; a recorded publishing step has a late stage and a draft whose workflow was started.
`AttemptIsEarned` says the same of what an attempt saw, however long ago: one that is to
move a cycle to a late stage saw the draft that the cycle is bound to by then. It is
inductive because a cycle that has come that far is not bound anew and does not turn back
(`EndsAreFinal` included): each stage's row in the tables of `Pipeline` leads on from it
or leaves it. That an observation names runs that exist needs a greatest element of a
finite set of numbers, which is taken from well-foundedness in its set form
(`LatestExists`).

Only model-checked: `CyclesFollow`, which is liveness; `cycle_cancelled` is a finding.

## 8. Commerce actions

### What the model is

`CommerceAction.tla` follows an approved refund or inventory adjustment from its
request to the end of its `CommerceActionWorkflow`, over the gateway's promise: its
decision is one step and the recording of the outcome another.

| Variable | Code |
|---|---|
| `approval` | the approval request of the proposal's ToolCall |
| `call`, `ask` | idempotency records of the mutation, and of the status tool |
| `job`, `results` | `commerce.action_jobs`, `commerce.action_results` |
| `paid` | orders whose latest observation says PAID |
| `flow` | the workflow: state, retries, rounds of reconciliation, deadline |
| `act` | activity attempts: program counter and what they heard |
| `provider`, `sent` | external: the mutation under its idempotency key, and how often it was submitted |

`RequestAction`, `StartAction` or `StartIsLost`, `Decide`, `DeadlinePasses`; the
workflow's `WakeUp`, `Dispatch`, `Return`, `TimeOut`; the attempt's `Invoke`,
`Prepare`, `Begin`, `Send`, `Record`, `Complete`, then for an unknown outcome
`AskStatus`, `FindOperation`, `Query` and `Confirm`; each of `SendRaises`,
`RecordFails`, `CompleteFails`, `QueryRaises`, `ConfirmRaises` and `Crash` where the
code has an `except` or a process can end. `Settle` is the provider, `Sync` the
synchronisation of an order. Connections, mappings and the reading of proposals are
inputs.

### What is checked

| Run | Instance | Properties |
|---|---|---|
| `commerce` | a refund, 2 attempts, 3 tries, 2 rounds, 3 faults, fairness, deadlock | `SuccessIsTrue`, `RecordedIsNotResubmitted`, `ActionEnds` |

`SuccessIsTrue`: success told by the workflow, the job, the record or the result row
is a mutation the provider accepted. `RecordedIsNotResubmitted`: what is recorded as
done or unknown is not submitted again. `ActionEnds`: the workflow ends, with an
outcome that stays unknown too.

Bounds. Proposals share only the observation of their order, so one shows all; two
attempts are one and its successor, late or not; three tries are the policy's; three
faults break an attempt, its retry and a reconciliation. Fairness: Temporal keeps
time-outs and timers (`Workflow`), a worker goes on with its attempt (`Attempt`).
People decide or do not; the deadline passes. Only `Rest`, where everything has ended,
may stop.

### Where code and documentation disagree

They are in the model, not in runs of their own.

- An answer or a transaction lost after the submission is reported as a failure
  before any effect (`commerce/execution.py:187`), so the retry submits again, under
  the same key; "an ambiguous mutation is submitted once"
  (docs/27_COMMERCE_OPERATIONS.md:74). Only the provider's idempotency keeps it harmless.
- A refund is checked against the observed order without a lock
  (`infrastructure/database/commerce_authority.py:440`): two refunds of one order both
  pass before either is observed (docs/27:25).
- The status tool has one operation id per proposal: after one unknown answer later
  questions are answered from its record and do not reach the provider.
- A worker that dies between the reconciliation and the final invoke leaves a
  reconciled record; its retry reconciles again, which is refused, and the workflow
  ends in an error although the mutation succeeded (`ConfirmRaises`).
- A worker that dies between `Begin` and `Record` leaves the idempotency record
  EXECUTING (`infrastructure/database/commerce_authority.py:124`): every later attempt is
  told that the operation is in progress, and the workflow fails on an outcome that
  nobody asks the provider for.
- The request is committed and its workflow started afterwards; when the process dies
  in between, nothing starts it (`StartIsLost`).

The properties above call none of these wrong: the workflow ends, and what it tells as a
success is one. A mutation that succeeded and is told as failed, or submitted again under
its key, satisfies them.

Left out, because they only add refusals before any effect: an inactive connection
(`commerce_authority.py:368`), a currency or a total that changed (`:457`), and the ways
other than a refund in which an order stops being PAID.

### What is proved

For any proposals, orders, attempts and bounds:

| Theorem | Says |
|---|---|
| `TypeCorrect` | `Spec => []TypeOK` |
| `SuccessStaysTrue` | `Spec => []SuccessIsTrue` |
| `RecordedStaysSubmittedOnce` | `Spec => RecordedIsNotResubmitted` |

The argument. `Typed` needs that a workflow which is not over has a try left
(`TryIsLeft`). `Exclusive`: the idempotency record lets one attempt execute, so nobody
else writes the rows between its transactions. `AttemptIsSound`: what an attempt brings
along is so (an acceptance was the provider's, a success is in the result row as well)
and stays so while the attempt is on its way, because the provider settles once and
result rows are not removed. `RowsAreSound` says the same of what is told: the workflow,
the job, the two records. For an action that may be recorded as unknown the invariant
says `Closed`: the record admits no attempt, and whoever still executes has only to
report. A question to the provider is asked only of what is closed, so the answer cannot
be overtaken by another submission.

Only model-checked: `ActionEnds`, which is liveness.

## 9. Publications

### What the model is

`Publication.tla` follows one draft through `PublishingService`, called by users
directly and by `PublicationWorkflow` through the gateway. Drafts are independent:
each has an advisory lock under which an operation's transactions run, so a
transaction is a step; the provider's call lies between two of them.

| Variable | Code |
|---|---|
| `mode`, `current` | the draft's mode; whether its creative is approved and its account active |
| `decision`, `job`, `publication` | the latest `publication_decisions` row, `publication_jobs`, `publications` |
| `approval`, `record` | the approval bound to the submit tool; idempotency records of the submit and status tools |
| `act` | requests of users and activity attempts |
| `flow` | the workflow |
| `provider`, `sent` | external: the post, and whether a submission left |

`Decide`, `BindApproval`, `ApprovalLapses`, `Outdate`; `StartExecute`, `Submit` or
`SubmitRaises`, `StoreExecute` or `StoreFails`; `StartReconcile`, `AskProvider` or
`AskRaises`, `StoreReconcile`; `Cancel`; the workflow's `ScheduledTimeComes`, `DeadlinePasses`,
`SignalCancel`, `Dispatch`, `Invoke`, `Complete`, `Return`, `TimeOut`; `Crash`.
`Settle` is the provider, which takes a draft's submission once (the port is
idempotent per draft) and may keep a post pending for ever.

### What is checked

| Run | Instance | Properties |
|---|---|---|
| `publication` | a draft of either mode, a user and a worker, 2 tries, 1 fault, fairness, deadlock | `PublishedIsTrue`, `CancelledIsNeverSubmitted`, `PublicationEnds` |

`PublishedIsTrue`: PUBLISHED, the publication row and the post go together.
`CancelledIsNeverSubmitted`: a cancellation between the transactions of an execution
does not lose a post. It is about the job's status; a decision that becomes REJECTED after
a submission is no cancellation. `PublicationEnds`: the workflow ends.

Bounds. A user and a worker are the two kinds of caller; the theorems hold for any
number of both. Two tries are the first and a retry. Fairness: a scheduled time and a
deadline come, Temporal dispatches, a worker goes on; users and the provider owe
nothing.

### Where code and documentation disagree

- `execute` submits again what is SUBMITTING, SUBMITTED or OUTCOME_UNKNOWN
  (`publishing/application.py:354`); docs/24_SOCIAL_MEDIA_MANAGER_AND_GOVERNED_PUBLISHING.md:29
  says that an unknown outcome "blocks a blind resubmit". The idempotent port keeps it
  one post.
- The first execution of a scheduled draft only writes SCHEDULED (`:337`), and the
  gateway records that as the operation's success: the workflow's later attempts are
  answered from the record and end without a submission. docs/24:52 says that the
  workflow waits and submits.
- Any exception, that of a second transaction after the post included, is reported to the
  gateway as a failure before any effect (`publishing/execution.py:119`), and the retry
  submits again; the port answers with the post there is.
- The workflow's tool for cancelling asks for an approval that nothing binds to it.

The properties above call none of these wrong: the port is idempotent, and a workflow that
ends in FAILED has ended.

### What is proved

For any users, workers, modes and bounds:

| Theorem | Says |
|---|---|
| `TypeCorrect` | `Spec => []TypeOK` |
| `PublishedStaysTrue` | `Spec => []PublishedIsTrue` |
| `CancelledStaysUnsubmitted` | `Spec => []CancelledIsNeverSubmitted`, about jobs that are CANCELLED; a rejected draft may have been submitted before |

The argument. `PublicationIsSound` adds what an operation between its transactions
knows: an answer about to be stored is true of the provider, and while an execution
is past its first transaction, or a submission has left, the job is past every
status that can be cancelled. Without the second part a cancellation could be
written under a submission that is on its way.

Only model-checked: `PublicationEnds`.

## 10. Not modelled

| Component | Why |
|---|---|
| Final creative assembly | a local render without a provider that charges; one status under a row lock and compare-and-sets. What others see of it is in `Pipeline` |
| Performance measurement | a timer that appends under unique keys; what it decides depends on values and dates |
| Intelligence | proposals computed from measurements, one decision each under a row version; the child cycle it leads to is in `CreativeCycle` |
| Product catalog and assets | documents with one editor at a time, guarded by row versions; uploads |
| Research evidence | fetching and extraction; whether research is current is observed in `Pipeline` |
| Creative strategist | validation of output; its run is `AgentRun`, its decisions are in `Pipeline` |
| Knowledge projection, Obsidian bridge | rebuilt from rows, read by no other component |
| Identity, audit, observability, HTTP API, adapters, web client | inputs, append-only records, logging, translation, I/O and user interface |

Nor does any module contain serialization, hashing, JSON schemas, HTML extraction,
ffmpeg, prompt text or the formatting of reports. They are most of the lines of
the repository, which is why the map covers about a seventh of them: they transform
data, and no order of steps makes them right or wrong.

Hazards that no property covers, beside those with a note in `PROJECT.json`:

- The authorization snapshot may be stale when the attempt commits (section 3,
  `tool_execution/application.py:521`).
- The bridges retry for ever an event that can no longer succeed (section 4,
  `api/production_worker.py:156`); a restart decided on an older workflow state is one
  (`orchestration/application.py:436`).
- A wake-up reaches the oldest hundred active cycles only
  (`api/orchestration_worker.py:146`); `EventBridge` has fewer.
- An image whose worker dies after the provider answered stays IMPORTING, though paid
  for (`production/execution.py:214`).
- An order to abandon an unknown outcome, and a restart after a retry, are refused
  where they are offered (section 5, `orchestration/execution.py:59`,
  `production/service.py:714`).
- An assembly worker that dies between IMPORTING and success leaves a job that no claim
  admits (`assembly/execution.py:160`).
