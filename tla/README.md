# A verification project for the Enterprise Multi-Agent Orchestration Framework

TLA+ modules, TLC configurations and TLAPS proofs about the framework in `src/`.
Source paths below are relative to `src/src/enterprise_orchestrator/`.

A client's request becomes a *run*. A planner agent (a language model) turns it
into a DAG of tasks; a supervisor graph hands the tasks to retrieval and tool
agents, has a validator agent judge each result, retries or fails tasks, stops
to ask a human reviewer, and in the end synthesizes a response. Around the graph
there is an in-process execution backend with a queue and workers, a state
store, and an HTTP API. Everything runs on one asyncio event loop.

## Inventory

| Component | State it keeps | Operations | Hard behaviour |
|---|---|---|---|
| Supervisor graph: `orchestration/nodes.py`, edges in `orchestration/runtime.py` | the `OrchestrationState` of one run: status, `requires_human`, plan, tasks, human requests; ephemeral `current_task_id`, `human_decision` | supervisor, planner, retrieval, tool, validator, human gate, synthesis, failed nodes | dispatch in DAG order whatever the agents answer; retries; a decision, a failure, a review and ready tasks competing; dependency deadlock; recursion limit |
| Runtime: `orchestration/runtime.py` | the stored copy of the run | `run`, `resume_with_human_decision` | exceptions and crashes between the two saves; a run resumed from what was stored |
| Domain state: `core/` | the classes above | mark task, request escalation, apply decision, complete, fail | flags that must agree (`requires_human`, request status, run status) |
| Agents: `agents/` | none | `execute` | any answer of a language model; plan validation (Kahn) |
| Execution backend: `execution/local_async.py` | queue, workers, active tasks, jobs, futures, cancelled runs | `start`, `submit_run`, `submit_resume`, `cancel_run`, `shutdown`, the worker loop | cancellation at every point of a run's life; full queue; exceptions; shutdown and restart; two decisions for one run |
| Idempotency ledger: `execution/idempotency.py` | records by key | `acquire_or_join`, `complete`, `fail` | retry racing the first submission; a claim that nobody answers |
| State stores: `memory/` | states and checkpoints by run | save, get, list | SQL upserts against the checkpoint contract; suspensions in PostgreSQL; errors of the database |
| Orchestration service: `services/orchestration_service.py` | subscriber queues by run | submit, decide, cancel, publish, subscribe | events between reading the state and subscribing; full subscriber queues |
| LLM router: `providers/router.py`, `gemini.py`, `groq.py`, `errors/` | provider order; the locals of a call (target, attempted, corrections) | generate, generate structured | which failures fail over, to whom, and with which messages; repair of invalid structured output |
| Rate limiter: `security/rate_limiter.py` | the stamps of each key in a sliding window | check | late pruning, the sweep of old keys, `Retry-After` |
| Authentication, authorization: `security/` | keys, roles, settings | authenticate, require a permission | which authenticators a configuration has; the order of identity, permission and quota |
| Tool registry: `tools/registry.py` | tools by name | register, unregister, execute | tools that go while they are called; exceptions classified as retryable |
| Retrieval: `retrieval/` | chunks, a vector for each, two files | chunk, add, clear, search, save, load | chunk overlap; two files saved one after the other; deaths in between |
| HTTP API: `api/` | per-request wiring | middlewares, dependencies, routes | which decision statuses get through; deadlines that cancel; streams that must end |
| Settings, errors: `config/`, `errors/` | - | - | flags and classes that the router, the agents and the gateway tell apart |
| Observability, evaluation | counters, spans, logs | - | they observe and decide nothing (one gauge drifts) |

### How the components interact

* A route calls the service, the service names a run (`uuid4`) and calls the
  backend. `submit_run` claims the idempotency key, stores the run as IDLE,
  creates a job and a future, and queues an item. A worker takes the item and
  calls the runtime; the runtime starts the graph and saves its final state.
* A run that pauses answers its future with the PAUSED state and frees the
  worker. A reviewer's decision arrives at `submit_resume`, which reads the
  stored run, checks it, and queues a resume item with that copy. The worker
  saves it as RUNNING and starts the graph again at the supervisor, with the
  decision in the graph state.
* `cancel_run` cancels the worker of an active run, and settles a queued or
  paused run itself; the item of a queued run stays in the queue, and the worker
  that takes it settles it a second time.
* Nodes, runtime and backend all change what the state store keeps; the store
  returns copies. The worker runs a first request under a run_id of the runtime's
  own and copies state and checkpoints to the client's run_id afterwards.
* The backend publishes events to the service, which puts them into the queue of
  each subscriber of the run; `GET /runs/{id}/events` reads that queue and, when
  nothing comes, polls the stored state. A synchronous client whose patience ends
  cancels the future of its submission and then the run.
* Planner and validator agents call the router, which asks one provider after the
  other; the tool agent calls the registry, the retrieval agent the document
  store. Their exceptions become results, and the `retryable` flag of an exception
  decides whether the supervisor's nodes may try again.
* A request passes the middlewares, is identified by the authenticators its
  deployment has, needs the permission of its route and costs quota, in the order
  in which the route lists its dependencies; only then is the service called.

As wired in `api/dependencies.py:125`, the API builds a service, a backend, its
pool and, in memory, a store for every request: then no later request finds the
run's worker, its key or its event queues. The tests and `app_lifespan`
(`app.state.orchestration_service`) share one service, and that is what the
modules model; the difference is in the list of hazards, without a property.

### What makes each component correct

* Graph: tasks run after their dependencies; no agent works on a run under
  review; a run that asks has a question; a completed run did its work; the
  deadlock test is never met by the graph's own doing; the run ends, within the
  recursion limit, in a stored result.
* Runtime: a stored result is final; what a reviewer was asked is not lost.
* Backend: one worker per run, one run per key, a fixed pool; no execution after
  a result; job, store and future agree; every client is answered; a shutdown
  ends.
* Stores and service: a run's checkpoints are listed, in order; what is announced
  is stored and what is stored was announced; a refused run left nothing behind.
* Event stream: a subscriber sees the end of its run, or its stream ends by polling.
* Router: a passing trouble of one provider ends no call that another could answer,
  no provider hears what another said, and the caller is told to try again exactly
  when that can help.
* Gateway: nobody enters a guarded deployment by an identity built into the code;
  a request costs its maker's quota only; the limiter is a sliding window, and the
  wait it computes is exact (the `Retry-After` header drops the fraction of a
  second, so a client that waits as the header says may come up to a second early).
* Plan validation accepts exactly the plans that can be executed; the chunker's
  windows cover the text; a vector store has one vector for each chunk.

## Modules

| Module | Models |
|---|---|
| `SupervisorGraph` | one run: the graph, the runtime around it, the stored copy |
| `RunLifecycle` | the abstract life cycle of a run that a client sees |
| `SupervisorGraphProofs` | the theorems about `SupervisorGraph` and their proofs |
| `MCSupervisorGraph` | plans and verdicts for TLC |
| `ExecutionBackend` | many runs: the backend and the idempotency ledger |
| `ExecutionBackendProofs` | the backend's types and its ledger: lemmas, theorems and proofs |
| `BackendOwnershipProofs` | the pool, the ownership of runs, results and jobs: theorems and proofs |
| `MCExecutionBackend` | instances for TLC |
| `StateStores` | the three stores as operators on a database |
| `RunService` | one run with its submission, worker, decisions, cancellations and event streams, over any of the stores |
| `RunServiceProofs` | the theorems about `RunService` and their proofs |
| `MCRunService` | instances for TLC |
| `Failover` | the abstract promise of a router of providers |
| `LLMRouter` | one call of the router, with the providers and their exceptions |
| `RouterProofs` | the router keeps the promise |
| `VectorStore` | chunker, vector store and its two files |
| `VectorStoreProofs` | windows cover and overlap; vectors match chunks |
| `Agents` | one execution of each agent, composed with `LLMRouter` and `VectorStore`, the plan validation and the tool registry |
| `AgentsProofs` | what holds of router and store holds inside an agent; the plans accepted are those that can be executed |
| `MCAgents` | routers, plans and documents for TLC |
| `RequestQuota` | the abstract sliding window |
| `ApiGateway` | middlewares, authenticators, permissions, limiter and the routes' answers |
| `GatewayProofs` | the limiter implements the window; who is served and what a request costs |
| `MCApiGateway` | deployments and roles for TLC |

### SupervisorGraph

A step is one node of the graph, the whole handler and the edge it leaves by.
`node` is the node about to run, `state` the `OrchestrationState` the nodes
mutate, `saved` the store's copy, `current` and `decision` the fields of
`GraphState`. Each `*_node` handler is one or more actions, one for each edge:
`SupervisorToGate`, `SupervisorToPlanner`, `SupervisorDispatch`,
`SupervisorToSynthesis`, `SupervisorToFailed`; `Planner`; `Execute` for the
retrieval and the tool node; `ValidatorToGate`, `ValidatorToSupervisor`;
`GateApproves`, `GateModifies`, `GateRejects`, `GatePauses`; `Synthesis`;
`Failed`. `Return` is the save after the graph, `Raise` an exception out of it
(`run` stores a FAILED run, `resume_with_human_decision` stores nothing),
`RecursionLimit` and `RetrievalRaises` two ways to get one, `Crash` the end of
the process, `Resume` a worker that starts the graph with a decision.

Abstractions. Tasks are named by their position, because the supervisor takes
the first ready one. The type `"tool"` stands for every type that goes to the
tool node. A plan is any plan `validate_plan_dag` accepts (`IsPlan`); the agents'
answers are chosen freely among those the nodes tell apart. `output_data`,
errors, audit, metrics and tracing are left out. `SKIPPED`, `BLOCKED` and
`CANCELLED` are never set on a task by the graph. Task identifiers are not empty.
Whether LangGraph raises when the limit is met exactly at the end is left open.
`MaxEscalations` bounds the requests of a run (`ValidatorToGate`); the code has no
such bound, and no property of this module needs it: see *Bounds*.

### ExecutionBackend

A step is what the event loop runs between two suspensions. The in-memory and
the SQLite store never suspend their caller (no awaits inside), so a submission,
a cancellation or the settling of a result is one step; a worker is suspended at
`queue.get()` (`at = "queue"`) and inside the runtime (`at = "runtime"`), and
`shutdown` while it waits for active runs (`"waiting"`) and while it gathers its
workers (`"gathering"`). `task.cancel()` is the flag `cancel` of a worker: the next
step of that worker is `Cancelled` (in the runtime) or `Stop` (at the queue); two
`cancel()` calls before the worker runs are one, as in asyncio.

`AcceptRun` and `RejectRun` are `submit_run` on the two sides of the capacity
check, `SubmitNothing` all calls that change nothing but `start()`: joiners of a
key, refused decisions, conflicts. `cancelled` is `_cancelled_runs` together with
the jobs' `is_cancelled`, which the code only ever tests together and clears
together. Futures are named by the number of the accepted submission; the future
of a rejected submission's ledger record is 0. A stored run is its status and
`requires_human`; the runtime returns any of the final states that
`SupervisorGraph` ends in (paused under review, completed, failed).

Left out here and modelled in `RunService`: PostgreSQL's suspensions inside a
handler, the runtime's internal copy of a first run under its own identifier, the
client's `wait_for` timeout, events. Left out altogether: metrics, audit.

`Env` names what the environment may do: `"raise"` (the runtime raises),
`"restart"` (submissions after a shutdown). `app_lifespan` shuts a backend down once
and for all, so the runs have no restart; the theorems name where they need that.

A decision is accepted whenever the code accepts it: `SubmitResume` looks at the
stored flag and status, and not at whether an earlier decision of the run is
still queued or executed. When one is, nothing stops two workers from executing
the run or a second execution from replacing its result
(`backend_second_decision`). The history variable `raced` collects the runs to
which that happened; `OneWorkerPerRun`, `NoWorkAfterResult` and `ResultIsFinal` say
what holds of all other runs, and `OneRunPerKey`, `FixedPool`, `JobMatchesStore`,
`EverySubmissionAnswered` and `ShutdownEnds` hold of all runs, raced or not.

### RunService and StateStores

`ExecutionBackend` has many runs and a store that never suspends; `RunService` has
one run, looked at more closely, and any store. `loop` is the coroutine that has
the event loop. `Await(c)` is an `await` of a store: with the in-memory and the
SQLite store (whose `async` methods contain no suspension) the coroutine keeps the
loop, with PostgreSQL it gives it up and everybody else may go first. `Suspend` is
an `await` of anything else, or the end. So one module holds the three
deployments, and a property that says "unless the store suspends" says precisely
what PostgreSQL changes.

Every call of the store is a step: `SubmitCheck`, `SubmitSave`, `SubmitPut`
(`submit_run`); `Take`, `Begin` and `FirstCheckpoint` or `Mark`, `GraphReturns` or `GraphRaises`, `End`,
`LastCheckpoint`, `ListOwn`, `Move`, `MoveState`, `Settle`, `Raised` (the worker and
the runtime under it); `FinalizeGet`, `FinalizePut`, `FinalizeTell`
(`_finalize_cancelled`); `DecideRead`, `DecideQueue`, `DecideRefused`
(`submit_resume`); `CancelRoute`, `CancelAsk`, `CancelGet`, `CancelPut`, `CancelTell`
(the route and `cancel_run`); `DeadlinePasses` (`asyncio.wait_for` of
`POST /runs`); `Open`, `Read`, `Register`, `Opened`, `TakeEvent`, `Timeout`,
`Poll`, `Finish`, `Leave` (the stream's route and generator). `Interrupted` is
`CancelledError` where the worker waits: it ends the worker's loop when it comes
inside the handler of another one. `SubmitFault`, `WorkerFault`, `DecideFault`,
`CancelFault` and `StreamFault` are an error of the database at each of these calls.
Each of the `Reviewers` decides once, when it likes, if it is among the `Deciders` of
the store (a bound): `items` are the items of the
run in the queue, `latest` whose future `_futures` has, and the history variable
`overlapped` says that a decision was accepted before what was accepted earlier
was done with. `OthersQueue` is the rest of the backend as far as a run notices
it, the room in the queue. `Publish` and `Offer` are `_publish_event` with its backpressure.

A checkpoint is the number of its creation, an event is its name, and a queue
holds the places of its events in `log`. `StateStores` keeps what tells the stores
apart: who suspends, who can fail, and what saving a checkpoint again under
another run_id does (`SaveAgainInMemory`, `SaveAgainInSQLite`,
`SaveAgainInPostgres`).

### LLMRouter and Failover

All that a call changes is local to it, so `LLMRouter` is one call: `call` are its
locals, `router` the configuration. `Generate` starts it; a step is one reply:
`Answers`, `Misanswers` (structured output that is not valid, with a correction
sent to the same provider), `Fails` (the deadline, a missing key, an exception of
the SDK), `Unregistered` (a default or fallback nobody registered). `Fails` leads
to `GoOn`, `AllFailed` or `Raise`, as `IsRetryableFailure` and `NextTarget` say.
`MapException` is the providers' classification of SDK exceptions by words of
their text; a text is a set of the words that are looked for.

`Failover` says what a caller may rely on, without an order of providers, a
retry count or classes of exceptions. `Promise` in `LLMRouter` maps the call to it.

### VectorStore

`ChunkDocument` are the windows of `retrieval/chunking.py` (positions, not
characters; only blanks are told apart). `AddDocument`, `Clear`, `Load` are the
operations; `save` is five actions (`SaveIndex`, `IndexSaved`, `SaveMetadata`,
`Saved`, `SaveFails`), because a process may die (`Restart`) at any point of the
two writes and leave either file torn. A vector is the chunk it was computed from.

### Agents

`Agents` EXTENDS the two modules above: `agent` executes once and leaves `result`,
an `AgentResult` status. `AsksRouter`, `RouterStep`, `PlannerReturns`,
`ValidatorReturns` and `RouterRaised` are the two agents with a language model,
`ToolRefused`, `ToolCalled`, `ToolEnds` the tool agent, `RetrievalReturns` and
`BadTopK` the retrieval agent, `InvalidInput` all of them. `Register`, `Unregister`
and `StoreStep` are what others do to the registry and to the store meanwhile.
`ValidDag` is `validate_plan_dag`, `Kahn` its loop with queue and in-degrees:
`KahnStart` before the loop, `KahnTurn` a turn of it. A turn queues the tasks whose
in-degree becomes zero in the order of the plan (`InOrder`), which is the order of
`dependents`.

### ApiGateway and RequestQuota

A request up to the call of the service is one step (nothing suspends, and the
limiter's lock is never held over a suspension): `PublicRequest` (health, with the
limiter as the outermost middleware), `FlawedRequest` (correlation ID, size),
`ProtectedRequest` (identity, permission, quota), `ScrapeRequest` (`GET /metrics`
without an identity, which only production asks for), `StreamRequest` (no quota),
`DecideRequest` (quota first, then the permission of the verdict). `Tick` is the
clock; several requests may share a time, so a stamp is a pair of a time and a
number. `Sent` lets go of the response. `Identify` is `CompositeAuthenticator` over
what `get_authenticator` builds from the settings (`Authenticators`). What the
service answers is any status the route can turn its outcome into.

`RequestQuota` is the limiter's promise: in any window at most `Limit` requests
granted, none refused before; nothing older is remembered. `Quota` maps the pruned
and swept store to it.

## Runs

| Run | Result | Shows |
|---|---|---|
| `supervisor_safety` | holds | nine safety and action properties over four plan shapes, every decision status, exceptions and crashes (114,412 states) |
| `supervisor_liveness` | holds | termination, the step budget of runs that are planned once, and refinement of `RunLifecycle`, with plans that plan anew among them (253,842 states) |
| `supervisor_redispatch` | violated | `docs/architecture.md:315`: completed tasks are never re-dispatched |
| `supervisor_early_synthesis` | violated | `docs/architecture.md:241`: synthesis after all tasks |
| `supervisor_timeout_verdict` | violated | `api/routes/human.py:71`: three verdicts |
| `backend_lifecycle` | holds | six invariants, finality, answers and shutdown (803,741 states) |
| `backend_key_leak` | violated | `local_async.py:329`, `idempotency.py:37`: retry later |
| `backend_second_decision` | violated | `local_async.py:407`: a terminal run cannot be resumed |
| `run_service` | holds | a run over the three stores, with an error of the database anywhere, and two decisions that may overlap with the in-memory store: announcements and store agree, in-memory checkpoints are all listed, results stay unless decisions overlapped, ends reach their subscribers, workers survive, clients are answered, streams end (535,560 states) |
| `run_checkpoints` | violated | `memory/base.py:50`: all checkpoints of a run |
| `gateway_quota` | holds | the limiter implements a sliding window, its wait is exact, built-in identities stay out of guarded deployments, a request costs its own maker only (501,943 states) |
| `agent_calls` | holds | failing over keeps its promise, accepted plans are the runnable ones, vectors match chunks (157,360 states) |

Bounds. *Supervisor*: up to three tasks are enough for a join, for a dependency
against the order, for a premature synthesis and for a replanning task;
`MaxRetries = 2` has a retry that is allowed and one that is refused;
`MaxEscalations = 2` lets two reviews of one run be open or answered out of
order; `MaxSteps = 20` lets the recursion limit cut any of it short (23, above the
largest `WithinStepBudget`, in the liveness run: there only a plan that plans anew
meets it, which is the premise of that property). In the liveness run `MaxEscalations = 3`, one more than
needed for a review of an earlier request. The code bounds neither escalations nor
modifications, and a reviewer who requeues a task after every escalation keeps a
run going for ever. `RunReachesResult` does not claim otherwise: its premise
`<>[]~Reopens` is that tasks are not requeued for ever, and that the run is not
planned anew after resumptions for ever (when the recursion limit ends such an
invocation no FAILED is stored, and the run can be resumed once more). After the
last of these an escalation is of a task in progress, which the next answer
completes, fails or leaves in progress and which is not dispatched again: at most
as many escalations follow as the plan has tasks, three, so that the bound leaves
room for all of them and is not what ends the run. What it cuts off are runs with
more than three escalations in all.
*Backend*: three runs against a queue of two meet a full queue in `AcceptRun` and
`SubmitResume`; two workers are needed for two executions at once; three
submissions are a run and two resumptions of it, or three runs; four worker
coroutines leave room for a second pool that must not be built. `MaxQueue` is at
least `MaxConcurrency`: with less, `shutdown` can wait for ever, see the hazards.
In a raced run two decisions are queued or executed at once: two of the three
submissions.
*Run service*: one submission; `Deciders` lets two reviewers decide with the
in-memory store and one with the SQL stores, so that a run is executed three times,
a decision meets another one that is queued, executed, done, failed or cancelled,
and a result may be replaced by a later execution; one client that cancels
and one whose deadline passes are the two cancellations that a worker can meet,
and the smallest number that kills it; a queue of two events overflows with the
events of one paused and resumed run; one subscriber, since subscribers touch each
other only in `MaxSubscribers`, which `Register` meets by counting others; one
error of the database, at any call, so that the handlers of errors are all
entered and the properties that say `faults = 0` keep a case. Under PostgreSQL two
workers might serve one run; `RunService` has one, a bound.
*Gateway*: a limit of two in a window of three ticks has a full window, one that
is half pruned, and requests that share a tick; seven ticks are two windows and a
bit, so that stamps become stale (twice the window) and `MaxKeys = 1` makes the
sweep happen; two ticks in a second give a fraction for the header to drop.
The principal is a reviewer, who has the permissions of some routes and not of others.
*Agents*: six routers have a third provider, a fallback or a default that nobody
registered, a default that is its own fallback, and failing over switched off;
`MaxRetries = 1` has a correction that is allowed and a text that is refused. All
plans of up to three tasks with up to two dependencies each contain the cycles of
one, two and three tasks, a repeated dependency and an unknown one. A document of
nine with windows of four that share one has a blank window between two others;
three chunks and two dimensions make pairs of files that do not match.

Fairness. `SupervisorGraph`: weak fairness of the graph's steps (the event loop
resumes a started graph, agents answer or fail: every agent call has a timeout or
returns) and of `Review` (the reviewer answers; this is an assumption about
people, and without it a run may stay paused for ever). `ExecutionBackend`: weak
fairness of each worker (a coroutine that can go on is resumed; a graph ends,
which the supervisor runs show) and of the steps of `shutdown` that is under way.
No submission, decision, cancellation or shutdown is ever forced. `RunService`:
weak fairness of `Submit`, of `Worker` (the graph returns), of a decision, a
cancellation and a stream that are under way, each reviewer, canceller and
subscriber for itself: each is a coroutine that the loop
resumes, an answer of the database, or the timer of a poll. Nobody has to decide,
cancel, subscribe or leave. `Agents`: weak fairness of `RouterStep`, since
`asyncio.wait_for` bounds every call of an SDK. `ApiGateway` has no liveness
property and assumes none.

Deadlock is not checked: a finished run and a closed backend do stop.

### Disagreements met

Six, each with a run that shows it and quoted in `PROJECT.json` under "findings":

* a SYNTHESIS task that is ready completes the run before its other tasks are done;
* a MODIFIED decision that names a request answered before requeues its completed
  task, where the documentation says that completed tasks are never re-dispatched
  (`CompletedStaysCompleted`, which holds, says that besides such a decision only a
  new plan and the loss of the working state undo a completed task);
* a TIMEOUT verdict strands a paused run;
* a submission refused by a full queue keeps its idempotency key;
* a second decision resumes a run that the first one completed;
* the SQL stores keep a moved checkpoint under the runtime's run_id, so that
  `list_checkpoints` of the client's run misses those of its first execution, where
  every docstring promises all (`CheckpointsFollowRun` says that the in-memory
  store keeps the promise).

Others were met and are kept as the shape of a property or of an action:

* `docs/security_architecture.md:58` denies viewers `hitl:read` and `:62` grants
  reviewers `metrics:read`; `security/models.py:64-77` does the opposite of both.
  `:79` asks one of three permissions for every decision; for the verdicts TIMEOUT
  and PENDING the route asks none (`api/routes/human.py:75-81`). `MayDo` and
  `VerdictPermissions` are the code's tables; which of the two is meant is for its
  authors to say, so that no property of the gateway takes a side.
* `docs/architecture.md:258` requeues a task while `retry_count < max_retries`;
  `nodes.py:390` counts the retry before it compares, so that one fewer is made
  and `max_retries = 1` allows none (`CountRetry`, `Attempts`).
* `shutdown` leaves a sentinel for each worker it cancelled at the queue
  (`local_async.py:525`), and the workers of a later `start` take them and end. With
  `Env = {"restart"}`, which no run has, TLC finds `FixedPool` violated.
* Over PostgreSQL: a stored COMPLETED can be replaced by CANCELLED
  (`ResultIsFinal`); a second cancellation inside `_finalize_cancelled` ends a
  worker for good (`WorkerSurvives`); a queue that fills up during the save leaves
  a run that stays IDLE (`RefusedRunIsNotStored`).
* `run_failed` is published for an exception while IDLE or RUNNING stays stored; a
  stream opened later polls such a run for ever (`StreamsEnd` has the stored
  result as its premise, `EventTellsStore` allows for it). After a resumption that
  raised the run is RUNNING with its review open: a decision is accepted, and its
  events follow the `run_failed`. A subscriber whose queue is full may then lose
  that `run_failed` to them, which is why `EndEventKept` keeps an end that is
  queued only while the run cannot be decided on.
* A fallback that nobody registered turns a passing trouble into a
  `ConfigurationError`, which is not retryable. A `ValidationError` never fails over.
* `tools/registry.py:71` wraps a tool's own `ToolExecutionError` again, as retryable.
* `load` compares two files by their counts: a pair of two saves with equally many
  chunks is taken, and the dimension of the index is not looked at.
* The decisions' route charges the quota before it looks at the permission.
  `Retry-After` drops the fraction of a second, so a client may come back up to a
  second early.

## Proofs

`SupervisorGraphProofs` proves, for every number of tasks, set of plans, retry
budget, recursion limit, number of escalations, verdicts and faults:
`TypeCorrect`, `WorkersRunReadyTasks`, `NoAgentDuringReview`,
`ReviewsAskSomething`, `CompletedRunsAreWhole`, `DeadlockIsReviewers`,
`CompletedTasksStay`, `ReviewSurvives`, `StoredResultIsFinal`, `GraphWithinBudget`, and
`ImplementsLifecycleSafety` (the safety half of the refinement, for documented
verdicts and no crash).

They rest on the named assumptions of `SupervisorGraph` (`BoundsAssumption`,
`PlansAssumption`, `NoneAssumption`), which TLC evaluates in every supervisor run.

The inductive invariants, each needed because the property alone is not inductive:

* `StoredRunIsOpen`, `IdleHoldsStored`: while the graph runs nothing final is
  stored, and when it does not run the working state is the stored one. From them
  a stored result is final, and a review survives exceptions and crashes.
* `ReviewInv` relates the node to flags: where a decision may be in flight
  (`DecisionPlace`), which status each node can see (`StatusPlace`), that the gate
  is entered only for a review (`GateNeedsReview`), that synthesis follows
  finished work (`SynthesisPlace`), that whoever asks has a pending request
  (`AsksSomething`), and that a completed run is whole (`WholeIfCompleted`).
* `SettledInv`: outside the worker and validator nodes no task is IN_PROGRESS in a
  run that never escalated; `NothingStranded` then leaves pending, completed and
  failed tasks only, and `IsPlan` (a set of unfinished tasks always has one that
  depends on none of them) gives a ready task: no deadlock.
* `BudgetInv` (as long as `PlannedOnce`: no PLANNING task replaces the plan): the steps taken and three for each
  attempt that is left never exceed three for all attempts of all tasks and an
  `Allowance` of 2 to 4 that depends on the node. The budget alone is not inductive,
  since it does not say why another step is affordable. The attempts left (`Left`)
  are a finite set of pairs of a task and a number, so that their number is a
  cardinality and needs no sum over the tasks; each visit of the validator takes one
  out of it. `PlanPlace` says that the planner is asked once, first, and that a
  decision is in flight in the first two steps only.

`ExecutionBackendProofs` and `BackendOwnershipProofs` prove, for all sets of runs
and keys, sizes of the pool and the queue and numbers of submissions, from
`SizesAssumption` and `NoneAssumption` (which TLC evaluates in every backend run),
the type invariant and the other safety properties that `backend_lifecycle` checks:

* in every environment `BackendTypeCorrect`, `KeysRunOnce`, `JobTellsResult`. The
  inductive invariant is `Bookkeeping`. `OneRunPerKey` alone is not inductive: the
  step that completes or releases a key must know that nobody else carries it.
  `Apart` says that a submission is in one place, `HandsFull` that the item of a
  worker is in its hand exactly while it is in the runtime, `Known` and
  `CarriedKnown` that carried items belong to accepted submissions of stored runs,
  so that a new submission is different from all of them. `JobMatchesStore` is
  inductive beside it.
* in the `Calm` environment (no submission after a shutdown) `PoolIsWhole`,
  `RunsHaveOneWorker`, `WorkEndsWithResult`, `ResultsAreFinal`, from
  `Bookkeeping /\ Ownership`: `PoolInv` (workers that live are those of the pool,
  and no sentinel or stop is around before a shutdown gathers), `ActiveInv`
  (`_active_tasks` and the workers' hands agree both ways), `Latest` (a carried
  item of a run that is not `raced` is its latest submission, so that the run is
  carried at most once) and `OpenWork` (a run that is not `raced` has no result
  while it is in hand, and in the queue only one of a cancellation). Nothing is
  assumed of the reviewers: a run on which decisions overlapped is `raced` from
  then on, and the three theorems about runs speak of the others. The violated run
  `backend_second_decision` shows why the exception cannot go, and the sentinels of
  a shutdown (see *Disagreements met*) why the condition cannot.

`RunServiceProofs` proves, for every set of subscribers, reviewers and cancellers, capacity
and number of faults, over all stores, `RunTypeCorrect`, `WorkersSurvive`,
`RefusedIsNotStored`, `StreamsEndLate`, `EventsTellStore`, `ResultsStay`,
`EndsAreKept` and `CheckpointsAreTheRuns`, from the named assumptions of `RunService` and `StateStores`, which
TLC evaluates in `run_service`. The inductive invariant is `RunInvariant`:

* in every store `TypeOK` and, for each coroutine, what holds at each of its labels
  (`SubmitInv`, `WorkerInv`, `DecideInv`, `CancelInv`); a worker is lost by the second
  of two cancellations, and they come from two different clients;
* when the store does not suspend, `Atomic`: a coroutine between two calls of the
  store has the event loop. What it read is then still so, which makes `StoredInv`
  (what is stored at each label), `EventInv` (what was published last tells the
  store) and `StreamInv` inductive. Where decisions overlap, a worker may rely on
  no more than what it saved itself: the parts that say more have `~overlapped` as
  a premise. `EndEventKept` needs that a queue loses its oldest event only, and
  that an event published when the run can no longer be decided on is an end, so
  that what pushes an end out of a full queue is an end itself;
* in the in-memory store, with cancellations and overlapping decisions,
  `CheckpointInv` for the checkpoints. `CheckpointsFollowRun` looks at an idle worker only; the
  invariant follows the first execution through its phases: `Fresh` (nothing made),
  `Making` (all under the runtime's run_id, numbered in the order of their making),
  `Moving` (`Partly`: those up to a number are the client's, the rest is still to
  move) and afterwards `Moved`. It holds because nothing in the first three phases
  tells anybody that the run gave a result or paused (`Told`), so that no resumption
  can come in between and add to a list that is half moved.

`RouterProofs` proves `RouterTypeCorrect` and `RouterKeepsPromise`, the refinement
`RouterSpec => Promise!Spec`, for every set of providers and routers and every
`MaxRetries`, from `RouterAssumption`. `RouterInvariant` with `InTrouble` says that
the attempted providers, but for the one being asked, are those in trouble, that
their troubles are passing ones while the call goes on, and that what is in the
messages was said by the one being asked.

`VectorStoreProofs` proves `WindowsCoverText` and `WindowsOverlap` for every length,
size and overlap (arithmetic of the last window), and `StoreTypeCorrect` and
`VectorsMatchChunks` from `StoreAssumption`; the invariant `StoreInvariant` adds the
types to the equality of the two lengths. `AgentsProofs` carries types, vectors and
the promise over to `Agents`: a step of an agent is a step of the router or of the
store, leaves them alone, or forgets a call that has ended (`Failover!Again`).

`AgentsProofs` also proves `AcceptedAreRunnable`, for plans of any size: `ValidDag`
accepts a plan exactly if `Runnable` holds of it (`ValidDagIsRunnable`). `Runnable` is
about sets of tasks and knows no queue. `KahnState` is the invariant of the loop:
the tasks done and those queued are disjoint, every task's in-degree counts its
dependencies that are not done, with their repetitions, and the queue lists, once each,
the tasks that wait for nothing, and a set with tasks that are done has one that needs
none of the set (`Ordered`). If all tasks are visited that is `Runnable`; if some are
not, they are a set in which each waits for another. The induction over the turns is
one about sets of numbers (`EveryTurn`), from the well-foundedness of `<` on the
naturals, because the library's induction theorems take an operator as a parameter;
`RecursionExists` gives `Kahn` and `InOrder` their values in the same way.

`GatewayProofs` proves, for all limits, windows, sizes of the limiter's store and
deployments, from `GatewayAssumption`, `GatewayTypeCorrect`, `LimiterImplementsQuota`
(`Spec => Quota!Spec`), `RetryAfterCorrect`, `BuiltInAreNotLetIn` and `QuotaIsOnesOwn`.
The invariant is `LimiterInvariant`: for each key (`KeyInvariant`) the stamps of the
present time are numbered 1 to n without gaps, so that the next stamp is a new
one and a grant adds exactly one request to the window; a sweep takes only what
no window contains any more.

Every safety invariant and action property that a passing run checks is a theorem.
Only model-checked is what needs fairness, which is out of the prover's reach:
`RunReachesResult` and the fair half of `ImplementsLifecycle`,
`EverySubmissionAnswered`, `ShutdownEnds`, `ClientIsAnswered`, `StreamsEnd`, and
`CallEnds`, the second half of `ImplementsFailover`.

## Plan

Done, in this order: `SupervisorGraph` with its runs and proofs; `ExecutionBackend`
with its runs and proofs; `StateStores` and `RunService` (event streams,
checkpoints, suspensions) with run and proofs; `LLMRouter`, `Failover`,
`VectorStore`, plan validation and registry, composed in `Agents`, with run and
proofs; `ApiGateway` and `RequestQuota` with run and proofs.

Components that interact, or that are pure, share a run, so that each run still
asks one question. Not done, and worth doing: a second worker and a second
submission in `RunService`, whose states would then be those of `ExecutionBackend`
times those of the streams; the joiners of an idempotency key with the run_id and
the cached PAUSED state they are given.

## Not modelled

* Observability (metrics, tracing, audit) and evaluation and benchmarks: they
  observe finished or running work and decide nothing; the gauge that drifts is
  in the list of hazards.
* Scores, filters and embedding models of the retrieval: numerical, and no state
  depends on which chunks are nearest.
* Schemas, the mapping of states to responses, prompts and the wording of messages:
  formatting. Hashes and signatures: a credential is valid or it is not.
* `get_checkpoint` and `delete_run` of the stores, and `clear` of the ledger: nothing
  in `src/` but tests calls them.
* The wiring of a service for every request (see above): each request would be an
  instance of its own, and the properties about several requests have no meaning.
