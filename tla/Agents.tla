------------------------------- MODULE Agents -------------------------------
(***************************************************************************)
(* The four agents (agents/): the planner and the validator, which call    *)
(* the router; the tool agent, which calls the registry (tools/); and the  *)
(* retrieval agent, which searches the document store.  What they call can *)
(* change while they wait: tools are registered and removed, documents are *)
(* added, saved and loaded.                                                *)
(*                                                                         *)
(* One execution of one agent is modelled; the supervisor that executes    *)
(* agents, and retries what is retryable, is SupervisorGraph.              *)
(***************************************************************************)
EXTENDS LLMRouter, VectorStore

CONSTANTS
    TaskIds,   \* ids in plans
    Plans,     \* the plans an LLM answers: sequences of [id, dependencies]
    Tools      \* tool names

ASSUME AgentsAssumption ==
    Plans \subseteq Seq([id : TaskIds, dependencies : Seq(TaskIds)])

VARIABLES
    agent,    \* the agent that executes
    tools,    \* the registry's _tools
    waiting,  \* the tool the tool agent waits for
    plan,     \* the plan the planner was answered
    result    \* AgentResult.status, "none" before, "raised" when execute raises

agentVars == <<agent, tools, waiting, plan, result>>
vars == <<routerVars, storeVars, agentVars>>

AgentStatus == {"success", "failure", "retryable_failure", "escalate_human"}

\* AgentResult.failure.
Failure(retryable) == IF retryable THEN "retryable_failure" ELSE "failure"

-----------------------------------------------------------------------------
(* validate_plan_dag.                                                      *)

IdsOf(tasks) == {tasks[i].id : i \in DOMAIN tasks}

\* The dependencies of the task called t, with their repetitions.
DependenciesOf(tasks, t) == tasks[CHOOSE i \in DOMAIN tasks : tasks[i].id = t].dependencies

Occurrences(x, s) == Cardinality({i \in DOMAIN s : s[i] = x})

DuplicateIds(tasks) == Cardinality(IdsOf(tasks)) # Len(tasks)

MissingReference(tasks) ==
    \E i \in DOMAIN tasks : \E j \in DOMAIN tasks[i].dependencies :
        tasks[i].dependencies[j] \notin IdsOf(tasks) \ {tasks[i].id}

\* The tasks in chosen, in the order of the plan.
InOrder(tasks, chosen) ==
    LET upTo[n \in 0 .. Len(tasks)] ==
            IF n = 0 THEN <<>>
            ELSE IF tasks[n].id \in chosen THEN Append(upTo[n - 1], tasks[n].id)
            ELSE upTo[n - 1]
    IN  upTo[Len(tasks)]

\* Kahn's algorithm: the tasks in the queue, the in-degrees, the number of tasks
\* visited; before its loop, after one more turn, and when the queue is empty.
KahnStart(tasks) ==
    LET degree == [t \in IdsOf(tasks) |-> Len(DependenciesOf(tasks, t))]
    IN  [queue |-> InOrder(tasks, {t \in IdsOf(tasks) : degree[t] = 0}),
         degree |-> degree, visited |-> 0]

KahnTurn(tasks, s) ==
    LET degree == [t \in IdsOf(tasks) |->
                      s.degree[t] - Occurrences(Head(s.queue), DependenciesOf(tasks, t))]
        released == {t \in IdsOf(tasks) : degree[t] = 0 /\ s.degree[t] # 0}
    IN  [queue |-> Tail(s.queue) \o InOrder(tasks, released),
         degree |-> degree, visited |-> s.visited + 1]

Kahn(tasks) ==
    LET run[n \in 0 .. Len(tasks)] ==
            IF n = 0 THEN KahnStart(tasks)
            ELSE IF run[n - 1].queue = <<>> THEN run[n - 1]
            ELSE KahnTurn(tasks, run[n - 1])
    IN  run[Len(tasks)]

\* Mutant: tasks that wait for each other are not noticed.
ValidDagAcyclicOrNot(tasks) ==
    /\ tasks # <<>> /\ ~DuplicateIds(tasks) /\ ~MissingReference(tasks)

ValidDag(tasks) ==
    /\ tasks # <<>> /\ ~DuplicateIds(tasks) /\ ~MissingReference(tasks)
    /\ Kahn(tasks).visited = Len(tasks)

-----------------------------------------------------------------------------
Init ==
    /\ RouterInit /\ StoreInit
    /\ agent \in {"planner", "validator", "tool", "retrieval"}
    /\ tools = {} /\ waiting = NONE /\ plan = <<>> /\ result = "none"

Ready(a) == agent = a /\ result = "none"

\* The agent returns, or raises; what it was called with is forgotten.
Returns(r) ==
    /\ result' = r
    /\ UNCHANGED <<router, storeVars, agent, tools>>

\* validate_input of any agent: no request, no tool name, no target, no query.
InvalidInput ==
    /\ result = "none" /\ call.phase = "idle" /\ waiting = NONE
    /\ Returns("failure")
    /\ UNCHANGED <<call, waiting, plan>>

\* The planner and the validator call the router for structured output.
AsksRouter ==
    /\ agent \in {"planner", "validator"} /\ result = "none"
    /\ Generate(TRUE)
    /\ UNCHANGED <<storeVars, agentVars>>

RouterStep == Reply /\ UNCHANGED <<storeVars, agentVars>>

\* A plan that is no DAG is a ValidationError, as an answer that is no plan.
PlannerReturns ==
    /\ Ready("planner") /\ call.phase = "answered"
    /\ plan' \in Plans
    /\ Returns(IF ValidDag(plan') THEN "success" ELSE Failure(ValidationError.retryable))
    /\ call' = Idle
    /\ UNCHANGED waiting

\* The critique's flag, not its status, decides whether a human is asked.
ValidatorReturns(needsHumanReview) ==
    /\ Ready("validator") /\ call.phase = "answered"
    /\ Returns(IF needsHumanReview THEN "escalate_human" ELSE "success")
    /\ call' = Idle
    /\ UNCHANGED <<waiting, plan>>

\* Every exception of the router is an OrchestratorError.
RouterRaised ==
    /\ result = "none" /\ call.phase = "failed"
    /\ \E e \in call.error : Returns(Failure(e.retryable))
    /\ UNCHANGED <<call, waiting, plan>>

-----------------------------------------------------------------------------
(* Tools.                                                                  *)

\* register refuses a name that is taken.
Register(t) ==
    /\ t \notin tools /\ tools' = tools \cup {t}
    /\ UNCHANGED <<routerVars, storeVars, agent, waiting, plan, result>>

Unregister(t) ==
    /\ t \in tools /\ tools' = tools \ {t}
    /\ UNCHANGED <<routerVars, storeVars, agent, waiting, plan, result>>

\* ToolRegistry.execute up to the tool: the parameters are no dictionary, the tool
\* is not there, the parameters are not what it takes.
ToolRefused ==
    /\ Ready("tool") /\ waiting = NONE
    /\ Returns("failure")
    /\ UNCHANGED <<call, waiting, plan>>

ToolCalled(t) ==
    /\ Ready("tool") /\ waiting = NONE /\ t \in tools
    /\ waiting' = t
    /\ UNCHANGED <<routerVars, storeVars, agent, tools, plan, result>>

\* A deadline is retryable, and so is any exception of a tool, a ToolExecutionError
\* that says it is not among them; only a ToolNotFoundError of its own is not.
ToolEnds ==
    /\ Ready("tool") /\ waiting # NONE
    /\ waiting' = NONE
    /\ \E r \in {"success", "failure", "retryable_failure"} : Returns(r)
    /\ UNCHANGED <<call, plan>>

-----------------------------------------------------------------------------
(* Retrieval.                                                              *)

\* RetrievalQuery is built outside of the try: a top_k it refuses raises.
BadTopK ==
    /\ Ready("retrieval")
    /\ Returns("raised")
    /\ UNCHANGED <<call, waiting, plan>>

\* A search raises when the store cannot be searched, or the query not embedded.
RetrievalReturns ==
    /\ Ready("retrieval") /\ Calm
    /\ \/ Searchable /\ Returns("success")
       \/ Returns(Failure(TRUE))
    /\ UNCHANGED <<call, waiting, plan>>

\* The document store goes on being used by others while the agent is there.
StoreStep == agent = "retrieval" /\ StoreNext /\ UNCHANGED <<routerVars, agentVars>>

Next ==
    \/ InvalidInput \/ AsksRouter \/ RouterStep \/ RouterRaised
    \/ PlannerReturns
    \/ \E human \in BOOLEAN : ValidatorReturns(human)
    \/ ToolRefused \/ ToolEnds
    \/ \E t \in Tools : ToolCalled(t) \/ (agent = "tool" /\ (Register(t) \/ Unregister(t)))
    \/ BadTopK \/ RetrievalReturns \/ StoreStep

Spec == Init /\ [][Next]_vars

\* The event loop runs a call that has an answer, and wait_for bounds the wait for it.
FairSpec == Spec /\ WF_vars(RouterStep)

-----------------------------------------------------------------------------
(* Properties.                                                             *)

\* The variables keep their types.
TypeOK ==
    /\ RouterTypeOK
    /\ StoreTypeOK
    /\ agent \in {"planner", "validator", "tool", "retrieval"}
    /\ tools \subseteq Tools /\ waiting \in Tools \cup {NONE}
    /\ plan \in Seq([id : TaskIds, dependencies : Seq(TaskIds)])
    /\ result \in AgentStatus \cup {"none", "raised"}

\* A plan is accepted exactly if its tasks can be executed one after the other, each
\* after the tasks it depends on: every set of its tasks has one that waits for none
\* of the set, and nothing waits for a task that is not in the plan.
Runnable(tasks) ==
    /\ tasks # <<>>
    /\ \A i, j \in DOMAIN tasks : tasks[i].id = tasks[j].id => i = j
    /\ \A i \in DOMAIN tasks :
          \A k \in DOMAIN tasks[i].dependencies : tasks[i].dependencies[k] \in IdsOf(tasks)
    /\ \A left \in (SUBSET DOMAIN tasks) \ {{}} :
          \E i \in left : \A k \in DOMAIN tasks[i].dependencies :
              \A j \in left : tasks[j].id # tasks[i].dependencies[k]

AcceptedPlansAreRunnable ==
    (agent = "planner" /\ plan # <<>>) => (result = "success" <=> Runnable(plan))
=============================================================================
