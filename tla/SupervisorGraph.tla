------------------------- MODULE SupervisorGraph -------------------------
(***************************************************************************)
(* One orchestration run driven by the supervisor state graph: the nodes   *)
(* of orchestration/nodes.py, the edges of orchestration/runtime.py, the   *)
(* OrchestrationState, Task and ExecutionPlan they change, and the state   *)
(* store's copy of the run.  A step of the specification is one node of    *)
(* the graph (a whole handler and the edge it leaves by), the return of    *)
(* the graph to the runtime, or a reviewer's decision that starts the      *)
(* graph again.  The agents' answers (plan, execution result, critique)    *)
(* are chosen freely: they come from a language model.                     *)
(*                                                                         *)
(* Tasks are named by their position in the plan, because the supervisor   *)
(* takes the first ready task in plan order.                               *)
(***************************************************************************)
EXTENDS Naturals, Sequences, FiniteSets

CONSTANTS
    MaxTasks,        \* bound on the number of tasks of a plan
    Plans,           \* the validated plans the planner may answer with
    MaxRetries,      \* Task.max_retries
    MaxSteps,        \* OrchestrationRuntime.max_steps, the recursion limit
    MaxEscalations,  \* bound on the escalations of one run
    Verdicts,        \* the statuses a submitted HumanDecision may carry
    Faults,          \* which of "raise" and "crash" may happen
    NONE             \* Python's None

Task == 1 .. MaxTasks
TaskType == {"planning", "retrieval", "tool", "synthesis"}
TaskStatus == {"pending", "in_progress", "completed", "failed"}
RequestStatus == {"pending", "approved", "modified", "rejected", "timeout"}
ExecutionStatus == {"running", "paused_for_human", "completed", "failed"}
Terminal == {"completed", "failed"}

\* What PlannerAgent.validate_plan_dag lets through: tasks with dependencies
\* among them and no cycle, so that Kahn's algorithm never stops before the
\* end: of any tasks left, one depends on none of the others.
IsPlan(p) ==
    /\ p.ids \in SUBSET Task
    /\ p.ids # {}
    /\ p.type \in [Task -> TaskType]
    /\ p.deps \in [Task -> SUBSET p.ids]
    /\ \A left \in SUBSET p.ids :
          left # {} => \E t \in left : p.deps[t] \cap left = {}

ASSUME BoundsAssumption ==
    /\ MaxTasks \in Nat \ {0}
    /\ MaxRetries \in Nat
    /\ MaxSteps \in Nat \ {0}
    /\ MaxEscalations \in Nat
    /\ Verdicts \subseteq RequestStatus
    /\ Faults \subseteq {"raise", "crash"}

ASSUME PlansAssumption == \A p \in Plans : IsPlan(p)

ASSUME NoneAssumption ==
    /\ NONE \notin Plans
    /\ NONE \notin Task
    /\ NONE \notin [req : Nat, status : RequestStatus, payload : BOOLEAN]

VARIABLES
    node,      \* the graph node about to run; "end" and "idle" are none
    steps,     \* nodes run since the graph was started
    entry,     \* whether run() or resume_with_human_decision() started it
    current,   \* GraphState.current_task_id
    decision,  \* GraphState.human_decision
    state,     \* the OrchestrationState the nodes change
    saved      \* the copy of it the state store holds

vars == <<node, steps, entry, current, decision, state, saved>>
graph == <<entry, current, decision>>

Node == {"supervisor", "planner", "retrieval", "tool", "validator",
         "human_gate", "synthesis", "failed"}

\* A decision names a request by its position; 0 is an id no request has.
Decision == [req : 0 .. MaxEscalations, status : Verdicts, payload : BOOLEAN]
Request == [task : Task, status : RequestStatus]
OrchestrationState ==
    [status : ExecutionStatus, requires_human : BOOLEAN,
     plan : Plans \cup {NONE},
     task : [Task -> [status : TaskStatus, retries : Nat]],
     requests : Seq(Request)]

-----------------------------------------------------------------------------
(* ExecutionPlan and OrchestrationState helpers.                           *)

FreshTasks == [t \in Task |-> [status |-> "pending", retries |-> 0]]
Planned(s) == IF s.plan = NONE THEN {} ELSE s.plan.ids
InStatus(s, x) == {t \in Planned(s) : s.task[t].status = x}

\* Mutant: a task that is already running or done is handed out again.
IsReadyAgain(s, t) ==
    /\ t \in Planned(s) \ InStatus(s, "failed")
    /\ s.plan.deps[t] \subseteq InStatus(s, "completed")

IsReady(s, t) ==
    /\ t \in InStatus(s, "pending")
    /\ s.plan.deps[t] \subseteq InStatus(s, "completed")
IsFirstReady(s, t) ==
    /\ IsReady(s, t)
    /\ \A u \in Task : IsReady(s, u) => t <= u
NoneReady(s) == \A t \in Task : ~IsReady(s, t)

AllCompleted(s) == Planned(s) # {} /\ Planned(s) = InStatus(s, "completed")
HasFailedTasks(s) == InStatus(s, "failed") # {}

MarkTask(s, t, x) == [s EXCEPT !.task[t].status = x]
FailRun(s) == [s EXCEPT !.status = "failed"]

\* Mutant: the escalation forgets to raise the flag.
RequestWithoutFlag(s, t) ==
    [s EXCEPT !.requests = Append(@, [task |-> t, status |-> "pending"]),
              !.status = "paused_for_human"]

RequestEscalation(s, t) ==
    [s EXCEPT !.requests = Append(@, [task |-> t, status |-> "pending"]),
              !.requires_human = TRUE,
              !.status = "paused_for_human"]

HasPending(requests) ==
    \E i \in DOMAIN requests : requests[i].status = "pending"

\* Mutant: the flag is not computed again once the request is resolved.
ApplyDecisionStale(s, d) ==
    [s EXCEPT !.requests = [i \in DOMAIN s.requests |->
        IF i = d.req THEN [s.requests[i] EXCEPT !.status = d.status]
                     ELSE s.requests[i]]]

ApplyDecision(s, d) ==
    LET resolved == [i \in DOMAIN s.requests |->
                        IF i = d.req THEN [s.requests[i] EXCEPT !.status = d.status]
                                     ELSE s.requests[i]]
    IN  [s EXCEPT !.requests = resolved,
                  !.requires_human = HasPending(resolved),
                  !.status = IF HasPending(resolved) THEN @ ELSE "running"]

MarkDecided(s, t, x) == IF t = NONE THEN s ELSE MarkTask(s, t, x)

\* The verdict the validator node reads out of a critique, in the order it
\* tests: the agent escalates on the flag alone, then VALID or is_valid, then
\* NEEDS_RETRY or needs_retry; all else, a failed critique too, rejects.
Critique == [status : {"valid", "invalid", "needs_retry", "needs_human_review"},
             is_valid : BOOLEAN, needs_retry : BOOLEAN, needs_human : BOOLEAN]
Verdict(c) ==
    IF c.needs_human THEN "escalate"
    ELSE IF c.status = "valid" \/ c.is_valid THEN "accept"
    ELSE IF c.status = "needs_retry" \/ c.needs_retry THEN "retry"
    ELSE "reject"

-----------------------------------------------------------------------------
(* The graph nodes.                                                        *)

\* Mutant: the recursion limit is off by one.
StepOneMore(from, to) ==
    /\ node = from
    /\ steps <= MaxSteps
    /\ node' = to
    /\ steps' = steps + 1
    /\ UNCHANGED <<entry, saved>>

\* The node runs and the graph leaves it for another one.
Step(from, to) ==
    /\ node = from
    /\ steps < MaxSteps
    /\ node' = to
    /\ steps' = steps + 1
    /\ UNCHANGED <<entry, saved>>

\* Mutant: the ready tasks are looked for before the decision and the review.
MayDispatchFirst == state.status # "failed"

\* Nothing stands before the plan: no decision to apply, no failure, no review.
MayDispatch ==
    /\ decision = NONE
    /\ state.status # "failed"
    /\ ~state.requires_human

SupervisorToGate ==
    /\ Step("supervisor", "human_gate")
    /\ \/ decision # NONE
       \/ state.status # "failed" /\ state.requires_human
    /\ UNCHANGED <<current, decision, state>>

SupervisorToPlanner ==
    /\ Step("supervisor", "planner")
    /\ MayDispatch
    /\ state.plan = NONE
    /\ UNCHANGED <<current, decision, state>>

Handler == [planning |-> "planner", retrieval |-> "retrieval",
            tool |-> "tool", synthesis |-> "synthesis"]

\* Mutant: the first pending task is taken, whatever it depends on.
SupervisorDispatchPending ==
    /\ MayDispatch
    /\ \E t \in InStatus(state, "pending") :
          /\ \A u \in InStatus(state, "pending") : t <= u
          /\ Step("supervisor", Handler[state.plan.type[t]])
          /\ current' = t
    /\ UNCHANGED <<decision, state>>

SupervisorDispatch ==
    /\ MayDispatch
    /\ \E t \in Task :
          /\ IsFirstReady(state, t)
          /\ Step("supervisor", Handler[state.plan.type[t]])
          /\ current' = t
    /\ UNCHANGED <<decision, state>>

\* Mutant: no task is ready, so all must be done.
SupervisorToSynthesisEarly ==
    /\ Step("supervisor", "synthesis")
    /\ MayDispatch
    /\ state.plan # NONE
    /\ NoneReady(state)
    /\ UNCHANGED <<current, decision, state>>

SupervisorToSynthesis ==
    /\ Step("supervisor", "synthesis")
    /\ MayDispatch
    /\ NoneReady(state)
    /\ AllCompleted(state)
    /\ UNCHANGED <<current, decision, state>>

\* A failed run, a failed task, or the dependency deadlock.
SupervisorToFailed ==
    /\ Step("supervisor", "failed")
    /\ decision = NONE
    /\ \/ state.status = "failed"
       \/ /\ MayDispatch
          /\ state.plan # NONE
          /\ NoneReady(state)
          /\ ~AllCompleted(state)
    /\ UNCHANGED <<current, decision, state>>

Supervisor ==
    \/ SupervisorToGate
    \/ SupervisorToPlanner
    \/ SupervisorDispatch
    \/ SupervisorToSynthesis
    \/ SupervisorToFailed

\* The planner node always returns to the supervisor, failed or not.
Planner ==
    /\ Step("planner", "supervisor")
    /\ \/ \E p \in Plans :
             state' = [state EXCEPT !.plan = p, !.task = FreshTasks]
       \/ state' = FailRun(state)
    /\ UNCHANGED <<current, decision>>

\* The retrieval and the tool node: both go on to the validator, whatever the
\* agent answered.
Execute(worker) ==
    /\ Step(worker, "validator")
    /\ IF current \in Planned(state)
       THEN \E outcome \in {"in_progress", "failed"} :
               state' = MarkTask(state, current, outcome)
       ELSE state' = FailRun(state)
    /\ UNCHANGED <<current, decision>>

Retrieval == Execute("retrieval")
Tool == Execute("tool")

\* Mutant: the retry is counted and the task is not requeued.
CountRetryOnly(s, t) == [s EXCEPT !.task[t].retries = @ + 1]

\* Mutant: the budget is off by one.
CountRetryOneMore(s, t) ==
    LET counted == s.task[t].retries + 1
    IN  [s EXCEPT !.task[t] =
            [status |-> IF counted <= MaxRetries THEN "pending" ELSE "failed",
             retries |-> counted]]

\* The retry branch counts the retry first and then looks at the budget.
CountRetry(s, t) ==
    LET counted == s.task[t].retries + 1
    IN  [s EXCEPT !.task[t] =
            [status |-> IF counted < MaxRetries THEN "pending" ELSE "failed",
             retries |-> counted]]

ValidatorToGate ==
    /\ Step("validator", "human_gate")
    /\ current \in Planned(state)
    /\ "escalate" \in {Verdict(c) : c \in Critique}
    /\ Len(state.requests) < MaxEscalations
    /\ state' = RequestEscalation(state, current)
    /\ UNCHANGED <<current, decision>>

ValidatorToSupervisor ==
    /\ Step("validator", "supervisor")
    /\ IF current \in Planned(state)
       THEN \E verdict \in {Verdict(c) : c \in Critique} :
               \/ /\ verdict = "accept"
                  /\ state' = MarkTask(state, current, "completed")
                  /\ current' = NONE
               \/ /\ verdict = "retry"
                  /\ state' = CountRetry(state, current)
                  /\ UNCHANGED current
               \/ /\ verdict = "reject"
                  /\ state' = MarkTask(state, current, "failed")
                  /\ UNCHANGED current
       ELSE UNCHANGED <<state, current>>
    /\ UNCHANGED decision

Validator == ValidatorToGate \/ ValidatorToSupervisor

\* The task a decision is about: the active one, else the one its request
\* names, if the plan still has it.
DecidedTask ==
    LET named == IF current # NONE THEN current
                 ELSE IF decision.req \in DOMAIN state.requests
                 THEN state.requests[decision.req].task
                 ELSE NONE
    IN  IF named \in Planned(state) THEN named ELSE NONE

\* Mutant: the decision is not taken out of the graph state.
GateApprovesKeepsDecision ==
    /\ Step("human_gate", "supervisor")
    /\ decision # NONE
    /\ decision.status = "approved"
    /\ state' = [MarkDecided(ApplyDecision(state, decision),
                             DecidedTask, "completed")
                   EXCEPT !.requires_human = FALSE, !.status = "running"]
    /\ current' = NONE
    /\ UNCHANGED decision

\* An approval completes the task, if the decision's request names one, and
\* clears requires_human even while another request is still pending.
GateApproves ==
    /\ Step("human_gate", "supervisor")
    /\ decision # NONE
    /\ decision.status = "approved"
    /\ state' = [MarkDecided(ApplyDecision(state, decision),
                             DecidedTask, "completed")
                   EXCEPT !.requires_human = FALSE, !.status = "running"]
    /\ decision' = NONE
    /\ current' = NONE

\* A modification requeues the task only when it carries a payload.
GateModifies ==
    /\ Step("human_gate", "supervisor")
    /\ decision # NONE
    /\ decision.status = "modified"
    /\ state' = [MarkDecided(ApplyDecision(state, decision),
                             IF decision.payload THEN DecidedTask
                                                 ELSE NONE, "pending")
                   EXCEPT !.requires_human = FALSE, !.status = "running"]
    /\ decision' = NONE
    /\ current' = NONE

GateRejects ==
    /\ Step("human_gate", "failed")
    /\ decision # NONE
    /\ decision.status = "rejected"
    /\ state' = FailRun(MarkDecided(ApplyDecision(state, decision),
                                    DecidedTask, "failed"))
    /\ decision' = NONE
    /\ current' = NONE

\* No decision, or one that is no verdict: the graph ends paused.
GatePauses ==
    /\ Step("human_gate", "end")
    /\ \/ /\ decision = NONE
          /\ state' = [state EXCEPT !.status = "paused_for_human"]
       \/ /\ decision # NONE
          /\ decision.status \in {"pending", "timeout"}
          /\ state' = [ApplyDecision(state, decision)
                         EXCEPT !.status = "paused_for_human"]
    /\ UNCHANGED <<current, decision>>

HumanGate == GateApproves \/ GateModifies \/ GateRejects \/ GatePauses

\* Completes the synthesis tasks and the run, whatever the other tasks are.
Synthesis ==
    /\ Step("synthesis", "end")
    /\ state' = [state EXCEPT
          !.task = [t \in Task |->
              IF t \in Planned(state) /\ state.plan.type[t] = "synthesis"
              THEN [state.task[t] EXCEPT !.status = "completed"]
              ELSE state.task[t]],
          !.status = "completed"]
    /\ UNCHANGED <<current, decision>>

Failed ==
    /\ Step("failed", "end")
    /\ state' = FailRun(state)
    /\ UNCHANGED <<current, decision>>

-----------------------------------------------------------------------------
(* The runtime around the graph.                                           *)

\* No invocation of the graph is left.
Idle ==
    /\ node' = "idle"
    /\ steps' = 0
    /\ current' = NONE
    /\ decision' = NONE
    /\ UNCHANGED entry

\* The graph has ended: its final state is saved.
Return ==
    /\ node = "end"
    /\ saved' = state
    /\ Idle
    /\ UNCHANGED state

\* An exception leaves the graph.  run() fails the run and saves it;
\* resume_with_human_decision() lets go of the state it was working on.
Raise(s) ==
    /\ Idle
    /\ saved' = IF entry = "run" THEN FailRun(s) ELSE saved
    /\ state' = saved'

\* RetrievalAgent.execute builds its query outside its try block.
RetrievalRaises ==
    /\ "raise" \in Faults
    /\ node = "retrieval"
    /\ current \in Planned(state)
    /\ Raise(MarkTask(state, current, "in_progress"))

\* Whether a graph that has just ended counts as within the limit is the graph
\* library's choice.
RecursionLimit ==
    /\ node # "idle"
    /\ steps = MaxSteps
    /\ Raise(state)

\* The process ends while the graph runs; what is stored is all that is left.
Crash ==
    /\ "crash" \in Faults
    /\ node # "idle"
    /\ Idle
    /\ state' = saved
    /\ UNCHANGED saved

\* Mutant: the terminal statuses are not looked at.
ResumableOnFlag(s) == s.requires_human

\* What the backend asks of a stored run before it resumes it.
Resumable(s) == s.requires_human /\ s.status \notin Terminal

\* Mutant: the flag is cleared when the run is started again.
ResumeClearsFlag(d) ==
    /\ node = "idle"
    /\ Resumable(saved)
    /\ state' = [saved EXCEPT !.status = "running", !.requires_human = FALSE]
    /\ saved' = state'
    /\ node' = "supervisor"
    /\ steps' = 0
    /\ entry' = "resume"
    /\ current' = NONE
    /\ decision' = d

\* A worker marks the stored run RUNNING, saves it and starts the graph again.
Resume(d) ==
    /\ node = "idle"
    /\ Resumable(saved)
    /\ state' = [saved EXCEPT !.status = "running"]
    /\ saved' = state'
    /\ node' = "supervisor"
    /\ steps' = 0
    /\ entry' = "resume"
    /\ current' = NONE
    /\ decision' = d

-----------------------------------------------------------------------------
\* create_initial, and the state run() saves before it starts the graph.
InitialState ==
    [status |-> "running", requires_human |-> FALSE, plan |-> NONE,
     task |-> FreshTasks, requests |-> <<>>]

Init ==
    /\ node = "supervisor"
    /\ steps = 0
    /\ entry = "run"
    /\ current = NONE
    /\ decision = NONE
    /\ state = InitialState
    /\ saved = InitialState

GraphStep ==
    \/ Supervisor \/ Planner \/ Retrieval \/ Tool \/ Validator \/ HumanGate
    \/ Synthesis \/ Failed \/ Return \/ RetrievalRaises \/ RecursionLimit

Review == \E d \in Decision : Resume(d)

Next == GraphStep \/ Crash \/ Review

Spec == Init /\ [][Next]_vars

\* The event loop goes on running a started graph, and some reviewer answers
\* a run that waits for one.
FairSpec == Spec /\ WF_vars(GraphStep) /\ WF_vars(Review)

-----------------------------------------------------------------------------
(* Properties.                                                             *)

\* The type of the state.
TypeOK ==
    /\ node \in Node \cup {"end", "idle"}
    /\ steps \in 0 .. MaxSteps
    /\ entry \in {"run", "resume"}
    /\ current \in Task \cup {NONE}
    /\ decision \in Decision \cup {NONE}
    /\ state \in OrchestrationState
    /\ saved \in OrchestrationState

\* A task a worker node starts is pending and its dependencies are completed
\* at that moment, and the validator only sees the task a worker has just
\* run: the "not found" returns of the three nodes are never taken.
WorkIsReady ==
    /\ node \in {"retrieval", "tool"} =>
          current \in Task /\ IsReady(state, current)
    /\ node = "validator" =>
          current \in InStatus(state, "in_progress") \cup InStatus(state, "failed")

\* While a reviewer is being waited for no agent works on the run.
NoWorkDuringReview ==
    node \in {"planner", "retrieval", "tool", "validator", "synthesis"} =>
        ~state.requires_human

\* A run that says it waits for a reviewer has a request to review, in memory
\* and in the store.
ReviewHasRequest ==
    \A s \in {state, saved} : s.requires_human => HasPending(s.requests)

\* In a plan whose synthesis task depends on all the others (or that has
\* none), a COMPLETED run has every task COMPLETED.
SynthesisLast(p) ==
    \A t \in p.ids : p.type[t] = "synthesis" => p.deps[t] = p.ids \ {t}

CompletedRunIsWhole ==
    \A s \in {state, saved} :
        s.status = "completed" =>
            s.plan # NONE /\ (SynthesisLast(s.plan) => AllCompleted(s))

\* The "dependency deadlock" of the supervisor needs a reviewer's decision: in
\* a run that never escalated some task is ready, or failed, or all are done.
DeadlockNeedsReviewer ==
    node = "supervisor" /\ MayDispatch /\ state.plan # NONE
    /\ NoneReady(state) /\ ~AllCompleted(state) /\ ~HasFailedTasks(state) =>
        state.requests # <<>>

Attempts == IF MaxRetries = 0 THEN 1 ELSE MaxRetries

WithinSteps ==
    state.plan # NONE => steps <= 4 + 3 * Attempts * Cardinality(state.plan.ids)

\* The planner is only asked for a plan that the run does not have yet.
PlannedOnce == node = "planner" => state.plan = NONE

\* A run that is not planned anew by a PLANNING task ends each invocation of
\* the graph within four steps and three for every attempt of a task: it never
\* meets a recursion limit above that (50 serves five tasks with three retries).
WithinStepBudget == []PlannedOnce => []WithinSteps

\* The task a decision's request names, and the decision changes tasks.
ReviewReopens(t) ==
    /\ node = "human_gate"
    /\ decision # NONE
    /\ decision.status \in {"modified", "rejected"}
    /\ decision.req \in DOMAIN state.requests
    /\ state.requests[decision.req].task = t

\* A completed task is undone only by a reviewer who modifies or rejects the
\* very task by an answered request of it, by a new plan, or by the loss of the
\* working state: never by a dispatch, a retry, a late validation or a decision
\* about another task.
CompletedStaysCompleted ==
    [][\A t \in Task :
          state.task[t].status = "completed" =>
              \/ state'.task[t].status = "completed"
              \/ ReviewReopens(t)
              \/ node = "planner"
              \/ node' = "idle"]_vars

\* A stored run that a reviewer may resume stays so until the graph has ended
\* and its result is stored, whatever is raised and whenever the process dies.
ResumableUntilResult ==
    [][Resumable(saved) /\ node # "end" => Resumable(saved')]_vars

\* A stored result is final.
ResultIsFinal ==
    [][saved.status \in Terminal => UNCHANGED saved]_vars

\* What puts no bound on a run: a reviewer who requeues tasks, and a plan made
\* anew after a resumption, which fails no run when the recursion limit ends it.
Reopens ==
    \/ decision # NONE /\ decision.status = "modified" /\ decision.payload
    \/ node = "planner" /\ entry = "resume"

\* A run whose reviewer answers comes to a stored result, unless tasks are
\* requeued or planned anew after a resumption for ever: retries, escalations, replanning
\* before the first review and decisions about other requests do not keep it.
RunReachesResult ==
    <>[]~Reopens => <>(node = "idle" /\ saved.status \in Terminal)

\* What the documentation says and the code does not do.

\* docs/architecture.md:241 sends the run to synthesis when all tasks are
\* completed; a SYNTHESIS task is sent there as soon as it is ready itself.
SynthesisAfterAllTasks ==
    node = "synthesis" =>
        \A t \in Planned(state) :
            \/ state.plan.type[t] = "synthesis"
            \/ state.task[t].status = "completed"

\* docs/architecture.md:315 never dispatches a completed task again; a MODIFIED
\* decision that names a request answered before makes its task PENDING.
CompletedIsNeverRequeued ==
    [][\A t \in Task :
          /\ state.task[t].status = "completed"
          /\ node \notin {"planner", "idle"}
          /\ node' # "idle"
          => state'.task[t].status # "pending"]_vars

\* api/routes/human.py:71 admits three verdicts; a TIMEOUT is let through,
\* resolves the request and leaves the run paused with nothing to decide.
PausedRunIsResumable ==
    node = "idle" /\ saved.status = "paused_for_human" => Resumable(saved)

-----------------------------------------------------------------------------
\* A run is the life cycle a client sees: executing while the graph runs, and
\* what the store says of it otherwise ("lost" is no phase of a life cycle).
Phase ==
    IF node # "idle" THEN "executing"
    ELSE IF saved.status \in Terminal THEN saved.status
    ELSE IF Resumable(saved) THEN "awaiting_review"
    ELSE "lost"

Lifecycle == INSTANCE RunLifecycle WITH phase <- Phase

\* The graph and the runtime around it implement the life cycle.
ImplementsLifecycle == Lifecycle!FairSpec
=============================================================================
