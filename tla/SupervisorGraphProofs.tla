---------------------- MODULE SupervisorGraphProofs ----------------------
(***************************************************************************)
(* Theorems about SupervisorGraph, for every plan, every recursion limit,  *)
(* every retry budget and every set of verdicts and faults.                *)
(***************************************************************************)
EXTENDS SupervisorGraph, SequenceTheorems, FiniteSetTheorems, TLAPS

-----------------------------------------------------------------------------
(* What the operators on an OrchestrationState do to its fields.           *)

\* Marking a task changes the status of that task and nothing else.
LEMMA MarkTaskFields ==
    ASSUME NEW s \in OrchestrationState, NEW t \in Task, NEW x \in TaskStatus
    PROVE  /\ MarkTask(s, t, x) \in OrchestrationState
           /\ MarkTask(s, t, x).status = s.status
           /\ MarkTask(s, t, x).requires_human = s.requires_human
           /\ MarkTask(s, t, x).plan = s.plan
           /\ MarkTask(s, t, x).requests = s.requests
           /\ MarkTask(s, t, x).task[t].status = x
           /\ \A u \in Task \ {t} : MarkTask(s, t, x).task[u] = s.task[u]
BY DEF MarkTask, OrchestrationState

\* Failing a run changes its status and nothing else.
LEMMA FailRunFields ==
    ASSUME NEW s \in OrchestrationState
    PROVE  /\ FailRun(s) \in OrchestrationState
           /\ FailRun(s).status = "failed"
           /\ FailRun(s).requires_human = s.requires_human
           /\ FailRun(s).plan = s.plan
           /\ FailRun(s).requests = s.requests
           /\ FailRun(s).task = s.task
BY DEF FailRun, OrchestrationState, ExecutionStatus

\* A counted retry leaves the task pending or failed.
LEMMA CountRetryFields ==
    ASSUME NEW s \in OrchestrationState, NEW t \in Task
    PROVE  /\ CountRetry(s, t) \in OrchestrationState
           /\ CountRetry(s, t).status = s.status
           /\ CountRetry(s, t).requires_human = s.requires_human
           /\ CountRetry(s, t).plan = s.plan
           /\ CountRetry(s, t).requests = s.requests
           /\ CountRetry(s, t).task[t].status \in {"pending", "failed"}
           /\ \A u \in Task \ {t} : CountRetry(s, t).task[u] = s.task[u]
<1> DEFINE counted == s.task[t].retries + 1
           r == [status |-> IF counted < MaxRetries THEN "pending" ELSE "failed",
                 retries |-> counted]
<1>1. s.task[t].retries \in Nat
  BY DEF OrchestrationState
<1>2. /\ r \in [status : TaskStatus, retries : Nat]
      /\ r.status \in {"pending", "failed"}
  BY <1>1 DEF TaskStatus
<1>3. CountRetry(s, t) = [s EXCEPT !.task[t] = r]
  BY DEF CountRetry
<1> HIDE DEF r
<1> DEFINE f == [s.task EXCEPT ![t] = r]
<1>4. /\ f \in [Task -> [status : TaskStatus, retries : Nat]]
      /\ f[t] = r
      /\ \A u \in Task \ {t} : f[u] = s.task[u]
  BY <1>2 DEF OrchestrationState
<1>5. CountRetry(s, t) = [s EXCEPT !.task = f]
  BY <1>3
<1> HIDE DEF f
<1> QED
  BY <1>2, <1>4, <1>5 DEF OrchestrationState

\* An escalation adds a pending request and waits for it.
LEMMA RequestEscalationFields ==
    ASSUME NEW s \in OrchestrationState, NEW t \in Task
    PROVE  /\ RequestEscalation(s, t) \in OrchestrationState
           /\ RequestEscalation(s, t).status = "paused_for_human"
           /\ RequestEscalation(s, t).requires_human
           /\ RequestEscalation(s, t).plan = s.plan
           /\ RequestEscalation(s, t).task = s.task
           /\ HasPending(RequestEscalation(s, t).requests)
<1> DEFINE r == [task |-> t, status |-> "pending"]
<1>1. r \in Request
  BY DEF Request, RequestStatus
<1>2. s.requests \in Seq(Request)
  BY DEF OrchestrationState
<1>3. /\ Append(s.requests, r) \in Seq(Request)
      /\ Len(s.requests) + 1 \in DOMAIN Append(s.requests, r)
      /\ Append(s.requests, r)[Len(s.requests) + 1] = r
  BY <1>1, <1>2
<1>4. HasPending(Append(s.requests, r))
  BY <1>3 DEF HasPending
<1> QED
  BY <1>3, <1>4 DEF RequestEscalation, OrchestrationState, ExecutionStatus

\* Applying a decision touches the requests, the flag and the run's status,
\* and the flag then says whether a request is still pending.
LEMMA ApplyDecisionFields ==
    ASSUME NEW s \in OrchestrationState, NEW d \in Decision
    PROVE  /\ ApplyDecision(s, d) \in OrchestrationState
           /\ ApplyDecision(s, d).status \in {s.status, "running"}
           /\ ApplyDecision(s, d).requires_human
                 = HasPending(ApplyDecision(s, d).requests)
           /\ ApplyDecision(s, d).plan = s.plan
           /\ ApplyDecision(s, d).task = s.task
           /\ DOMAIN ApplyDecision(s, d).requests = DOMAIN s.requests
<1> DEFINE resolved == [i \in DOMAIN s.requests |->
                IF i = d.req THEN [s.requests[i] EXCEPT !.status = d.status]
                             ELSE s.requests[i]]
<1>1. s.requests \in Seq(Request)
  BY DEF OrchestrationState
<1>2. d.status \in RequestStatus
  BY BoundsAssumption DEF Decision
<1>3. resolved \in [1 .. Len(s.requests) -> Request]
  <2>1. DOMAIN s.requests = 1 .. Len(s.requests)
    BY <1>1
  <2>2. ASSUME NEW i \in 1 .. Len(s.requests)
        PROVE  /\ s.requests[i] \in Request
               /\ [s.requests[i] EXCEPT !.status = d.status] \in Request
    <3>1. s.requests[i] \in Request
      BY <1>1
    <3> QED
      BY <1>2, <3>1 DEF Request
  <2> QED
    BY <2>1, <2>2
<1>4. resolved \in Seq(Request)
  BY <1>1, <1>3, Len(s.requests) \in Nat, SeqDef
<1>5. HasPending(resolved) \in BOOLEAN /\ DOMAIN resolved = DOMAIN s.requests
  BY DEF HasPending
<1> HIDE DEF resolved
<1>6. ApplyDecision(s, d) =
         [s EXCEPT !.requests = resolved,
                   !.requires_human = HasPending(resolved),
                   !.status = IF HasPending(resolved) THEN @ ELSE "running"]
  BY DEF ApplyDecision, resolved
<1> QED
  BY <1>4, <1>5, <1>6 DEF OrchestrationState, ExecutionStatus

-----------------------------------------------------------------------------
(* What the gate does to a state, branch by branch.                        *)

\* Marking the decided task, if there is one, is marking a task or nothing.
LEMMA MarkDecidedFields ==
    ASSUME NEW s \in OrchestrationState, NEW t \in Task \cup {NONE},
           NEW x \in TaskStatus
    PROVE  /\ MarkDecided(s, t, x) \in OrchestrationState
           /\ MarkDecided(s, t, x).status = s.status
           /\ MarkDecided(s, t, x).requires_human = s.requires_human
           /\ MarkDecided(s, t, x).plan = s.plan
           /\ MarkDecided(s, t, x).requests = s.requests
<1>1. CASE t = NONE
  BY <1>1 DEF MarkDecided
<1>2. CASE t # NONE
  BY <1>2, MarkTaskFields DEF MarkDecided
<1> QED
  BY <1>1, <1>2

\* The fields of the state after an approval or a modification.
LEMMA ClearedFields ==
    ASSUME NEW s \in OrchestrationState
    PROVE  LET c == [s EXCEPT !.requires_human = FALSE, !.status = "running"]
           IN  /\ c \in OrchestrationState
               /\ c.status = "running"
               /\ c.requires_human = FALSE
               /\ c.plan = s.plan
               /\ c.task = s.task
               /\ c.requests = s.requests
BY DEF OrchestrationState, ExecutionStatus

\* The fields of the state of a run that stays paused.
LEMMA PausedFields ==
    ASSUME NEW s \in OrchestrationState
    PROVE  LET c == [s EXCEPT !.status = "paused_for_human"]
           IN  /\ c \in OrchestrationState
               /\ c.status = "paused_for_human"
               /\ c.requires_human = s.requires_human
               /\ c.plan = s.plan
               /\ c.task = s.task
               /\ c.requests = s.requests
BY DEF OrchestrationState, ExecutionStatus

\* The task a decision is about is a task of the plan, or none.
LEMMA DecidedTaskType ==
    ASSUME TypeOK
    PROVE  DecidedTask \in Task \cup {NONE}
<1>1. state.plan \in Plans \cup {NONE}
  BY DEF TypeOK, OrchestrationState
<1>2. Planned(state) \subseteq Task
  BY <1>1, PlansAssumption DEF Planned, IsPlan
<1> QED
  BY <1>2 DEF DecidedTask

-----------------------------------------------------------------------------
(* Type correctness.                                                       *)

\* The tasks of a plan are tasks, and so is every planned one.
LEMMA PlannedTasks ==
    ASSUME NEW s \in OrchestrationState
    PROVE  Planned(s) \subseteq Task
<1>1. s.plan \in Plans \cup {NONE}
  BY DEF OrchestrationState
<1> QED
  BY <1>1, PlansAssumption DEF Planned, IsPlan

\* A graph step changes the place of the run within its type.
LEMMA StepType ==
    ASSUME TypeOK, NEW from, NEW to \in Node \cup {"end"}, Step(from, to)
    PROVE  /\ node' \in Node \cup {"end", "idle"}
           /\ steps' \in 0 .. MaxSteps
           /\ entry' \in {"run", "resume"}
           /\ saved' \in OrchestrationState
<1>1. MaxSteps \in Nat
  BY BoundsAssumption
<1>2. steps \in 0 .. MaxSteps /\ entry \in {"run", "resume"}
      /\ saved \in OrchestrationState
  BY DEF TypeOK
<1>3. node' = to /\ steps < MaxSteps /\ steps' = steps + 1 /\ UNCHANGED <<entry, saved>>
  BY DEF Step
<1> QED
  BY <1>1, <1>2, <1>3

\* Leaving the graph does so too.
LEMMA IdleType ==
    ASSUME TypeOK, Idle
    PROVE  /\ node' \in Node \cup {"end", "idle"}
           /\ steps' \in 0 .. MaxSteps
           /\ entry' \in {"run", "resume"}
           /\ current' \in Task \cup {NONE}
           /\ decision' \in Decision \cup {NONE}
BY BoundsAssumption DEF TypeOK, Idle

\* The initial state is an OrchestrationState.
LEMMA InitialStateType == InitialState \in OrchestrationState
<1>1. FreshTasks \in [Task -> [status : TaskStatus, retries : Nat]]
  BY DEF FreshTasks, TaskStatus
<1>2. <<>> \in Seq(Request)
  OBVIOUS
<1> QED
  BY <1>1, <1>2 DEF InitialState, OrchestrationState, ExecutionStatus

\* The planner's plan, with tasks that are all new.
LEMMA NewPlanFields ==
    ASSUME NEW s \in OrchestrationState, NEW p \in Plans
    PROVE  LET c == [s EXCEPT !.plan = p, !.task = FreshTasks]
           IN  /\ c \in OrchestrationState
               /\ c.status = s.status
               /\ c.requires_human = s.requires_human
               /\ c.plan = p
               /\ c.task = FreshTasks
               /\ c.requests = s.requests
<1>1. FreshTasks \in [Task -> [status : TaskStatus, retries : Nat]]
  BY DEF FreshTasks, TaskStatus
<1> QED
  BY <1>1 DEF OrchestrationState

\* The synthesis completes tasks and the run.
LEMMA SynthesisFields ==
    ASSUME TypeOK, Synthesis
    PROVE  /\ state' \in OrchestrationState
           /\ state'.status = "completed"
           /\ state'.requires_human = state.requires_human
           /\ state'.plan = state.plan
           /\ state'.requests = state.requests
           /\ \A t \in Task :
                 state'.task[t].status =
                    IF t \in Planned(state) /\ state.plan.type[t] = "synthesis"
                    THEN "completed" ELSE state.task[t].status
<1> DEFINE done(t) == t \in Planned(state) /\ state.plan.type[t] = "synthesis"
           f == [t \in Task |->
                    IF done(t) THEN [state.task[t] EXCEPT !.status = "completed"]
                               ELSE state.task[t]]
<1>1. state \in OrchestrationState
  BY DEF TypeOK
<1>2. ASSUME NEW t \in Task
      PROVE  /\ state.task[t] \in [status : TaskStatus, retries : Nat]
             /\ [state.task[t] EXCEPT !.status = "completed"]
                   \in [status : TaskStatus, retries : Nat]
             /\ [state.task[t] EXCEPT !.status = "completed"].status = "completed"
  <2>1. state.task[t] \in [status : TaskStatus, retries : Nat]
    BY <1>1 DEF OrchestrationState
  <2> QED
    BY <2>1 DEF TaskStatus
<1> HIDE DEF done
<1>3. f \in [Task -> [status : TaskStatus, retries : Nat]]
  BY <1>2
<1>4. \A t \in Task : f[t].status = IF done(t) THEN "completed"
                                               ELSE state.task[t].status
  BY <1>2
<1>5. state' = [state EXCEPT !.task = f, !.status = "completed"]
  BY DEF Synthesis, done
<1> HIDE DEF f
<1>6. /\ state' \in OrchestrationState
      /\ state'.task = f
      /\ state'.status = "completed"
      /\ state'.requires_human = state.requires_human
      /\ state'.plan = state.plan
      /\ state'.requests = state.requests
  BY <1>1, <1>3, <1>5 DEF OrchestrationState, ExecutionStatus
<1> QED
  BY <1>4, <1>6 DEF done

\* The initial states have the type.
LEMMA TypeInit == Init => TypeOK
BY InitialStateType, BoundsAssumption DEF Init, TypeOK, Node

\* A ready task is a task of the plan, and its type has a handler.
LEMMA ReadyTask ==
    ASSUME NEW s \in OrchestrationState, NEW t \in Task, IsReady(s, t)
    PROVE  /\ s.plan \in Plans
           /\ t \in s.plan.ids
           /\ s.plan.type[t] \in TaskType
           /\ Handler[s.plan.type[t]] \in Node
<1>1. t \in Planned(s) /\ s.plan \in Plans \cup {NONE}
  BY DEF IsReady, InStatus, OrchestrationState
<1>2. s.plan \in Plans /\ t \in s.plan.ids
  BY <1>1 DEF Planned
<1>3. s.plan.type[t] \in TaskType
  BY <1>2, PlansAssumption DEF IsPlan
<1>4. Handler[s.plan.type[t]] \in Node
  BY <1>3 DEF Handler, TaskType, Node
<1> QED
  BY <1>2, <1>3, <1>4

\* Every step keeps the type.
LEMMA TypeNext == TypeOK /\ [Next]_vars => TypeOK'
<1> SUFFICES ASSUME TypeOK, [Next]_vars
             PROVE  TypeOK'
  OBVIOUS
<1>0. /\ state \in OrchestrationState /\ saved \in OrchestrationState
      /\ current \in Task \cup {NONE}
      /\ decision \in Decision \cup {NONE}
      /\ Planned(state) \subseteq Task
  BY PlannedTasks DEF TypeOK
<1>1. CASE Supervisor
  <2>1. CASE SupervisorToGate \/ SupervisorToPlanner
             \/ SupervisorToSynthesis \/ SupervisorToFailed
    BY <1>0, <2>1, StepType DEF SupervisorToGate, SupervisorToPlanner,
       SupervisorToSynthesis, SupervisorToFailed, TypeOK, Node
  <2>2. CASE SupervisorDispatch
    BY <1>0, <2>2, StepType, ReadyTask DEF SupervisorDispatch, IsFirstReady, TypeOK
  <2> QED
    BY <1>1, <2>1, <2>2 DEF Supervisor
<1>2. CASE Planner
  <2>1. CASE state' = FailRun(state)
    <3>1. state' \in OrchestrationState
      BY <1>0, <2>1, FailRunFields
    <3> QED
      BY <1>0, <1>2, <3>1, StepType DEF Planner, TypeOK, Node
  <2>2. ASSUME NEW p \in Plans, state' = [state EXCEPT !.plan = p, !.task = FreshTasks]
        PROVE  TypeOK'
    <3>1. state' \in OrchestrationState
      BY <1>0, <2>2, NewPlanFields
    <3> QED
      BY <1>0, <1>2, <3>1, StepType DEF Planner, TypeOK, Node
  <2> QED
    BY <1>2, <2>1, <2>2 DEF Planner
<1>3. ASSUME NEW worker \in {"retrieval", "tool"}, Execute(worker)
      PROVE  TypeOK'
  <2>1. CASE current \in Planned(state)
    <3>1. PICK outcome \in {"in_progress", "failed"} :
             state' = MarkTask(state, current, outcome)
      BY <1>3, <2>1 DEF Execute
    <3>2. state' \in OrchestrationState
      BY <1>0, <2>1, <3>1, MarkTaskFields DEF TaskStatus
    <3> QED
      BY <1>0, <1>3, <3>2, StepType DEF Execute, TypeOK, Node
  <2>2. CASE current \notin Planned(state)
    <3>1. state' \in OrchestrationState
      BY <1>0, <1>3, <2>2, FailRunFields DEF Execute
    <3> QED
      BY <1>0, <1>3, <3>1, StepType DEF Execute, TypeOK, Node
  <2> QED
    BY <2>1, <2>2
<1>4. CASE Validator
  <2>1. CASE ValidatorToGate
    <3>1. state' \in OrchestrationState
      BY <1>0, <2>1, RequestEscalationFields DEF ValidatorToGate
    <3> QED
      BY <1>0, <2>1, <3>1, StepType DEF ValidatorToGate, TypeOK, Node
  <2>2. CASE ValidatorToSupervisor
    <3> DEFINE Typed == state' \in OrchestrationState /\ current' \in Task \cup {NONE}
    <3>1. ASSUME current \in Planned(state) PROVE Typed
      <4>1. current \in Task
        BY <1>0, <3>1
      <4>2. /\ MarkTask(state, current, "completed") \in OrchestrationState
            /\ MarkTask(state, current, "failed") \in OrchestrationState
            /\ CountRetry(state, current) \in OrchestrationState
        BY <1>0, <4>1, MarkTaskFields, CountRetryFields DEF TaskStatus
      <4>3. \/ state' = MarkTask(state, current, "completed") /\ current' = NONE
            \/ state' = CountRetry(state, current) /\ current' = current
            \/ state' = MarkTask(state, current, "failed") /\ current' = current
        BY <2>2, <3>1 DEF ValidatorToSupervisor
      <4> QED
        BY <4>1, <4>2, <4>3
    <3>2. ASSUME current \notin Planned(state) PROVE Typed
      BY <1>0, <2>2, <3>2 DEF ValidatorToSupervisor
    <3> QED
      BY <1>0, <2>2, <3>1, <3>2, StepType DEF ValidatorToSupervisor, TypeOK, Node
  <2> QED
    BY <1>4, <2>1, <2>2 DEF Validator
<1>5. CASE HumanGate
  <2> DEFINE applied == ApplyDecision(state, decision)
  <2>1. decision # NONE => applied \in OrchestrationState
    BY <1>0, ApplyDecisionFields
  <2>2. DecidedTask \in Task \cup {NONE}
    BY DecidedTaskType
  <2> HIDE DEF applied
  <2>3. CASE GateApproves
    <3>1. MarkDecided(applied, DecidedTask, "completed") \in OrchestrationState
      BY <2>1, <2>2, <2>3, MarkDecidedFields DEF GateApproves, TaskStatus
    <3>2. state' \in OrchestrationState
      BY <2>3, <3>1, ClearedFields DEF GateApproves, applied
    <3> QED
      BY <2>3, <3>2, StepType DEF GateApproves, TypeOK, Node
  <2>4. CASE GateModifies
    <3>1. MarkDecided(applied, IF decision.payload THEN DecidedTask ELSE NONE,
                      "pending") \in OrchestrationState
      BY <2>1, <2>2, <2>4, MarkDecidedFields DEF GateModifies, TaskStatus
    <3>2. state' \in OrchestrationState
      BY <2>4, <3>1, ClearedFields DEF GateModifies, applied
    <3> QED
      BY <2>4, <3>2, StepType DEF GateModifies, TypeOK, Node
  <2>5. CASE GateRejects
    <3>1. MarkDecided(applied, DecidedTask, "failed") \in OrchestrationState
      BY <2>1, <2>2, <2>5, MarkDecidedFields DEF GateRejects, TaskStatus
    <3>2. state' \in OrchestrationState
      BY <2>5, <3>1, FailRunFields DEF GateRejects, applied
    <3> QED
      BY <2>5, <3>2, StepType DEF GateRejects, TypeOK, Node
  <2>6. CASE GatePauses
    <3>1. state' \in OrchestrationState
      BY <1>0, <2>1, <2>6, PausedFields DEF GatePauses, applied
    <3> QED
      BY <1>0, <2>6, <3>1, StepType DEF GatePauses, TypeOK
  <2> QED
    BY <1>5, <2>3, <2>4, <2>5, <2>6 DEF HumanGate
<1>6. CASE Synthesis
  BY <1>0, <1>6, StepType, SynthesisFields DEF Synthesis, TypeOK
<1>7. CASE Failed
  BY <1>0, <1>7, StepType, FailRunFields DEF Failed, TypeOK
<1>8. ASSUME NEW s \in OrchestrationState, Raise(s)
      PROVE  TypeOK'
  BY <1>0, <1>8, IdleType, FailRunFields DEF Raise, TypeOK
<1>9. CASE Return \/ Crash
  BY <1>0, <1>9, IdleType DEF Return, Crash, TypeOK
<1>10. CASE RetrievalRaises
  BY <1>0, <1>8, <1>10, MarkTaskFields DEF RetrievalRaises, TaskStatus
<1>11. CASE RecursionLimit
  BY <1>0, <1>8, <1>11 DEF RecursionLimit
<1>12. CASE Review
  <2>1. PICK d \in Decision : Resume(d)
    BY <1>12 DEF Review
  <2>2. [saved EXCEPT !.status = "running"] \in OrchestrationState
    BY <1>0 DEF OrchestrationState, ExecutionStatus
  <2> QED
    BY <2>1, <2>2, BoundsAssumption DEF Resume, TypeOK, Node
<1>13. CASE UNCHANGED vars
  BY <1>13 DEF vars, TypeOK
<1> QED
  BY <1>1, <1>2, <1>3, <1>4, <1>5, <1>6, <1>7, <1>9, <1>10, <1>11, <1>12, <1>13
  DEF Next, GraphStep, Retrieval, Tool

\* The state has its type in every behaviour.
THEOREM TypeCorrect == Spec => []TypeOK
BY TypeInit, TypeNext, PTL DEF Spec

-----------------------------------------------------------------------------
(* Work is ready.                                                          *)

\* The initial states and every step satisfy it, given the types.
LEMMA WorkIsReadyNext == TypeOK /\ WorkIsReady /\ [Next]_vars => WorkIsReady'
<1> SUFFICES ASSUME TypeOK, WorkIsReady, [Next]_vars
             PROVE  WorkIsReady'
  OBVIOUS
<1>0. /\ state \in OrchestrationState
      /\ Planned(state) \subseteq Task
  BY PlannedTasks DEF TypeOK
<1>1. CASE SupervisorDispatch
  <2>1. PICK t \in Task : /\ IsFirstReady(state, t)
                          /\ Step("supervisor", Handler[state.plan.type[t]])
                          /\ current' = t
    BY <1>1 DEF SupervisorDispatch
  <2>2. IsReady(state, t) /\ UNCHANGED state
    BY <1>1, <2>1 DEF IsFirstReady, SupervisorDispatch
  <2>3. state.plan.type[t] \in TaskType /\ node' = Handler[state.plan.type[t]]
    BY <1>0, <2>1, <2>2, ReadyTask DEF Step
  <2>4. node' # "validator"
    BY <2>3 DEF Handler, TaskType
  <2> QED
    BY <2>1, <2>2, <2>4 DEF WorkIsReady, IsReady, InStatus, Planned
<1>2. ASSUME NEW worker \in {"retrieval", "tool"}, Execute(worker)
      PROVE  WorkIsReady'
  <2>1. current \in Task /\ IsReady(state, current) /\ node' = "validator"
    BY <1>2 DEF Execute, Step, WorkIsReady
  <2>2. current \in Planned(state)
    BY <2>1 DEF IsReady, InStatus
  <2>3. PICK outcome \in {"in_progress", "failed"} :
           state' = MarkTask(state, current, outcome)
    BY <1>2, <2>2 DEF Execute
  <2>4. state'.task[current].status = outcome /\ state'.plan = state.plan
    <3>1. outcome \in TaskStatus
      BY DEF TaskStatus
    <3> QED
      BY <1>0, <2>1, <2>3, <3>1, MarkTaskFields
  <2>5. current \in InStatus(state', outcome)
    BY <2>2, <2>4 DEF InStatus, Planned
  <2>6. current' = current
    BY <1>2 DEF Execute
  <2>7. current' \in InStatus(state, "in_progress")' \cup InStatus(state, "failed")'
    BY <2>5, <2>6 DEF InStatus, Planned
  <2> QED
    BY <2>1, <2>7 DEF WorkIsReady
<1>3. CASE node' \notin {"retrieval", "tool", "validator"}
  BY <1>3 DEF WorkIsReady
<1>4. CASE UNCHANGED vars
  BY <1>4 DEF vars, WorkIsReady, IsReady, InStatus, Planned
<1>5. CASE SupervisorToGate \/ SupervisorToPlanner \/ SupervisorToSynthesis
           \/ SupervisorToFailed \/ Planner \/ Validator \/ HumanGate
           \/ Synthesis \/ Failed \/ Return \/ RetrievalRaises
           \/ RecursionLimit \/ Crash \/ Review
  <2>1. node' \notin {"retrieval", "tool", "validator"}
    BY <1>5 DEF SupervisorToGate, SupervisorToPlanner, SupervisorToSynthesis,
       SupervisorToFailed, Planner, Validator, ValidatorToGate,
       ValidatorToSupervisor, HumanGate, GateApproves, GateModifies,
       GateRejects, GatePauses, Synthesis, Failed, Return, RetrievalRaises,
       RecursionLimit, Crash, Review, Resume, Step, Raise, Idle
  <2> QED
    BY <1>3, <2>1
<1> QED
  BY <1>1, <1>2, <1>4, <1>5
  DEF Next, GraphStep, Supervisor, Retrieval, Tool

\* A worker only runs a task whose dependencies are completed, and the
\* validator only sees the task a worker has just run.
THEOREM WorkersRunReadyTasks == Spec => []WorkIsReady
<1>1. Init => WorkIsReady
  BY DEF Init, WorkIsReady
<1> QED
  BY <1>1, TypeCorrect, WorkIsReadyNext, PTL DEF Spec

-----------------------------------------------------------------------------
(* No work during a review.                                                *)

\* The flag is down when an agent starts, and no agent raises it and works on.
LEMMA NoWorkNext == TypeOK /\ NoWorkDuringReview /\ [Next]_vars
                    => NoWorkDuringReview'
<1> SUFFICES ASSUME TypeOK, NoWorkDuringReview, [Next]_vars
             PROVE  NoWorkDuringReview'
  OBVIOUS
<1> DEFINE Working == {"planner", "retrieval", "tool", "validator", "synthesis"}
<1>0. /\ state \in OrchestrationState
      /\ Planned(state) \subseteq Task
  BY PlannedTasks DEF TypeOK
<1>1. CASE SupervisorToPlanner \/ SupervisorDispatch \/ SupervisorToSynthesis
  BY <1>1 DEF SupervisorToPlanner, SupervisorDispatch, SupervisorToSynthesis,
     MayDispatch, NoWorkDuringReview
<1>2. ASSUME NEW worker \in {"retrieval", "tool"}, Execute(worker)
      PROVE  NoWorkDuringReview'
  <2>1. ~state.requires_human
    BY <1>2 DEF Execute, Step, NoWorkDuringReview
  <2>2. CASE current \in Planned(state)
    <3>1. PICK outcome \in {"in_progress", "failed"} :
             state' = MarkTask(state, current, outcome)
      BY <1>2, <2>2 DEF Execute
    <3>2. outcome \in TaskStatus /\ current \in Task
      BY <1>0, <2>2 DEF TaskStatus
    <3>3. state'.requires_human = state.requires_human
      BY <1>0, <3>1, <3>2, MarkTaskFields
    <3> QED
      BY <2>1, <3>3 DEF NoWorkDuringReview
  <2>3. CASE current \notin Planned(state)
    BY <1>0, <1>2, <2>1, <2>3, FailRunFields DEF Execute, NoWorkDuringReview
  <2> QED
    BY <2>2, <2>3
<1>3. CASE SupervisorToGate \/ SupervisorToFailed \/ Planner \/ Validator
           \/ HumanGate \/ Synthesis \/ Failed \/ Return \/ RetrievalRaises
           \/ RecursionLimit \/ Crash \/ Review
  <2>1. node' \notin Working
    BY <1>3 DEF SupervisorToGate, SupervisorToFailed, Planner, Validator,
       ValidatorToGate, ValidatorToSupervisor, HumanGate, GateApproves,
       GateModifies, GateRejects, GatePauses, Synthesis, Failed, Return,
       RetrievalRaises, RecursionLimit, Crash, Review, Resume, Step, Raise, Idle
  <2> QED
    BY <2>1 DEF NoWorkDuringReview
<1>4. CASE UNCHANGED vars
  BY <1>4 DEF vars, NoWorkDuringReview
<1> QED
  BY <1>1, <1>2, <1>3, <1>4
  DEF Next, GraphStep, Supervisor, Retrieval, Tool

\* While a reviewer is being waited for no agent works on the run.
THEOREM NoAgentDuringReview == Spec => []NoWorkDuringReview
<1>1. Init => NoWorkDuringReview
  BY DEF Init, InitialState, NoWorkDuringReview
<1> QED
  BY <1>1, TypeCorrect, NoWorkNext, PTL DEF Spec

-----------------------------------------------------------------------------
(* The stored run.                                                         *)

\* While the graph runs, the stored run is open, and it waits for a reviewer
\* exactly when the graph was started by a decision.
StoredRunIsOpen ==
    node # "idle" =>
        /\ saved.status \notin Terminal
        /\ (saved.requires_human <=> entry = "resume")

\* Between two invocations the working state is the stored one.
IdleHoldsStored == node = "idle" => state = saved

\* The stored run changes only when the graph is started and when it is left.
LEMMA SavedUntilIdle ==
    ASSUME [Next]_vars, ~Review
    PROVE  \/ node' = "idle"
           \/ node # "idle" /\ UNCHANGED <<saved, entry>>
BY DEF Next, GraphStep, Supervisor, SupervisorToGate, SupervisorToPlanner,
   SupervisorDispatch, SupervisorToSynthesis, SupervisorToFailed, Planner,
   Retrieval, Tool, Execute, Validator, ValidatorToGate, ValidatorToSupervisor,
   HumanGate, GateApproves, GateModifies, GateRejects, GatePauses, Synthesis,
   Failed, Return, RetrievalRaises, RecursionLimit, Crash, Raise, Idle, Step, vars

\* Starting the graph stores a run that is open and waits for a reviewer.
LEMMA ReviewStarts ==
    ASSUME TypeOK, Review
    PROVE  /\ node = "idle"
           /\ node' = "supervisor"
           /\ entry' = "resume"
           /\ current' = NONE
           /\ decision' \in Decision
           /\ Resumable(saved)
           /\ state' = saved'
           /\ saved' = [saved EXCEPT !.status = "running"]
           /\ saved'.status = "running"
           /\ saved'.requires_human
           /\ saved'.requests = saved.requests
           /\ saved'.plan = saved.plan
           /\ saved'.task = saved.task
<1>1. PICK d \in Decision : Resume(d)
  BY DEF Review
<1>2. saved \in OrchestrationState
  BY DEF TypeOK
<1>3. /\ saved' = [saved EXCEPT !.status = "running"]
      /\ saved.requires_human
  BY <1>1 DEF Resume, Resumable
<1>4. /\ saved'.status = "running"
      /\ saved'.requires_human
      /\ saved'.requests = saved.requests
      /\ saved'.plan = saved.plan
      /\ saved'.task = saved.task
  BY <1>2, <1>3 DEF OrchestrationState
<1> QED
  BY <1>1, <1>3, <1>4 DEF Resume

\* The stored run stays open, and the working state is let go of with the graph.
LEMMA StoredRunNext ==
    TypeOK /\ StoredRunIsOpen /\ IdleHoldsStored /\ [Next]_vars
        => StoredRunIsOpen' /\ IdleHoldsStored'
<1> SUFFICES ASSUME TypeOK, StoredRunIsOpen, IdleHoldsStored, [Next]_vars
             PROVE  StoredRunIsOpen' /\ IdleHoldsStored'
  OBVIOUS
<1>1. CASE Review
  BY <1>1, ReviewStarts DEF StoredRunIsOpen, IdleHoldsStored, Terminal
<1>2. CASE ~Review
  <2>1. StoredRunIsOpen'
    BY <1>2, SavedUntilIdle DEF StoredRunIsOpen
  <2>2. CASE Return \/ RetrievalRaises \/ RecursionLimit \/ Crash
    BY <2>1, <2>2 DEF Return, RetrievalRaises, RecursionLimit, Crash, Raise,
       Idle, IdleHoldsStored
  <2>3. CASE UNCHANGED vars
    BY <2>1, <2>3 DEF vars, IdleHoldsStored
  <2>4. CASE Supervisor \/ Planner \/ Retrieval \/ Tool \/ Validator
             \/ HumanGate \/ Synthesis \/ Failed
    <3>1. node' # "idle"
      <4>1. CASE SupervisorDispatch
        <5>1. PICK t \in Task : /\ IsFirstReady(state, t)
                                /\ Step("supervisor", Handler[state.plan.type[t]])
          BY <4>1 DEF SupervisorDispatch
        <5>2. Handler[state.plan.type[t]] \in Node
          BY <5>1, ReadyTask DEF TypeOK, IsFirstReady
        <5> QED
          BY <5>1, <5>2 DEF Step, Node
      <4>2. CASE ~SupervisorDispatch
        BY <2>4, <4>2 DEF Supervisor, SupervisorToGate, SupervisorToPlanner,
           SupervisorToSynthesis, SupervisorToFailed, Planner, Retrieval, Tool,
           Execute, Validator, ValidatorToGate, ValidatorToSupervisor,
           HumanGate, GateApproves, GateModifies, GateRejects, GatePauses,
           Synthesis, Failed, Step
      <4> QED
        BY <4>1, <4>2
    <3> QED
      BY <2>1, <3>1 DEF IdleHoldsStored
  <2> QED
    BY <1>2, <2>2, <2>3, <2>4 DEF Next, GraphStep
<1> QED
  BY <1>1, <1>2

\* Both hold in every behaviour.
LEMMA StoredRun == Spec => [](StoredRunIsOpen /\ IdleHoldsStored)
<1>1. Init => StoredRunIsOpen /\ IdleHoldsStored
  BY DEF Init, InitialState, StoredRunIsOpen, IdleHoldsStored, Terminal
<1> QED
  BY <1>1, TypeCorrect, StoredRunNext, PTL DEF Spec

\* A stored result is final.
THEOREM StoredResultIsFinal == Spec => ResultIsFinal
<1>1. TypeOK /\ StoredRunIsOpen /\ [Next]_vars
         => [saved.status \in Terminal => UNCHANGED saved]_vars
  <2> SUFFICES ASSUME TypeOK, StoredRunIsOpen, [Next]_vars,
                      saved.status \in Terminal
               PROVE  UNCHANGED saved
    OBVIOUS
  <2>1. node = "idle"
    BY DEF StoredRunIsOpen
  <2>2. ~Review
    BY ReviewStarts DEF Resumable
  <2> QED
    BY <2>1, <2>2 DEF Next, GraphStep, Supervisor, SupervisorToGate,
       SupervisorToPlanner, SupervisorDispatch, SupervisorToSynthesis,
       SupervisorToFailed, Planner, Retrieval, Tool, Execute, Validator,
       ValidatorToGate, ValidatorToSupervisor, HumanGate, GateApproves,
       GateModifies, GateRejects, GatePauses, Synthesis, Failed, Return,
       RetrievalRaises, RecursionLimit, Crash, Step, vars
<1> QED
  BY <1>1, TypeCorrect, StoredRun, PTL DEF Spec, ResultIsFinal

\* A stored run that a reviewer may resume stays so until the graph has ended,
\* whatever is raised and whenever the process dies.
THEOREM ReviewSurvives == Spec => ResumableUntilResult
<1>1. TypeOK /\ StoredRunIsOpen /\ [Next]_vars
         => [Resumable(saved) /\ node # "end" => Resumable(saved')]_vars
  <2> SUFFICES ASSUME TypeOK, StoredRunIsOpen, [Next]_vars,
                      Resumable(saved), node # "end"
               PROVE  Resumable(saved')
    OBVIOUS
  <2>1. CASE Review
    BY <2>1, ReviewStarts DEF Resumable, Terminal
  <2>2. CASE RetrievalRaises \/ RecursionLimit
    <3>1. node # "idle"
      BY <2>2 DEF RetrievalRaises, RecursionLimit
    <3>2. entry # "run"
      BY <3>1 DEF StoredRunIsOpen, Resumable
    <3>3. saved' = saved
      BY <2>2, <3>2 DEF RetrievalRaises, RecursionLimit, Raise
    <3> QED
      BY <3>3
  <2>3. CASE UNCHANGED saved
    BY <2>3
  <2> QED
    BY <2>1, <2>2, <2>3 DEF Next, GraphStep, Supervisor, SupervisorToGate,
       SupervisorToPlanner, SupervisorDispatch, SupervisorToSynthesis,
       SupervisorToFailed, Planner, Retrieval, Tool, Execute, Validator,
       ValidatorToGate, ValidatorToSupervisor, HumanGate, GateApproves,
       GateModifies, GateRejects, GatePauses, Synthesis, Failed, Return,
       Crash, Step, vars
<1> QED
  BY <1>1, TypeCorrect, StoredRun, PTL DEF Spec, ResumableUntilResult

-----------------------------------------------------------------------------
(* Completed tasks.                                                        *)

\* A decision is brought by a resumption, before any task is dispatched.
DecisionFirst ==
    decision # NONE =>
        \/ node \in {"supervisor", "human_gate"} /\ current = NONE
        \/ node = "end"

LEMMA DecisionComesFirst == Spec => []DecisionFirst
<1>1. Init => DecisionFirst
  BY DEF Init, DecisionFirst
<1>2. DecisionFirst /\ [Next]_vars => DecisionFirst'
  BY DEF DecisionFirst, Next, GraphStep, Supervisor, SupervisorToGate,
     SupervisorToPlanner, SupervisorDispatch, SupervisorToSynthesis,
     SupervisorToFailed, MayDispatch, Planner, Retrieval, Tool, Execute,
     Validator, ValidatorToGate, ValidatorToSupervisor, HumanGate, GateApproves,
     GateModifies, GateRejects, GatePauses, Synthesis, Failed, Return,
     RetrievalRaises, RecursionLimit, Crash, Raise, Idle, Review, Resume, Step,
     vars
<1> QED
  BY <1>1, <1>2, PTL DEF Spec

\* Another task than the marked one stays as it is.
LEMMA MarkDecidedTasks ==
    ASSUME NEW s \in OrchestrationState, NEW t \in Task,
           NEW u \in Task \cup {NONE}, NEW x \in TaskStatus,
           s.task[t].status = "completed", u # t \/ x = "completed"
    PROVE  MarkDecided(s, u, x).task[t].status = "completed"
<1>1. CASE u = NONE
  BY <1>1 DEF MarkDecided
<1>2. CASE u = t
  BY <1>2 DEF MarkDecided, MarkTask, OrchestrationState
<1>3. CASE u # NONE /\ u # t
  BY <1>3, MarkTaskFields DEF MarkDecided
<1> QED
  BY <1>1, <1>2, <1>3

\* The gate undoes no completed task but the one the decision's request names.
LEMMA GateKeepsCompleted ==
    ASSUME TypeOK, DecisionFirst, HumanGate, NEW t \in Task,
           state.task[t].status = "completed", ~ReviewReopens(t)
    PROVE  state'.task[t].status = "completed"
<1> DEFINE applied == ApplyDecision(state, decision)
<1>0. /\ state \in OrchestrationState
      /\ decision \in Decision \cup {NONE}
      /\ DecidedTask \in Task \cup {NONE}
      /\ node = "human_gate"
      /\ NONE \notin Task
  BY DecidedTaskType, NoneAssumption
  DEF TypeOK, HumanGate, GateApproves, GateModifies, GateRejects, GatePauses, Step
<1>1. decision # NONE =>
         /\ applied \in OrchestrationState
         /\ applied.task = state.task
  BY <1>0, ApplyDecisionFields
<1>2. decision # NONE /\ decision.status \in {"modified", "rejected"}
         => DecidedTask # t
  BY <1>0 DEF DecisionFirst, DecidedTask, ReviewReopens
<1> HIDE DEF applied
<1>3. /\ "completed" \in TaskStatus
      /\ "pending" \in TaskStatus
      /\ "failed" \in TaskStatus
  BY DEF TaskStatus
<1>4. CASE GateApproves
  <2> DEFINE marked == MarkDecided(applied, DecidedTask, "completed")
  <2>0. applied \in OrchestrationState /\ applied.task[t].status = "completed"
    BY <1>1, <1>4 DEF GateApproves
  <2>1. marked.task[t].status = "completed"
    BY <1>0, <1>3, <2>0, MarkDecidedTasks
  <2>3. marked \in OrchestrationState
    BY <1>0, <1>3, <2>0, MarkDecidedFields
  <2>2. state' = [marked EXCEPT !.requires_human = FALSE, !.status = "running"]
    BY <1>4 DEF GateApproves, applied
  <2> QED
    BY <2>1, <2>2, <2>3, ClearedFields
<1>5. CASE GateModifies
  <2> DEFINE decided == IF decision.payload THEN DecidedTask ELSE NONE
             marked == MarkDecided(applied, decided, "pending")
  <2>1. decided \in Task \cup {NONE} /\ decided # t
    BY <1>0, <1>2, <1>5 DEF GateModifies
  <2>2. applied \in OrchestrationState /\ applied.task[t].status = "completed"
    BY <1>1, <1>5 DEF GateModifies
  <2>3. state' = [marked EXCEPT !.requires_human = FALSE, !.status = "running"]
    BY <1>5 DEF GateModifies, applied
  <2> HIDE DEF decided
  <2>4. marked.task[t].status = "completed"
    BY <1>3, <2>1, <2>2, MarkDecidedTasks
  <2>5. marked \in OrchestrationState
    BY <1>3, <2>1, <2>2, MarkDecidedFields
  <2> QED
    BY <2>3, <2>4, <2>5, ClearedFields
<1>6. CASE GateRejects
  <2> DEFINE marked == MarkDecided(applied, DecidedTask, "failed")
  <2>0. /\ applied \in OrchestrationState
        /\ applied.task[t].status = "completed"
        /\ DecidedTask # t
    BY <1>1, <1>2, <1>6 DEF GateRejects
  <2>1. marked.task[t].status = "completed"
    BY <1>0, <1>3, <2>0, MarkDecidedTasks
  <2>3. marked \in OrchestrationState
    BY <1>0, <1>3, <2>0, MarkDecidedFields
  <2>2. state' = FailRun(marked)
    BY <1>6 DEF GateRejects, applied
  <2> QED
    BY <2>1, <2>2, <2>3, FailRunFields
<1>7. CASE GatePauses
  BY <1>0, <1>1, <1>7, PausedFields DEF GatePauses, applied
<1> QED
  BY <1>4, <1>5, <1>6, <1>7 DEF HumanGate

\* Only a decision whose request names it undoes a completed task, or a new plan
\* or the loss of the working state forgets it.
THEOREM CompletedTasksStay == Spec => CompletedStaysCompleted
<1>1. TypeOK /\ WorkIsReady /\ IdleHoldsStored /\ DecisionFirst /\ [Next]_vars
         => [\A t \in Task :
                state.task[t].status = "completed" =>
                    \/ state'.task[t].status = "completed"
                    \/ ReviewReopens(t)
                    \/ node = "planner"
                    \/ node' = "idle"]_vars
  <2> SUFFICES ASSUME TypeOK, WorkIsReady, IdleHoldsStored, DecisionFirst,
                      [Next]_vars, NEW t \in Task,
                      state.task[t].status = "completed",
                      ~ReviewReopens(t),
                      node # "planner",
                      node' # "idle"
               PROVE  state'.task[t].status = "completed"
    OBVIOUS
  <2>0. /\ state \in OrchestrationState
        /\ Planned(state) \subseteq Task
    BY PlannedTasks DEF TypeOK
  <2>1. ASSUME NEW worker \in {"retrieval", "tool"}, Execute(worker)
        PROVE  state'.task[t].status = "completed"
    <3>1. /\ current \in Task
          /\ current \in Planned(state)
          /\ state.task[current].status = "pending"
      BY <2>1 DEF Execute, Step, WorkIsReady, IsReady, InStatus
    <3>2. PICK outcome \in {"in_progress", "failed"} :
             state' = MarkTask(state, current, outcome)
      BY <2>1, <3>1 DEF Execute
    <3>3. outcome \in TaskStatus /\ t # current
      BY <3>1 DEF TaskStatus
    <3> QED
      BY <2>0, <3>1, <3>2, <3>3, MarkTaskFields
  <2>2. CASE Validator
    <3>1. CASE ValidatorToGate
      BY <2>0, <3>1, RequestEscalationFields DEF ValidatorToGate
    <3>2. CASE ValidatorToSupervisor
      <4>1. /\ current \in Task
            /\ current \in Planned(state)
            /\ t # current
        BY <2>0, <3>2 DEF ValidatorToSupervisor, Step, WorkIsReady, InStatus
      <4>2. \/ state' = MarkTask(state, current, "completed")
            \/ state' = CountRetry(state, current)
            \/ state' = MarkTask(state, current, "failed")
        BY <3>2, <4>1 DEF ValidatorToSupervisor
      <4>3. "completed" \in TaskStatus /\ "failed" \in TaskStatus
        BY DEF TaskStatus
      <4>4. t \in Task \ {current}
        BY <4>1
      <4>5. \A x \in TaskStatus : MarkTask(state, current, x).task[t] = state.task[t]
        BY <2>0, <4>1, <4>4, MarkTaskFields
      <4>6. CountRetry(state, current).task[t] = state.task[t]
        BY <2>0, <4>1, <4>4, CountRetryFields
      <4> QED
        BY <4>2, <4>3, <4>5, <4>6
    <3> QED
      BY <2>2, <3>1, <3>2 DEF Validator
  <2>3. CASE Synthesis
    BY <2>3, SynthesisFields
  <2>4. CASE Failed
    BY <2>0, <2>4, FailRunFields DEF Failed
  <2>5. CASE Review
    BY <2>5, ReviewStarts DEF IdleHoldsStored
  <2>6. CASE UNCHANGED state
    BY <2>6
  <2>7. ~(Planner \/ Return \/ RetrievalRaises \/ RecursionLimit \/ Crash)
    BY DEF Planner, Return, RetrievalRaises, RecursionLimit, Crash, Raise, Idle,
       Step
  <2>8. CASE HumanGate
    BY <2>8, GateKeepsCompleted
  <2> QED
    BY <2>1, <2>2, <2>3, <2>4, <2>5, <2>6, <2>7, <2>8
    DEF Next, GraphStep, Supervisor, SupervisorToGate, SupervisorToPlanner,
        SupervisorDispatch, SupervisorToSynthesis, SupervisorToFailed,
        Retrieval, Tool, vars
<1> QED
  BY <1>1, TypeCorrect, WorkersRunReadyTasks, StoredRun, DecisionComesFirst, PTL
  DEF Spec, CompletedStaysCompleted

-----------------------------------------------------------------------------
(* Reviews and results: where the graph is says what the run's status is.  *)

\* A decision is only held from the start of the graph to the gate, in a run
\* that waits for a reviewer, and, when it is no verdict, to the end.
DecisionPlace ==
    decision # NONE =>
        \/ /\ node \in {"supervisor", "human_gate"}
           /\ state.status = "running"
           /\ state.requires_human
        \/ node = "end"

\* A failed run is on its way out, and a completed one is out.
StatusPlace ==
    /\ state.status = "failed" => node \in {"supervisor", "failed", "end", "idle"}
    /\ state.status = "completed" => node \in {"end", "idle"}

\* Without a decision the gate is reached by a run that waits for a reviewer.
GateNeedsReview ==
    node = "human_gate" /\ decision = NONE => state.requires_human

\* Every other task of a plan whose synthesis comes last is completed when the
\* synthesis starts.
SynthesisPlace ==
    node = "synthesis" =>
        /\ state.plan \in Plans
        /\ SynthesisLast(state.plan) =>
              \A t \in state.plan.ids :
                 state.plan.type[t] = "synthesis" \/ state.task[t].status = "completed"

\* A state that says it waits for a reviewer has a request to review.
AsksSomething(s) == s.requires_human => HasPending(s.requests)

\* A completed state of a plan whose synthesis comes last is completed as a whole.
WholeIfCompleted(s) ==
    s.status = "completed" =>
        s.plan # NONE /\ (SynthesisLast(s.plan) => AllCompleted(s))

ReviewInv ==
    /\ DecisionPlace
    /\ StatusPlace
    /\ GateNeedsReview
    /\ SynthesisPlace
    /\ AsksSomething(state)
    /\ AsksSomething(saved)
    /\ WholeIfCompleted(state)
    /\ WholeIfCompleted(saved)

\* The agents' nodes keep it.
LEMMA ReviewInvWork ==
    ASSUME TypeOK, WorkIsReady, NoWorkDuringReview, ReviewInv,
           Planner \/ Retrieval \/ Tool \/ Validator
    PROVE  ReviewInv'
<1>0. /\ state \in OrchestrationState
      /\ Planned(state) \subseteq Task
  BY PlannedTasks DEF TypeOK
<1>1. /\ node \in {"planner", "retrieval", "tool", "validator"}
      /\ node' \in {"supervisor", "validator", "human_gate"}
      /\ saved' = saved
      /\ decision' = decision
  BY DEF Planner, Retrieval, Tool, Execute, Validator, ValidatorToGate,
     ValidatorToSupervisor, Step
<1>2. /\ decision = NONE
      /\ ~state.requires_human
      /\ state.status \notin Terminal
  BY <1>1 DEF ReviewInv, DecisionPlace, StatusPlace, NoWorkDuringReview, Terminal
<1>3. \/ /\ node' # "human_gate"
         /\ ~state'.requires_human
         /\ state'.status = state.status
      \/ /\ node' = "supervisor"
         /\ ~state'.requires_human
         /\ state'.status = "failed"
      \/ /\ node' = "human_gate"
         /\ state'.requires_human
         /\ HasPending(state'.requests)
         /\ state'.status = "paused_for_human"
  <2>1. CASE Planner
    <3>1. node' = "supervisor"
      BY <2>1 DEF Planner, Step
    <3>2. CASE state' = FailRun(state)
      BY <1>0, <1>2, <3>1, <3>2, FailRunFields
    <3>3. CASE \E p \in Plans : state' = [state EXCEPT !.plan = p, !.task = FreshTasks]
      <4>1. PICK p \in Plans : state' = [state EXCEPT !.plan = p, !.task = FreshTasks]
        BY <3>3
      <4>2. state'.status = state.status /\ state'.requires_human = state.requires_human
        BY <1>0, <4>1 DEF OrchestrationState
      <4> QED
        BY <1>2, <3>1, <4>2
    <3> QED
      BY <2>1, <3>2, <3>3 DEF Planner
  <2>2. ASSUME NEW worker \in {"retrieval", "tool"}, Execute(worker)
        PROVE  /\ node' = "validator"
               /\ ~state'.requires_human
               /\ state'.status = state.status
    <3>1. /\ node' = "validator"
          /\ current \in Task
          /\ current \in Planned(state)
      BY <2>2 DEF Execute, Step, WorkIsReady, IsReady, InStatus
    <3>2. PICK outcome \in {"in_progress", "failed"} :
             state' = MarkTask(state, current, outcome)
      BY <2>2, <3>1 DEF Execute
    <3>3. outcome \in TaskStatus
      BY DEF TaskStatus
    <3> QED
      BY <1>0, <1>2, <3>1, <3>2, <3>3, MarkTaskFields
  <2>3. CASE ValidatorToGate
    BY <1>0, <2>3, RequestEscalationFields DEF ValidatorToGate, Step
  <2>4. CASE ValidatorToSupervisor
    <3>1. /\ node' = "supervisor"
          /\ current \in Task
          /\ current \in Planned(state)
      BY <1>0, <2>4 DEF ValidatorToSupervisor, Step, WorkIsReady, InStatus
    <3>2. \/ state' = MarkTask(state, current, "completed")
          \/ state' = CountRetry(state, current)
          \/ state' = MarkTask(state, current, "failed")
      BY <2>4, <3>1 DEF ValidatorToSupervisor
    <3>3. "completed" \in TaskStatus /\ "failed" \in TaskStatus
      BY DEF TaskStatus
    <3>4. \A x \in TaskStatus :
             /\ MarkTask(state, current, x).status = state.status
             /\ MarkTask(state, current, x).requires_human = state.requires_human
      BY <1>0, <3>1, MarkTaskFields
    <3>5. /\ CountRetry(state, current).status = state.status
          /\ CountRetry(state, current).requires_human = state.requires_human
      BY <1>0, <3>1, CountRetryFields
    <3> QED
      BY <1>2, <3>1, <3>2, <3>3, <3>4, <3>5
  <2> QED
    BY <2>1, <2>2, <2>3, <2>4 DEF Retrieval, Tool, Validator
<1>4. AsksSomething(saved)' /\ WholeIfCompleted(saved)'
  BY <1>1 DEF ReviewInv, AsksSomething, WholeIfCompleted, AllCompleted,
     Planned, InStatus, SynthesisLast
<1> QED
  BY <1>1, <1>2, <1>3, <1>4
  DEF ReviewInv, DecisionPlace, StatusPlace, GateNeedsReview, SynthesisPlace,
      AsksSomething, WholeIfCompleted, Terminal

\* The supervisor keeps it.
LEMMA ReviewInvSupervisor ==
    ASSUME TypeOK, ReviewInv, Supervisor
    PROVE  ReviewInv'
<1>0. state \in OrchestrationState
  BY DEF TypeOK
<1>1. /\ node = "supervisor"
      /\ UNCHANGED <<state, saved, decision>>
  BY DEF Supervisor, SupervisorToGate, SupervisorToPlanner, SupervisorDispatch,
     SupervisorToSynthesis, SupervisorToFailed, Step
<1>2. /\ AsksSomething(state)' /\ AsksSomething(saved)'
      /\ WholeIfCompleted(state)' /\ WholeIfCompleted(saved)'
  BY <1>1 DEF ReviewInv, AsksSomething, WholeIfCompleted, AllCompleted,
     Planned, InStatus, SynthesisLast
<1>3. CASE SupervisorToGate
  BY <1>1, <1>2, <1>3 DEF SupervisorToGate, Step, ReviewInv, DecisionPlace,
     StatusPlace, GateNeedsReview, SynthesisPlace
<1>4. CASE SupervisorToFailed
  BY <1>1, <1>2, <1>4 DEF SupervisorToFailed, Step, MayDispatch, ReviewInv,
     DecisionPlace, StatusPlace, GateNeedsReview, SynthesisPlace
<1>5. CASE SupervisorToPlanner
  BY <1>1, <1>2, <1>5 DEF SupervisorToPlanner, Step, MayDispatch, ReviewInv,
     DecisionPlace, StatusPlace, GateNeedsReview, SynthesisPlace
<1>6. CASE SupervisorToSynthesis
  <2>1. state.plan \in Plans \cup {NONE} /\ AllCompleted(state)
    BY <1>0, <1>6 DEF OrchestrationState, SupervisorToSynthesis
  <2>2. /\ state.plan \in Plans
        /\ \A t \in state.plan.ids : state.task[t].status = "completed"
    BY <2>1 DEF AllCompleted, Planned, InStatus
  <2>3. SynthesisPlace'
    BY <1>1, <2>2 DEF SynthesisPlace
  <2> QED
    BY <1>1, <1>2, <1>6, <2>3 DEF SupervisorToSynthesis, Step, MayDispatch,
       ReviewInv, DecisionPlace, StatusPlace, GateNeedsReview
<1>7. CASE SupervisorDispatch
  <2>1. PICK t \in Task : /\ IsReady(state, t)
                          /\ Step("supervisor", Handler[state.plan.type[t]])
    BY <1>7 DEF SupervisorDispatch, IsFirstReady
  <2>2. /\ state.plan \in Plans
        /\ t \in state.plan.ids
        /\ state.plan.type[t] \in TaskType
        /\ \A d \in state.plan.deps[t] : state.task[d].status = "completed"
    BY <1>0, <2>1, ReadyTask DEF IsReady, InStatus
  <2>3. /\ node' \in {"planner", "retrieval", "tool", "synthesis"}
        /\ node' = "synthesis" => state.plan.type[t] = "synthesis"
    BY <2>1, <2>2 DEF Step, Handler, TaskType
  <2>4. SynthesisPlace'
    BY <1>1, <2>2, <2>3 DEF SynthesisPlace, SynthesisLast
  <2> QED
    BY <1>1, <1>2, <1>7, <2>3, <2>4 DEF SupervisorDispatch, MayDispatch,
       ReviewInv, DecisionPlace, StatusPlace, GateNeedsReview
<1> QED
  BY <1>3, <1>4, <1>5, <1>6, <1>7 DEF Supervisor

\* The gate keeps it.
LEMMA ReviewInvGate ==
    ASSUME TypeOK, ReviewInv, HumanGate
    PROVE  ReviewInv'
<1> DEFINE applied == ApplyDecision(state, decision)
<1>0. /\ state \in OrchestrationState
      /\ decision \in Decision \cup {NONE}
      /\ DecidedTask \in Task \cup {NONE}
  BY DecidedTaskType DEF TypeOK
<1>1. /\ node = "human_gate"
      /\ node' \in {"supervisor", "failed", "end"}
      /\ saved' = saved
  BY DEF HumanGate, GateApproves, GateModifies, GateRejects, GatePauses, Step
<1>2. AsksSomething(saved)' /\ WholeIfCompleted(saved)'
  BY <1>1 DEF ReviewInv, AsksSomething, WholeIfCompleted, AllCompleted,
     Planned, InStatus, SynthesisLast
<1>3. decision # NONE =>
         /\ applied \in OrchestrationState
         /\ applied.requires_human = HasPending(applied.requests)
  BY <1>0, ApplyDecisionFields
<1> HIDE DEF applied
<1>4. CASE GateApproves
  <2>1. /\ MarkDecided(applied, DecidedTask, "completed") \in OrchestrationState
    BY <1>0, <1>3, <1>4, MarkDecidedFields DEF GateApproves, TaskStatus
  <2>2. state'.status = "running" /\ ~state'.requires_human
    BY <1>4, <2>1, ClearedFields DEF GateApproves, applied
  <2> QED
    BY <1>1, <1>2, <1>4, <2>2 DEF GateApproves, Step, ReviewInv, DecisionPlace,
       StatusPlace, GateNeedsReview, SynthesisPlace, AsksSomething, WholeIfCompleted
<1>5. CASE GateModifies
  <2>1. MarkDecided(applied, IF decision.payload THEN DecidedTask ELSE NONE,
                    "pending") \in OrchestrationState
    BY <1>0, <1>3, <1>5, MarkDecidedFields DEF GateModifies, TaskStatus
  <2>2. state'.status = "running" /\ ~state'.requires_human
    BY <1>5, <2>1, ClearedFields DEF GateModifies, applied
  <2> QED
    BY <1>1, <1>2, <1>5, <2>2 DEF GateModifies, Step, ReviewInv, DecisionPlace,
       StatusPlace, GateNeedsReview, SynthesisPlace, AsksSomething, WholeIfCompleted
<1>6. CASE GateRejects
  <2> DEFINE marked == MarkDecided(applied, DecidedTask, "failed")
  <2>1. /\ marked \in OrchestrationState
        /\ marked.requires_human = applied.requires_human
        /\ marked.requests = applied.requests
    BY <1>0, <1>3, <1>6, MarkDecidedFields DEF GateRejects, TaskStatus
  <2>2. state' = FailRun(marked)
    BY <1>6 DEF GateRejects, applied
  <2> HIDE DEF marked
  <2>3. state'.status = "failed" /\ AsksSomething(state)'
    BY <1>3, <1>6, <2>1, <2>2, FailRunFields DEF GateRejects, AsksSomething
  <2> QED
    BY <1>1, <1>2, <1>6, <2>3 DEF GateRejects, Step, ReviewInv, DecisionPlace,
       StatusPlace, GateNeedsReview, SynthesisPlace, WholeIfCompleted
<1>7. CASE GatePauses
  <2>1. CASE decision = NONE
    <3>1. state' = [state EXCEPT !.status = "paused_for_human"]
      BY <1>7, <2>1 DEF GatePauses
    <3>2. /\ state'.status = "paused_for_human"
          /\ state'.requires_human = state.requires_human
          /\ state'.requests = state.requests
      BY <1>0, <3>1, PausedFields
    <3> QED
      BY <1>1, <1>2, <1>7, <2>1, <3>2 DEF GatePauses, Step, ReviewInv,
         DecisionPlace, StatusPlace, GateNeedsReview, SynthesisPlace,
         AsksSomething, WholeIfCompleted
  <2>2. CASE decision # NONE
    <3>1. state' = [applied EXCEPT !.status = "paused_for_human"]
      BY <1>7, <2>2 DEF GatePauses, applied
    <3>2. /\ state'.status = "paused_for_human"
          /\ state'.requires_human = applied.requires_human
          /\ state'.requests = applied.requests
      BY <1>3, <2>2, <3>1, PausedFields
    <3> QED
      BY <1>1, <1>2, <1>3, <1>7, <2>2, <3>2 DEF GatePauses, Step, ReviewInv,
         DecisionPlace, StatusPlace, GateNeedsReview, SynthesisPlace,
         AsksSomething, WholeIfCompleted
  <2> QED
    BY <2>1, <2>2
<1> QED
  BY <1>4, <1>5, <1>6, <1>7 DEF HumanGate

\* The ends of the graph and the runtime keep it.
LEMMA ReviewInvEnds ==
    ASSUME TypeOK, WorkIsReady, IdleHoldsStored, ReviewInv,
           \/ Synthesis \/ Failed \/ Return \/ RetrievalRaises
           \/ RecursionLimit \/ Crash \/ Review \/ UNCHANGED vars
    PROVE  ReviewInv'
<1>0. /\ state \in OrchestrationState
      /\ saved \in OrchestrationState
      /\ Planned(state) \subseteq Task
  BY PlannedTasks DEF TypeOK
<1>1. CASE Synthesis
  <2>1. /\ node = "synthesis" /\ node' = "end"
        /\ saved' = saved /\ decision' = decision
    BY <1>1 DEF Synthesis, Step
  <2>2. /\ state'.status = "completed"
        /\ state'.requires_human = state.requires_human
        /\ state'.plan = state.plan
        /\ state'.requests = state.requests
        /\ \A t \in Task :
              state'.task[t].status =
                 IF t \in Planned(state) /\ state.plan.type[t] = "synthesis"
                 THEN "completed" ELSE state.task[t].status
    BY <1>1, SynthesisFields
  <2>3. state.plan \in Plans /\ state.plan # NONE /\ state.plan.ids # {}
    BY <2>1, NoneAssumption, PlansAssumption
    DEF ReviewInv, SynthesisPlace, IsPlan
  <2>4. SynthesisLast(state.plan) => AllCompleted(state)'
    <3> SUFFICES ASSUME SynthesisLast(state.plan)
                 PROVE  AllCompleted(state)'
      OBVIOUS
    <3>1. \A t \in state.plan.ids : state'.task[t].status = "completed"
      BY <1>0, <2>1, <2>2, <2>3 DEF ReviewInv, SynthesisPlace, Planned
    <3> QED
      BY <2>2, <2>3, <3>1 DEF AllCompleted, Planned, InStatus
  <2>5. WholeIfCompleted(state)'
    BY <2>2, <2>3, <2>4 DEF WholeIfCompleted, SynthesisLast
  <2>6. AsksSomething(state)' /\ AsksSomething(saved)' /\ WholeIfCompleted(saved)'
    BY <2>1, <2>2 DEF ReviewInv, AsksSomething, WholeIfCompleted,
       AllCompleted, Planned, InStatus, SynthesisLast
  <2> QED
    BY <2>1, <2>2, <2>5, <2>6 DEF ReviewInv, DecisionPlace, StatusPlace,
       GateNeedsReview, SynthesisPlace
<1>2. CASE Failed
  <2>1. /\ node = "failed" /\ node' = "end"
        /\ saved' = saved /\ decision' = decision
        /\ state' = FailRun(state)
    BY <1>2 DEF Failed, Step
  <2>2. /\ state'.status = "failed"
        /\ state'.requires_human = state.requires_human
        /\ state'.requests = state.requests
    BY <1>0, <2>1, FailRunFields
  <2> QED
    BY <2>1, <2>2 DEF ReviewInv, DecisionPlace, StatusPlace, GateNeedsReview,
       SynthesisPlace, AsksSomething, WholeIfCompleted, AllCompleted, Planned,
       InStatus, SynthesisLast
<1>3. CASE Return
  BY <1>3 DEF Return, Idle, ReviewInv, DecisionPlace, StatusPlace,
     GateNeedsReview, SynthesisPlace, AsksSomething, WholeIfCompleted,
     AllCompleted, Planned, InStatus, SynthesisLast
<1>4. ASSUME NEW s \in OrchestrationState, AsksSomething(s), Raise(s)
      PROVE  ReviewInv'
  <2>1. /\ node' = "idle" /\ decision' = NONE /\ state' = saved'
        /\ saved' = saved \/ saved' = FailRun(s)
    BY <1>4 DEF Raise, Idle
  <2>2. AsksSomething(saved)' /\ WholeIfCompleted(saved)'
    <3>1. CASE saved' = saved
      BY <3>1 DEF ReviewInv, AsksSomething, WholeIfCompleted, AllCompleted,
         Planned, InStatus, SynthesisLast
    <3>2. CASE saved' = FailRun(s)
      BY <1>4, <3>2, FailRunFields DEF AsksSomething, WholeIfCompleted
    <3> QED
      BY <2>1, <3>1, <3>2
  <2>3. AsksSomething(state)' /\ WholeIfCompleted(state)'
    BY <2>1, <2>2 DEF AsksSomething, WholeIfCompleted, AllCompleted, Planned,
       InStatus, SynthesisLast
  <2> QED
    BY <2>1, <2>2, <2>3 DEF ReviewInv, DecisionPlace, StatusPlace,
       GateNeedsReview, SynthesisPlace
<1>5. CASE RetrievalRaises
  <2>1. current \in Task /\ "in_progress" \in TaskStatus
    BY <1>0, <1>5 DEF RetrievalRaises, TaskStatus
  <2>2. /\ MarkTask(state, current, "in_progress") \in OrchestrationState
        /\ AsksSomething(MarkTask(state, current, "in_progress"))
    BY <1>0, <2>1, MarkTaskFields DEF ReviewInv, AsksSomething
  <2> QED
    BY <1>4, <1>5, <2>2 DEF RetrievalRaises
<1>6. CASE RecursionLimit
  BY <1>0, <1>4, <1>6 DEF RecursionLimit, ReviewInv
<1>7. CASE Crash
  BY <1>7 DEF Crash, Idle, ReviewInv, DecisionPlace, StatusPlace,
     GateNeedsReview, SynthesisPlace, AsksSomething, WholeIfCompleted,
     AllCompleted, Planned, InStatus, SynthesisLast
<1>8. CASE Review
  <2>1. AsksSomething(saved)' /\ WholeIfCompleted(saved)'
    BY <1>8, ReviewStarts DEF ReviewInv, AsksSomething, WholeIfCompleted, Resumable
  <2>2. /\ state'.status = "running"
        /\ state'.requires_human
        /\ state' = saved'
        /\ node' = "supervisor"
    BY <1>8, ReviewStarts
  <2> QED
    BY <2>1, <2>2 DEF ReviewInv, DecisionPlace, StatusPlace, GateNeedsReview,
       SynthesisPlace, AsksSomething, WholeIfCompleted
<1>9. CASE UNCHANGED vars
  BY <1>9 DEF vars, ReviewInv, DecisionPlace, StatusPlace, GateNeedsReview,
     SynthesisPlace, AsksSomething, WholeIfCompleted, AllCompleted, Planned,
     InStatus, SynthesisLast
<1> QED
  BY <1>1, <1>2, <1>3, <1>5, <1>6, <1>7, <1>8, <1>9

\* It holds in every behaviour.
LEMMA ReviewInvariant == Spec => []ReviewInv
<1>1. Init => ReviewInv
  BY DEF Init, InitialState, ReviewInv, DecisionPlace, StatusPlace,
     GateNeedsReview, SynthesisPlace, AsksSomething, WholeIfCompleted
<1>2. TypeOK /\ WorkIsReady /\ NoWorkDuringReview /\ IdleHoldsStored /\ ReviewInv
         /\ [Next]_vars => ReviewInv'
  BY ReviewInvWork, ReviewInvSupervisor, ReviewInvGate, ReviewInvEnds
  DEF Next, GraphStep
<1> QED
  BY <1>1, <1>2, TypeCorrect, WorkersRunReadyTasks, NoAgentDuringReview,
     StoredRun, PTL DEF Spec

\* A run that says it waits for a reviewer has a request to review.
THEOREM ReviewsAskSomething == Spec => []ReviewHasRequest
<1>1. ReviewInv => ReviewHasRequest
  BY DEF ReviewInv, AsksSomething, ReviewHasRequest
<1> QED
  BY <1>1, ReviewInvariant, PTL

\* A completed run of a plan whose synthesis comes last is completed as a whole.
THEOREM CompletedRunsAreWhole == Spec => []CompletedRunIsWhole
<1>1. ReviewInv => CompletedRunIsWhole
  BY DEF ReviewInv, WholeIfCompleted, CompletedRunIsWhole
<1> QED
  BY <1>1, ReviewInvariant, PTL

-----------------------------------------------------------------------------
(* The dependency deadlock.                                                *)

\* In a run that never escalated, the only task in progress is the one the
\* validator is about to judge.
NothingStranded ==
    node # "idle" /\ state.requests = <<>> =>
        \A t \in Task : state.task[t].status = "in_progress" =>
            node = "validator" /\ t = current

\* A state that asks something has escalated.
LEMMA AskingIsEscalated ==
    ASSUME NEW s, s.requires_human, AsksSomething(s)
    PROVE  DOMAIN s.requests # {}
BY DEF AsksSomething, HasPending

\* Every step leaves no task of a run that never escalated stranded.
LEMMA NothingStrandedNext ==
    ASSUME TypeOK, WorkIsReady, ReviewInv, NothingStranded, [Next]_vars
    PROVE  NothingStranded'
<1>0. /\ state \in OrchestrationState
      /\ saved \in OrchestrationState
      /\ Planned(state) \subseteq Task
      /\ decision \in Decision \cup {NONE}
      /\ DecidedTask \in Task \cup {NONE}
  BY PlannedTasks, DecidedTaskType DEF TypeOK
<1>1. ASSUME state' = state, node \notin {"validator", "idle"}
      PROVE  NothingStranded'
  BY <1>1 DEF NothingStranded
<1>2. CASE Supervisor
  BY <1>1, <1>2 DEF Supervisor, SupervisorToGate, SupervisorToPlanner,
     SupervisorDispatch, SupervisorToSynthesis, SupervisorToFailed, Step
<1>3. CASE Planner
  <2>1. node = "planner"
    BY <1>3 DEF Planner, Step
  <2>2. CASE state' = FailRun(state)
    BY <1>0, <2>1, <2>2, FailRunFields DEF NothingStranded
  <2>3. CASE \E p \in Plans : state' = [state EXCEPT !.plan = p, !.task = FreshTasks]
    <3>1. state'.task = FreshTasks
      BY <1>0, <2>3 DEF OrchestrationState
    <3> QED
      BY <3>1 DEF NothingStranded, FreshTasks
  <2> QED
    BY <1>3, <2>2, <2>3 DEF Planner
<1>4. ASSUME NEW worker \in {"retrieval", "tool"}, Execute(worker)
      PROVE  NothingStranded'
  <2>1. /\ node = worker /\ node' = "validator" /\ current' = current
        /\ current \in Task
        /\ current \in Planned(state)
    BY <1>4 DEF Execute, Step, WorkIsReady, IsReady, InStatus
  <2>2. PICK outcome \in {"in_progress", "failed"} :
           state' = MarkTask(state, current, outcome)
    BY <1>4, <2>1 DEF Execute
  <2>3. outcome \in TaskStatus
    BY DEF TaskStatus
  <2>4. /\ state'.requests = state.requests
        /\ \A u \in Task \ {current} : state'.task[u] = state.task[u]
    BY <1>0, <2>1, <2>2, <2>3, MarkTaskFields
  <2> QED
    BY <2>1, <2>4 DEF NothingStranded
<1>5. CASE ValidatorToSupervisor
  <2>1. /\ node = "validator"
        /\ current \in Task
        /\ current \in Planned(state)
    BY <1>0, <1>5 DEF ValidatorToSupervisor, Step, WorkIsReady, InStatus
  <2>2. \/ state' = MarkTask(state, current, "completed")
        \/ state' = CountRetry(state, current)
        \/ state' = MarkTask(state, current, "failed")
    BY <1>5, <2>1 DEF ValidatorToSupervisor
  <2>3. "completed" \in TaskStatus /\ "failed" \in TaskStatus
    BY DEF TaskStatus
  <2>4. \A x \in TaskStatus :
           /\ MarkTask(state, current, x).requests = state.requests
           /\ MarkTask(state, current, x).task[current].status = x
           /\ \A u \in Task \ {current} :
                 MarkTask(state, current, x).task[u] = state.task[u]
    BY <1>0, <2>1, MarkTaskFields
  <2>5. /\ CountRetry(state, current).requests = state.requests
        /\ CountRetry(state, current).task[current].status \in {"pending", "failed"}
        /\ \A u \in Task \ {current} :
              CountRetry(state, current).task[u] = state.task[u]
    BY <1>0, <2>1, CountRetryFields
  <2>6. /\ state'.requests = state.requests
        /\ state'.task[current].status # "in_progress"
        /\ \A u \in Task \ {current} : state'.task[u] = state.task[u]
    BY <2>2, <2>3, <2>4, <2>5
  <2> QED
    BY <2>1, <2>6 DEF NothingStranded
<1>6. ASSUME DOMAIN state'.requests # {}
      PROVE  NothingStranded'
  BY <1>6 DEF NothingStranded
<1>7. CASE ValidatorToGate
  <2>1. HasPending(state'.requests)
    BY <1>0, <1>7, RequestEscalationFields DEF ValidatorToGate
  <2> QED
    BY <1>6, <2>1 DEF HasPending
<1>8. CASE HumanGate
  <2>1. DOMAIN state.requests # {}
    <3>1. node = "human_gate"
      BY <1>8 DEF HumanGate, GateApproves, GateModifies, GateRejects,
         GatePauses, Step
    <3>2. state.requires_human
      BY <3>1 DEF ReviewInv, DecisionPlace, GateNeedsReview
    <3> QED
      BY <3>2, AskingIsEscalated DEF ReviewInv
  <2> DEFINE applied == ApplyDecision(state, decision)
  <2>2. decision # NONE => /\ applied \in OrchestrationState
                           /\ DOMAIN applied.requests # {}
    BY <1>0, <2>1, ApplyDecisionFields
  <2>3. ASSUME decision # NONE, NEW t \in Task \cup {NONE}, NEW x \in TaskStatus
        PROVE  /\ MarkDecided(applied, t, x) \in OrchestrationState
               /\ DOMAIN MarkDecided(applied, t, x).requests # {}
    BY <2>2, <2>3, MarkDecidedFields
  <2>4. "completed" \in TaskStatus /\ "pending" \in TaskStatus /\ "failed" \in TaskStatus
    BY DEF TaskStatus
  <2> HIDE DEF applied
  <2>5. CASE GateApproves
    <3> DEFINE marked == MarkDecided(applied, DecidedTask, "completed")
    <3>1. state' = [marked EXCEPT !.requires_human = FALSE, !.status = "running"]
      BY <2>5 DEF GateApproves, applied
    <3>2. marked \in OrchestrationState /\ DOMAIN marked.requests # {}
      BY <1>0, <2>3, <2>4, <2>5 DEF GateApproves
    <3> HIDE DEF marked
    <3>3. state'.requests = marked.requests
      BY <3>1, <3>2, ClearedFields
    <3> QED
      BY <1>6, <3>2, <3>3
  <2>6. CASE GateModifies
    <3> DEFINE marked == MarkDecided(applied, IF decision.payload
                                        THEN DecidedTask ELSE NONE, "pending")
    <3>1. state' = [marked EXCEPT !.requires_human = FALSE, !.status = "running"]
      BY <2>6 DEF GateModifies, applied
    <3>2. marked \in OrchestrationState /\ DOMAIN marked.requests # {}
      BY <1>0, <2>3, <2>4, <2>6 DEF GateModifies
    <3> HIDE DEF marked
    <3>3. state'.requests = marked.requests
      BY <3>1, <3>2, ClearedFields
    <3> QED
      BY <1>6, <3>2, <3>3
  <2>7. CASE GateRejects
    <3>1. state' = FailRun(MarkDecided(applied, DecidedTask, "failed"))
      BY <2>7 DEF GateRejects, applied
    <3> QED
      BY <1>0, <1>6, <2>3, <2>4, <2>7, <3>1, FailRunFields DEF GateRejects
  <2>8. CASE GatePauses
    BY <1>0, <1>6, <2>1, <2>2, <2>8, PausedFields DEF GatePauses, applied
  <2> QED
    BY <1>8, <2>5, <2>6, <2>7, <2>8 DEF HumanGate
<1>9. CASE Synthesis
  <2>1. /\ node = "synthesis" /\ node' = "end"
        /\ state'.requests = state.requests
        /\ \A t \in Task : state'.task[t].status \in {"completed", state.task[t].status}
    BY <1>9, SynthesisFields DEF Synthesis, Step
  <2> QED
    BY <2>1 DEF NothingStranded
<1>10. CASE Failed
  BY <1>0, <1>10, FailRunFields DEF Failed, Step, NothingStranded
<1>11. CASE Return \/ RetrievalRaises \/ RecursionLimit \/ Crash
  BY <1>11 DEF Return, RetrievalRaises, RecursionLimit, Crash, Raise, Idle,
     NothingStranded
<1>12. CASE Review
  <2>1. saved.requires_human /\ state'.requests = saved.requests
    BY <1>12, ReviewStarts DEF Resumable
  <2> QED
    BY <1>6, <2>1, AskingIsEscalated DEF ReviewInv
<1>13. CASE UNCHANGED vars
  BY <1>13 DEF vars, NothingStranded
<1> QED
  BY <1>2, <1>3, <1>4, <1>5, <1>7, <1>8, <1>9, <1>10, <1>11, <1>12, <1>13
  DEF Next, GraphStep, Retrieval, Tool, Validator

\* A validated plan has no cycle: of the tasks that are pending, one depends on
\* no other, so it is ready unless a task it depends on failed or is stuck.
LEMMA SomeTaskReady ==
    ASSUME NEW s \in OrchestrationState, s.plan # NONE, ~AllCompleted(s),
           \A t \in s.plan.ids : s.task[t].status \in {"pending", "completed"}
    PROVE  \E t \in Task : IsReady(s, t)
<1>1. /\ IsPlan(s.plan)
      /\ Planned(s) = s.plan.ids
      /\ s.plan.ids \subseteq Task
  BY PlansAssumption DEF OrchestrationState, Planned, IsPlan
<1> DEFINE left == InStatus(s, "pending")
<1>2. left \in SUBSET s.plan.ids /\ left # {}
  BY <1>1 DEF InStatus, AllCompleted, IsPlan
<1>3. PICK t \in left : s.plan.deps[t] \cap left = {}
  BY <1>1, <1>2 DEF IsPlan
<1>4. s.plan.deps[t] \subseteq s.plan.ids
  BY <1>1, <1>2, <1>3 DEF IsPlan
<1>5. s.plan.deps[t] \subseteq InStatus(s, "completed")
  BY <1>1, <1>3, <1>4 DEF InStatus
<1> QED
  BY <1>1, <1>2, <1>3, <1>5 DEF IsReady

\* The supervisor's "dependency deadlock" needs a reviewer's decision.
THEOREM DeadlockIsReviewers == Spec => []DeadlockNeedsReviewer
<1>1. Init => NothingStranded
  BY DEF Init, InitialState, FreshTasks, NothingStranded
<1>2. Spec => []NothingStranded
  BY <1>1, NothingStrandedNext, TypeCorrect, WorkersRunReadyTasks,
     ReviewInvariant, PTL DEF Spec
<1>3. TypeOK /\ NothingStranded => DeadlockNeedsReviewer
  <2> SUFFICES ASSUME TypeOK, NothingStranded, node = "supervisor",
                      state.plan # NONE, NoneReady(state),
                      ~AllCompleted(state), ~HasFailedTasks(state),
                      state.requests = <<>>
               PROVE  FALSE
    BY DEF DeadlockNeedsReviewer
  <2>1. state \in OrchestrationState /\ Planned(state) \subseteq Task
    BY PlannedTasks DEF TypeOK
  <2>2. ASSUME NEW t \in state.plan.ids
        PROVE  state.task[t].status \in {"pending", "completed"}
    <3>1. t \in Task /\ t \in Planned(state)
      BY <2>1, <2>2 DEF Planned
    <3>2. state.task[t].status \in TaskStatus
      BY <2>1, <3>1 DEF OrchestrationState
    <3>3. state.task[t].status # "in_progress"
      BY <3>1 DEF NothingStranded
    <3>4. state.task[t].status # "failed"
      BY <3>1 DEF HasFailedTasks, InStatus
    <3> QED
      BY <3>2, <3>3, <3>4 DEF TaskStatus
  <2> QED
    BY <2>1, <2>2, SomeTaskReady DEF NoneReady
<1> QED
  BY <1>2, <1>3, TypeCorrect, PTL

-----------------------------------------------------------------------------
(* The life cycle.                                                         *)

\* What has ended, and what is stored between two invocations, is a result or
\* waits for a reviewer.
Settled(s) == s.status \in Terminal \/ Resumable(s)

SettledInv ==
    /\ node = "end" => Settled(state)
    /\ node = "idle" => Settled(saved)

\* With the three verdicts of the documentation, and a process that stays up,
\* the graph ends and stops settled.
LEMMA SettledNext ==
    ASSUME Verdicts \subseteq {"approved", "modified", "rejected"},
           "crash" \notin Faults,
           TypeOK, ReviewInv, StoredRunIsOpen, SettledInv, [Next]_vars
    PROVE  SettledInv'
<1>0. /\ state \in OrchestrationState
      /\ saved \in OrchestrationState
      /\ decision \in Decision \cup {NONE}
  BY DEF TypeOK
<1>1. CASE Review
  BY <1>1, ReviewStarts DEF SettledInv
<1>2. CASE GatePauses
  <2>1. decision = NONE
    BY <1>0, <1>2 DEF GatePauses, Decision
  <2>2. state' = [state EXCEPT !.status = "paused_for_human"]
    BY <1>2, <2>1 DEF GatePauses
  <2>3. /\ state'.status = "paused_for_human"
        /\ state'.requires_human = state.requires_human
    BY <1>0, <2>2, PausedFields
  <2>4. node = "human_gate" /\ node' = "end"
    BY <1>2 DEF GatePauses, Step
  <2> QED
    BY <2>1, <2>3, <2>4
    DEF ReviewInv, GateNeedsReview, SettledInv, Settled, Resumable, Terminal
<1>3. CASE Synthesis
  <2>1. state'.status = "completed" /\ node' = "end"
    BY <1>3, SynthesisFields DEF Synthesis, Step
  <2> QED
    BY <2>1 DEF SettledInv, Settled, Terminal
<1>4. CASE Failed
  <2>1. state'.status = "failed" /\ node' = "end"
    BY <1>0, <1>4, FailRunFields DEF Failed, Step
  <2> QED
    BY <2>1 DEF SettledInv, Settled, Terminal
<1>5. CASE Return
  BY <1>5 DEF Return, Idle, SettledInv, Settled, Resumable
<1>6. ASSUME NEW s \in OrchestrationState, Raise(s), node # "idle"
      PROVE  SettledInv'
  <2>1. CASE entry = "run"
    <3>1. saved'.status = "failed" /\ node' = "idle"
      BY <1>6, <2>1, FailRunFields DEF Raise, Idle
    <3> QED
      BY <3>1 DEF SettledInv, Settled, Terminal
  <2>2. CASE entry # "run"
    <3>1. saved' = saved /\ node' = "idle" /\ entry = "resume"
      BY <1>6, <2>2 DEF Raise, Idle, TypeOK
    <3>2. Resumable(saved)
      BY <1>6, <3>1 DEF StoredRunIsOpen, Resumable
    <3> QED
      BY <3>1, <3>2 DEF SettledInv, Settled
  <2> QED
    BY <2>1, <2>2
<1>7. CASE RetrievalRaises
  <2>1. current \in Task /\ "in_progress" \in TaskStatus
    BY <1>0, <1>7, PlannedTasks DEF RetrievalRaises, TaskStatus
  <2>2. MarkTask(state, current, "in_progress") \in OrchestrationState
    BY <1>0, <2>1, MarkTaskFields
  <2> QED
    BY <1>6, <1>7, <2>2 DEF RetrievalRaises
<1>8. CASE RecursionLimit
  BY <1>0, <1>6, <1>8 DEF RecursionLimit
<1>9. CASE SupervisorDispatch
  <2>1. PICK t \in Task : /\ IsFirstReady(state, t)
                          /\ Step("supervisor", Handler[state.plan.type[t]])
    BY <1>9 DEF SupervisorDispatch
  <2>2. Handler[state.plan.type[t]] \in Node
    BY <1>0, <2>1, ReadyTask DEF IsFirstReady
  <2> QED
    BY <2>1, <2>2 DEF Step, Node, SettledInv
<1>10. CASE SupervisorToGate \/ SupervisorToPlanner \/ SupervisorToSynthesis
            \/ SupervisorToFailed \/ Planner \/ Retrieval \/ Tool \/ Validator
            \/ GateApproves \/ GateModifies \/ GateRejects
  <2>1. node' \notin {"end", "idle"}
    BY <1>10 DEF SupervisorToGate, SupervisorToPlanner, SupervisorToSynthesis,
       SupervisorToFailed, Planner, Retrieval, Tool, Execute, Validator,
       ValidatorToGate, ValidatorToSupervisor, GateApproves, GateModifies,
       GateRejects, Step
  <2> QED
    BY <2>1 DEF SettledInv
<1>11. CASE UNCHANGED vars
  BY <1>11 DEF vars, SettledInv, Settled, Resumable
<1>12. ~Crash
  BY DEF Crash
<1> QED
  BY <1>1, <1>2, <1>3, <1>4, <1>5, <1>7, <1>8, <1>9, <1>10, <1>11, <1>12
  DEF Next, GraphStep, Supervisor, HumanGate

\* Under the same assumptions the graph and the runtime implement the life
\* cycle a client sees: a run is never lost, and what a client sees of it is
\* final once it is a result.
THEOREM ImplementsLifecycleSafety ==
    ASSUME Verdicts \subseteq {"approved", "modified", "rejected"},
           "crash" \notin Faults
    PROVE  Spec => Lifecycle!Spec
<1>1. Spec => []SettledInv
  <2>1. Init => SettledInv
    BY DEF Init, SettledInv
  <2>2. TypeOK /\ ReviewInv /\ StoredRunIsOpen /\ SettledInv /\ [Next]_vars
           => SettledInv'
    BY SettledNext
  <2> QED
    BY <2>1, <2>2, TypeCorrect, ReviewInvariant, StoredRun, PTL DEF Spec
<1>2. Init => Lifecycle!Init
  BY DEF Init, Lifecycle!Init, Phase
<1>3. TypeOK /\ SettledInv /\ SettledInv' /\ [Next]_vars
         => [Lifecycle!Next]_Phase
  <2> SUFFICES ASSUME TypeOK, SettledInv, SettledInv', [Next]_vars
               PROVE  [Lifecycle!Next]_Phase
    OBVIOUS
  <2>1. CASE Review
    <3>1. Phase = "awaiting_review"
      BY <2>1, ReviewStarts DEF Phase, Resumable
    <3>2. Phase' = "executing"
      BY <2>1, ReviewStarts DEF Phase
    <3> QED
      BY <3>1, <3>2 DEF Lifecycle!Next, Lifecycle!Decide
  <2>2. CASE ~Review /\ node # "idle" /\ node' = "idle"
    <3>1. Phase = "executing"
      BY <2>2 DEF Phase
    <3>2. Phase' \in {"awaiting_review", "completed", "failed"}
      BY <2>2 DEF SettledInv, Settled, Phase, Terminal
    <3> QED
      BY <3>1, <3>2 DEF Lifecycle!Next, Lifecycle!Stop
  <2>3. CASE ~Review /\ node # "idle" /\ node' # "idle"
    BY <2>3 DEF Phase
  <2>4. CASE ~Review /\ node = "idle"
    <3>1. UNCHANGED vars
      BY <2>4 DEF Next, GraphStep, Supervisor, SupervisorToGate,
         SupervisorToPlanner, SupervisorDispatch, SupervisorToSynthesis,
         SupervisorToFailed, Planner, Retrieval, Tool, Execute, Validator,
         ValidatorToGate, ValidatorToSupervisor, HumanGate, GateApproves,
         GateModifies, GateRejects, GatePauses, Synthesis, Failed, Return,
         RetrievalRaises, RecursionLimit, Crash, Step
    <3> QED
      BY <3>1 DEF vars, Phase, Resumable
  <2> QED
    BY <2>1, <2>2, <2>3, <2>4
<1> QED
  BY <1>1, <1>2, <1>3, TypeCorrect, PTL DEF Spec, Lifecycle!Spec

-----------------------------------------------------------------------------
(* The length of an invocation of the graph, when the run is planned once:   *)
(* each visit of the validator takes one of the attempts that are left.      *)

\* How often a task may still be attempted; a reviewer who modifies a task that
\* has used up its retries grants it one more.
AttemptsOf(s, t) ==
    IF s.task[t].retries < Attempts THEN Attempts - s.task[t].retries ELSE 1

\* The attempts that are left, task by task: of the pending tasks, and of the
\* one the validator is about to judge.
Left(s, judged) ==
    {a \in s.plan.ids \X (1 .. Attempts) :
        /\ s.task[a[1]].status = "pending" \/ a[1] \in judged
        /\ a[2] <= AttemptsOf(s, a[1])}
Judged == IF node = "validator" THEN {current} ELSE {}

\* How far past its attempts the graph can be at each node.
Allowance ==
    CASE node = "supervisor" -> 2
      [] node = "validator" -> 4
      [] node = "end" -> 4
      [] OTHER -> 3

WithinAllowance ==
    state.plan # NONE =>
        steps + 3 * Cardinality(Left(state, Judged))
            <= 3 * Attempts * Cardinality(state.plan.ids) + Allowance

\* Reviewers are asked about tasks of a plan.
AskedOnPlan(s) == s.plan = NONE => s.requests = <<>>

\* The planner is asked once, first of all, and a decision comes first as well.
PlanPlace ==
    /\ state.plan = NONE =>
          \/ node = "supervisor" /\ (steps = 0 \/ state.status = "failed")
          \/ node \in {"planner", "failed", "end", "idle"}
    /\ AskedOnPlan(state) /\ AskedOnPlan(saved)
    /\ node = "planner" => steps = 1
    /\ node = "idle" => steps = 0
    /\ decision # NONE =>
          \/ node = "supervisor" /\ steps = 0
          \/ node = "human_gate" /\ steps = 1
          \/ node = "end" /\ steps = 2

BudgetInv == PlanPlace /\ WithinAllowance

\* At least one attempt, and as many as there are retries.
LEMMA AttemptsType ==
    /\ Attempts \in Nat \ {0}
    /\ MaxRetries # 0 => Attempts = MaxRetries
BY BoundsAssumption DEF Attempts

LEMMA AttemptsLeft ==
    ASSUME NEW s \in OrchestrationState, NEW t \in Task
    PROVE  /\ s.task[t].retries \in Nat
           /\ AttemptsOf(s, t) \in 1 .. Attempts
<1>1. s.task[t].retries \in Nat
  BY DEF OrchestrationState
<1> QED
  BY <1>1, AttemptsType DEF AttemptsOf

\* There are at most so many for each task of the plan.
LEMMA LeftBounded ==
    ASSUME NEW s \in OrchestrationState, s.plan # NONE, NEW judged
    PROVE  /\ IsFiniteSet(Left(s, judged))
           /\ Cardinality(s.plan.ids) \in Nat
           /\ Cardinality(Left(s, judged)) \in Nat
           /\ 3 * Cardinality(Left(s, judged)) <= 3 * Attempts * Cardinality(s.plan.ids)
           /\ 3 * Attempts * Cardinality(s.plan.ids) \in Nat
<1> DEFINE ids == s.plan.ids
           all == ids \X (1 .. Attempts)
<1>1. IsFiniteSet(ids) /\ Cardinality(ids) \in Nat
  <2>1. s.plan \in Plans
    BY DEF OrchestrationState
  <2>2. ids \in SUBSET Task
    BY <2>1, PlansAssumption DEF IsPlan
  <2>3. IsFiniteSet(Task)
    BY BoundsAssumption, FS_Interval DEF Task
  <2> QED
    BY <2>2, <2>3, FS_Subset, FS_CardinalityType
<1>2. IsFiniteSet(1 .. Attempts) /\ Cardinality(1 .. Attempts) = Attempts
  BY AttemptsType, FS_Interval
<1>3. IsFiniteSet(all) /\ Cardinality(all) = Cardinality(ids) * Attempts
  BY <1>1, <1>2, FS_Product
<1>4. Left(s, judged) \in SUBSET all
  BY DEF Left
<1>5. /\ IsFiniteSet(Left(s, judged)) /\ Cardinality(Left(s, judged)) \in Nat
      /\ Cardinality(Left(s, judged)) <= Cardinality(ids) * Attempts
  <2> HIDE DEF all
  <2> QED
    BY <1>3, <1>4, FS_Subset, FS_CardinalityType
<1>6. ASSUME NEW c \in Nat, NEW l \in Nat, NEW a \in Nat, l <= c * a
      PROVE  3 * l <= 3 * a * c /\ 3 * a * c \in Nat
  <2> DEFINE ca == c * a
  <2>1. ca \in Nat /\ 3 * a * c = 3 * ca
    OBVIOUS
  <2> HIDE DEF ca
  <2>2. l <= ca
    BY <1>6 DEF ca
  <2> QED
    BY <2>1, <2>2
<1> QED
  BY <1>1, <1>5, <1>6, AttemptsType

\* The statement for the next state.
LEMMA AllowanceNamed ==
    /\ WithinAllowance' <=>
          (state'.plan # NONE =>
              steps' + 3 * Cardinality(Left(state', Judged'))
                  <= 3 * Attempts * Cardinality(state'.plan.ids) + Allowance')
    /\ Allowance \in {2, 3, 4} /\ Allowance' \in {2, 3, 4}
BY DEF WithinAllowance, Allowance, Left, AttemptsOf

\* A graph that has just started, or whose tasks are new, has all its attempts.
LEMMA AllowanceAtStart ==
    ASSUME TypeOK', steps' <= Allowance'
    PROVE  WithinAllowance'
<1> SUFFICES ASSUME state'.plan # NONE
             PROVE  steps' + 3 * Cardinality(Left(state', Judged'))
                       <= 3 * Attempts * Cardinality(state'.plan.ids) + Allowance'
  BY AllowanceNamed
<1>1. state' \in OrchestrationState /\ steps' \in Nat
  BY BoundsAssumption DEF TypeOK
<1> DEFINE l == Cardinality(Left(state', Judged'))
           b == 3 * Attempts * Cardinality(state'.plan.ids)
<1>2. l \in Nat /\ 3 * l <= b /\ b \in Nat
  BY <1>1, LeftBounded
<1> HIDE DEF l, b
<1>3. Allowance' \in Nat /\ steps' <= Allowance'
  BY AllowanceNamed
<1>4. ASSUME NEW n \in Nat, NEW a \in Nat, n <= a
      PROVE  n + 3 * l <= b + a
  BY <1>2, <1>4
<1>5. steps' + 3 * l <= b + Allowance'
  BY <1>1, <1>3, <1>4
<1> QED
  BY <1>5 DEF l, b

\* A step that uses no attempt, and one that uses one.
LEMMA AllowanceStep ==
    ASSUME TypeOK, TypeOK', WithinAllowance, steps' = steps + 1, state'.plan = state.plan,
           state.plan # NONE => Left(state', Judged') \subseteq Left(state, Judged),
           \/ Allowance + 1 <= Allowance'
           \/ /\ Allowance + 1 <= Allowance' + 3
              /\ state.plan # NONE => Left(state', Judged') # Left(state, Judged)
    PROVE  WithinAllowance'
<1> SUFFICES ASSUME state.plan # NONE
             PROVE  steps' + 3 * Cardinality(Left(state', Judged'))
                       <= 3 * Attempts * Cardinality(state'.plan.ids) + Allowance'
  BY AllowanceNamed
<1>1. state \in OrchestrationState /\ steps \in Nat
  BY BoundsAssumption DEF TypeOK
<1> DEFINE before == Left(state, Judged)
           after == Left(state', Judged')
           l == Cardinality(before)
           m == Cardinality(after)
           b == 3 * Attempts * Cardinality(state.plan.ids)
<1>2. IsFiniteSet(before) /\ l \in Nat /\ b \in Nat /\ steps + 3 * l <= b + Allowance
  BY <1>1, LeftBounded DEF WithinAllowance
<1>3. after \subseteq before
  OBVIOUS
<1>4. m \in Nat /\ m <= l /\ (after # before => m <= l - 1)
  <2> HIDE DEF before, after
  <2>1. m \in Nat /\ m <= l /\ (m = l => after = before)
    BY <1>2, <1>3, FS_Subset, FS_CardinalityType
  <2> QED
    BY <1>2, <2>1
<1>5. \/ Allowance + 1 <= Allowance'
      \/ Allowance + 1 <= Allowance' + 3 /\ after # before
  OBVIOUS
<1> HIDE DEF before, after, l, m, b
<1>6. steps + 1 + 3 * m <= b + Allowance'
  BY <1>1, <1>2, <1>4, <1>5, AllowanceNamed
<1> QED
  BY <1>6 DEF m, b, after

\* Steps of an invocation that change no task use no attempt.
LEMMA LeftStays ==
    ASSUME NEW s, NEW u, u.plan = s.plan, u.task = s.task, NEW judged
    PROVE  Left(u, {}) \subseteq Left(s, judged)
BY DEF Left, AttemptsOf

\* A retry is counted, and a task that stays pending has one attempt less.
LEMMA RetryCounted ==
    ASSUME NEW s \in OrchestrationState, NEW t \in Task,
           CountRetry(s, t).task[t].status = "pending"
    PROVE  /\ CountRetry(s, t).task[t].retries = s.task[t].retries + 1
           /\ s.task[t].retries < Attempts
           /\ AttemptsOf(CountRetry(s, t), t) = AttemptsOf(s, t) - 1
<1> DEFINE counted == s.task[t].retries + 1
           r == [status |-> IF counted < MaxRetries THEN "pending" ELSE "failed",
                 retries |-> counted]
           c == CountRetry(s, t)
<1>1. s.task[t].retries \in Nat /\ MaxRetries \in Nat
  BY BoundsAssumption DEF OrchestrationState
<1>2. c.task[t] = r
  BY DEF CountRetry, OrchestrationState
<1>3. counted < MaxRetries
  BY <1>2
<1>4. Attempts = MaxRetries
  BY <1>1, <1>3, AttemptsType
<1>5. c.task[t].retries = counted
  BY <1>2
<1> HIDE DEF r, c
<1>6. AttemptsOf(c, t) = Attempts - counted
  BY <1>3, <1>4, <1>5 DEF AttemptsOf
<1>7. AttemptsOf(s, t) = Attempts - s.task[t].retries
  BY <1>1, <1>3, <1>4 DEF AttemptsOf
<1> QED
  BY <1>1, <1>3, <1>4, <1>5, <1>6, <1>7 DEF c

\* A step that changes the task the validator judges uses one of its attempts.
LEMMA LeftShrinks ==
    ASSUME NEW s \in OrchestrationState, NEW u \in OrchestrationState,
           s.plan # NONE, u.plan = s.plan,
           NEW t \in s.plan.ids, t \in Task,
           \A v \in Task \ {t} : u.task[v] = s.task[v],
           u.task[t].status = "pending" => AttemptsOf(u, t) = AttemptsOf(s, t) - 1
    PROVE  /\ Left(u, {}) \subseteq Left(s, {t})
           /\ Left(u, {}) # Left(s, {t})
<1> DEFINE n == AttemptsOf(s, t)
<1>1. n \in 1 .. Attempts /\ AttemptsOf(u, t) \in 1 .. Attempts /\ Attempts \in Nat
  BY AttemptsLeft, AttemptsType
<1>2. s.plan.ids \subseteq Task
  BY PlannedTasks DEF Planned
<1>3. \A v \in Task \ {t} : AttemptsOf(u, v) = AttemptsOf(s, v)
  BY DEF AttemptsOf
<1> HIDE DEF n
<1>4. ASSUME NEW a \in Left(u, {})
      PROVE  a \in Left(s, {t})
  <2>1. /\ a \in s.plan.ids \X (1 .. Attempts)
        /\ u.task[a[1]].status = "pending" /\ a[2] <= AttemptsOf(u, a[1])
        /\ a[1] \in Task /\ a[2] \in Nat
    BY <1>1, <1>2 DEF Left
  <2>2. CASE a[1] = t
    <3>1. AttemptsOf(u, t) = n - 1
      BY <2>1, <2>2 DEF n
    <3>2. a[2] <= n
      BY <1>1, <2>1, <2>2, <3>1
    <3> QED
      BY <2>1, <2>2, <3>2 DEF Left, n
  <2>3. CASE a[1] # t
    BY <1>3, <2>1, <2>3 DEF Left
  <2> QED
    BY <2>2, <2>3
<1>5. <<t, n>> \in Left(s, {t})
  BY <1>1 DEF Left, n
<1>6. <<t, n>> \notin Left(u, {})
  <2>1. CASE u.task[t].status = "pending"
    <3>1. ~(n <= AttemptsOf(u, t))
      BY <1>1, <2>1 DEF n
    <3> QED
      BY <3>1 DEF Left
  <2>2. CASE u.task[t].status # "pending"
    BY <2>2 DEF Left
  <2> QED
    BY <2>1, <2>2
<1> QED
  BY <1>4, <1>5, <1>6

\* A worker leaves its task to the validator, with the attempts it had.
LEMMA LeftToJudge ==
    ASSUME NEW s \in OrchestrationState, NEW t \in s.plan.ids, t \in Task, s.plan # NONE,
           NEW outcome \in {"in_progress", "failed"}, s.task[t].status = "pending"
    PROVE  Left(MarkTask(s, t, outcome), {t}) \subseteq Left(s, {})
<1> DEFINE u == MarkTask(s, t, outcome)
<1>1. /\ u.plan = s.plan
      /\ \A v \in Task \ {t} : u.task[v] = s.task[v]
  <2>1. outcome \in TaskStatus
    BY DEF TaskStatus
  <2> QED
    BY <2>1, MarkTaskFields
<1>2. u.task[t].retries = s.task[t].retries
  BY DEF MarkTask, OrchestrationState
<1>3. s.plan.ids \subseteq Task
  BY PlannedTasks DEF Planned
<1> HIDE DEF u
<1>4. \A v \in s.plan.ids : /\ AttemptsOf(u, v) = AttemptsOf(s, v)
                            /\ u.task[v].status = "pending" \/ v = t
                                  => s.task[v].status = "pending"
  BY <1>1, <1>2, <1>3 DEF AttemptsOf
<1>5. Left(u, {t}) \subseteq Left(s, {})
  <2> SUFFICES ASSUME NEW a \in Left(u, {t}) PROVE a \in Left(s, {})
    OBVIOUS
  <2>1. /\ a \in s.plan.ids \X (1 .. Attempts) /\ a[1] \in s.plan.ids
        /\ u.task[a[1]].status = "pending" \/ a[1] = t
        /\ a[2] <= AttemptsOf(u, a[1])
    BY <1>1 DEF Left
  <2> QED
    BY <1>4, <2>1 DEF Left
<1> QED
  BY <1>5 DEF u

\* A run that waits for a reviewer has its plan.
LEMMA ReviewNeedsPlan ==
    ASSUME PlanPlace, NEW s \in {state, saved}, AsksSomething(s), s.requires_human
    PROVE  s.plan # NONE
<1>1. s.requests # <<>>
  BY DEF AsksSomething, HasPending
<1> QED
  BY <1>1 DEF PlanPlace, AskedOnPlan

\* The supervisor asks the planner only at the start, and uses no attempt.
LEMMA BudgetSupervisor ==
    ASSUME TypeOK, TypeOK', ReviewInv, PlannedOnce', PlanPlace, WithinAllowance, Supervisor
    PROVE  PlanPlace' /\ WithinAllowance'
<1>0. state \in OrchestrationState
  BY DEF TypeOK
<1>1. /\ node = "supervisor"
      /\ UNCHANGED <<state, saved, decision>>
      /\ steps' = steps + 1
  BY DEF Supervisor, SupervisorToGate, SupervisorToPlanner, SupervisorDispatch,
     SupervisorToSynthesis, SupervisorToFailed, Step
<1>2. \/ node' = "human_gate" /\ state.plan # NONE
      \/ node' = "planner" /\ state.plan = NONE /\ state.status # "failed" /\ decision = NONE
      \/ node' \in {"retrieval", "tool", "synthesis"} /\ state.plan # NONE /\ decision = NONE
      \/ node' = "failed" /\ decision = NONE
  <2>1. CASE SupervisorToGate
    <3>1. state.requires_human
      BY <1>1, <2>1 DEF SupervisorToGate, ReviewInv, DecisionPlace
    <3>2. AsksSomething(state)
      BY DEF ReviewInv
    <3>3. state.plan # NONE
      BY <3>1, <3>2, ReviewNeedsPlan
    <3> QED
      BY <2>1, <3>3 DEF SupervisorToGate, Step
  <2>2. CASE SupervisorToPlanner
    BY <2>2 DEF SupervisorToPlanner, Step, MayDispatch
  <2>3. CASE SupervisorDispatch
    <3>1. PICK t \in Task : /\ IsReady(state, t)
                            /\ Step("supervisor", Handler[state.plan.type[t]])
      BY <2>3 DEF SupervisorDispatch, IsFirstReady
    <3>2. /\ state.plan \in Plans /\ state.plan # NONE
          /\ t \in state.plan.ids
          /\ state.plan.type[t] \in TaskType
      BY <1>0, <3>1, ReadyTask, NoneAssumption
    <3>3. node' # "planner"
      BY <1>1, <3>2 DEF PlannedOnce
    <3>4. node' \in {"retrieval", "tool", "synthesis"}
      BY <3>1, <3>2, <3>3 DEF Step, Handler, TaskType
    <3> QED
      BY <2>3, <3>2, <3>4 DEF SupervisorDispatch, MayDispatch
  <2>4. CASE SupervisorToSynthesis
    BY <2>4 DEF SupervisorToSynthesis, Step, MayDispatch, AllCompleted, Planned
  <2>5. CASE SupervisorToFailed
    BY <2>5 DEF SupervisorToFailed, Step
  <2> QED
    BY <2>1, <2>2, <2>3, <2>4, <2>5 DEF Supervisor
<1>3. PlanPlace'
  <2>1. steps = 0 => steps' = 1
    BY <1>1
  <2>2. state.plan = NONE /\ state.status # "failed" => steps = 0
    BY <1>1 DEF PlanPlace
  <2> QED
    BY <1>1, <1>2, <2>1, <2>2 DEF PlanPlace, AskedOnPlan
<1>4. WithinAllowance'
  <2>1. Judged' = {} /\ Allowance = 2 /\ Allowance' = 3
    BY <1>1, <1>2 DEF Judged, Allowance
  <2>2. Left(state', Judged') \subseteq Left(state, Judged)
    BY <1>1, <2>1, LeftStays
  <2>3. Allowance + 1 <= Allowance'
    BY <2>1
  <2> QED
    BY <1>1, <2>2, <2>3, AllowanceStep
<1> QED
  BY <1>3, <1>4

\* The planner's tasks have all their attempts.
LEMMA BudgetPlanner ==
    ASSUME TypeOK, TypeOK', ReviewInv, PlanPlace, Planner
    PROVE  PlanPlace' /\ WithinAllowance'
<1>0. state \in OrchestrationState
  BY DEF TypeOK
<1>1. /\ node = "planner" /\ node' = "supervisor"
      /\ decision' = decision /\ saved' = saved
      /\ steps' = steps + 1
  BY DEF Planner, Step
<1>2. decision = NONE /\ steps = 1
  BY <1>1 DEF ReviewInv, DecisionPlace, PlanPlace
<1>3. steps' <= Allowance'
  BY <1>1, <1>2 DEF Allowance
<1>4. \/ state'.plan # NONE
      \/ /\ state'.plan = state.plan
         /\ state'.requests = state.requests
         /\ state'.status = "failed"
  <2>1. CASE state' = FailRun(state)
    BY <1>0, <2>1, FailRunFields
  <2>2. ASSUME NEW p \in Plans, state' = [state EXCEPT !.plan = p, !.task = FreshTasks]
        PROVE  state'.plan # NONE
    BY <1>0, <2>2, NewPlanFields, NoneAssumption
  <2> QED
    BY <2>1, <2>2 DEF Planner
<1>5. PlanPlace'
  BY <1>1, <1>2, <1>4 DEF PlanPlace, AskedOnPlan
<1> QED
  BY <1>3, <1>5, AllowanceAtStart

\* A worker takes its task's next attempt to the validator.
LEMMA BudgetExecute ==
    ASSUME TypeOK, TypeOK', WorkIsReady, ReviewInv, PlanPlace, WithinAllowance,
           Retrieval \/ Tool
    PROVE  PlanPlace' /\ WithinAllowance'
<1>0. state \in OrchestrationState
  BY DEF TypeOK
<1>1. /\ node \in {"retrieval", "tool"} /\ node' = "validator"
      /\ UNCHANGED <<saved, decision, current>>
      /\ steps' = steps + 1
  BY DEF Retrieval, Tool, Execute, Step
<1>2. current \in Task /\ IsReady(state, current)
  BY <1>1 DEF WorkIsReady
<1>3. /\ state.plan # NONE /\ current \in state.plan.ids
      /\ current \in Planned(state)
      /\ state.task[current].status = "pending"
  BY <1>2 DEF IsReady, InStatus, Planned
<1>4. PICK outcome \in {"in_progress", "failed"} : state' = MarkTask(state, current, outcome)
  BY <1>3 DEF Retrieval, Tool, Execute
<1>5. outcome \in TaskStatus
  BY DEF TaskStatus
<1>6. state'.plan = state.plan
  BY <1>0, <1>2, <1>4, <1>5, MarkTaskFields
<1>7. PlanPlace'
  BY <1>1, <1>3, <1>6 DEF PlanPlace, AskedOnPlan, ReviewInv, DecisionPlace
<1>8. WithinAllowance'
  <2>1. /\ Judged = {} /\ Judged' = {current}
        /\ Allowance = 3 /\ Allowance' = 4
    BY <1>1 DEF Judged, Allowance
  <2>2. Left(state', Judged') \subseteq Left(state, Judged)
    BY <1>0, <1>2, <1>3, <1>4, <2>1, LeftToJudge
  <2>3. Allowance + 1 <= Allowance'
    BY <2>1
  <2> QED
    BY <1>1, <1>6, <2>2, <2>3, AllowanceStep
<1> QED
  BY <1>7, <1>8

\* The validator's verdict, whichever it is, uses up the attempt.
LEMMA BudgetValidator ==
    ASSUME TypeOK, TypeOK', WorkIsReady, ReviewInv, PlanPlace, WithinAllowance, Validator
    PROVE  PlanPlace' /\ WithinAllowance'
<1>0. state \in OrchestrationState /\ state' \in OrchestrationState
  BY DEF TypeOK
<1>1. /\ node = "validator" /\ node' \in {"supervisor", "human_gate"}
      /\ UNCHANGED <<saved, decision>>
      /\ steps' = steps + 1
  BY DEF Validator, ValidatorToGate, ValidatorToSupervisor, Step
<1>2. /\ current \in Planned(state) /\ current \in Task
      /\ state.plan # NONE /\ current \in state.plan.ids
      /\ state.task[current].status \in {"in_progress", "failed"}
  <2>1. /\ current \in Planned(state)
        /\ state.task[current].status \in {"in_progress", "failed"}
    BY <1>1 DEF WorkIsReady, InStatus
  <2> QED
    BY <1>0, <2>1, PlannedTasks DEF Planned
<1>3. /\ state'.plan = state.plan
      /\ \A v \in Task \ {current} : state'.task[v] = state.task[v]
      /\ state'.task[current].status = "pending"
            => AttemptsOf(state', current) = AttemptsOf(state, current) - 1
  <2>1. CASE ValidatorToGate
    <3>1. state' = RequestEscalation(state, current)
      BY <2>1 DEF ValidatorToGate
    <3>2. state'.plan = state.plan /\ state'.task = state.task
      BY <1>0, <1>2, <3>1, RequestEscalationFields
    <3> QED
      BY <1>2, <3>2
  <2>2. ASSUME NEW x \in {"completed", "failed"}, state' = MarkTask(state, current, x)
        PROVE  /\ state'.plan = state.plan
               /\ \A v \in Task \ {current} : state'.task[v] = state.task[v]
               /\ state'.task[current].status # "pending"
    <3>1. x \in TaskStatus
      BY DEF TaskStatus
    <3>2. /\ MarkTask(state, current, x).plan = state.plan
          /\ MarkTask(state, current, x).task[current].status = x
          /\ \A v \in Task \ {current} :
                MarkTask(state, current, x).task[v] = state.task[v]
      BY <1>0, <1>2, <3>1, MarkTaskFields
    <3> QED
      BY <2>2, <3>2
  <2>3. CASE state' = CountRetry(state, current)
    <3>1. /\ state'.plan = state.plan
          /\ \A v \in Task \ {current} : state'.task[v] = state.task[v]
      BY <1>0, <1>2, <2>3, CountRetryFields
    <3>2. CountRetry(state, current).task[current].status = "pending"
             => AttemptsOf(CountRetry(state, current), current)
                   = AttemptsOf(state, current) - 1
      BY <1>0, <1>2, RetryCounted
    <3> QED
      BY <2>3, <3>1, <3>2
  <2>4. CASE ValidatorToSupervisor
    <3>1. \/ \E x \in {"completed", "failed"} : state' = MarkTask(state, current, x)
          \/ state' = CountRetry(state, current)
      BY <1>2, <2>4 DEF ValidatorToSupervisor
    <3> QED
      BY <2>2, <2>3, <3>1
  <2> QED
    BY <2>1, <2>4 DEF Validator
<1>4. PlanPlace'
  BY <1>1, <1>2, <1>3 DEF PlanPlace, AskedOnPlan, ReviewInv, DecisionPlace
<1>5. WithinAllowance'
  <2>1. /\ Judged = {current} /\ Judged' = {}
        /\ Allowance = 4 /\ (Allowance' = 2 \/ Allowance' = 3)
    BY <1>1 DEF Judged, Allowance
  <2>2. /\ Left(state', {}) \subseteq Left(state, {current})
        /\ Left(state', {}) # Left(state, {current})
    BY <1>0, <1>2, <1>3, LeftShrinks
  <2>3. /\ Left(state', Judged') \subseteq Left(state, Judged)
        /\ Left(state', Judged') # Left(state, Judged)
    BY <2>1, <2>2
  <2>4. Allowance + 1 <= Allowance' + 3
    BY <2>1
  <2> QED
    BY <1>1, <1>3, <2>3, <2>4, AllowanceStep
<1> QED
  BY <1>4, <1>5

\* A decision comes first of all; without one the graph pauses.
LEMMA BudgetGate ==
    ASSUME TypeOK, TypeOK', PlanPlace, WithinAllowance, HumanGate
    PROVE  PlanPlace' /\ WithinAllowance'
<1> DEFINE applied == ApplyDecision(state, decision)
<1>0. /\ state \in OrchestrationState
      /\ decision \in Decision \cup {NONE}
      /\ DecidedTask \in Task \cup {NONE}
  BY DecidedTaskType DEF TypeOK
<1>1. /\ node = "human_gate"
      /\ node' \in {"supervisor", "failed", "end"}
      /\ saved' = saved
      /\ steps' = steps + 1
  BY DEF HumanGate, GateApproves, GateModifies, GateRejects, GatePauses, Step
<1>2. state.plan # NONE /\ (decision # NONE => steps = 1)
  BY <1>1 DEF PlanPlace
<1>3. decision # NONE => applied \in OrchestrationState /\ applied.plan = state.plan
  BY <1>0, ApplyDecisionFields
<1> HIDE DEF applied
<1>4. ASSUME NEW x \in TaskStatus, NEW t \in Task \cup {NONE}, decision # NONE
      PROVE  /\ MarkDecided(applied, t, x) \in OrchestrationState
             /\ MarkDecided(applied, t, x).plan = state.plan
  BY <1>3, <1>4, MarkDecidedFields
<1>5. /\ state'.plan = state.plan
      /\ decision' # NONE => decision # NONE /\ node' = "end"
      /\ decision = NONE => /\ state'.task = state.task
                            /\ node' = "end"
  <2>1. CASE GateApproves
    <3>1. MarkDecided(applied, DecidedTask, "completed") \in OrchestrationState
          /\ MarkDecided(applied, DecidedTask, "completed").plan = state.plan
      BY <1>0, <1>4, <2>1 DEF GateApproves, TaskStatus
    <3>2. state'.plan = state.plan
      BY <2>1, <3>1, ClearedFields DEF GateApproves, applied
    <3> QED
      BY <2>1, <3>2 DEF GateApproves
  <2>2. CASE GateModifies
    <3> DEFINE t == IF decision.payload THEN DecidedTask ELSE NONE
               m == MarkDecided(applied, t, "pending")
    <3>1. m \in OrchestrationState /\ m.plan = state.plan
      BY <1>0, <1>4, <2>2 DEF GateModifies, TaskStatus
    <3>2. state'.plan = state.plan
      <4>1. state' = [m EXCEPT !.requires_human = FALSE, !.status = "running"]
        BY <2>2 DEF GateModifies, applied
      <4> HIDE DEF m
      <4> QED
        BY <3>1, <4>1, ClearedFields
    <3> QED
      BY <2>2, <3>2 DEF GateModifies
  <2>3. CASE GateRejects
    <3>1. MarkDecided(applied, DecidedTask, "failed") \in OrchestrationState
          /\ MarkDecided(applied, DecidedTask, "failed").plan = state.plan
      BY <1>0, <1>4, <2>3 DEF GateRejects, TaskStatus
    <3>2. state'.plan = state.plan
      BY <2>3, <3>1, FailRunFields DEF GateRejects, applied
    <3> QED
      BY <2>3, <3>2 DEF GateRejects
  <2>4. CASE GatePauses
    <3>1. node' = "end" /\ decision' = decision
      BY <2>4 DEF GatePauses, Step
    <3>2. \/ state' = [state EXCEPT !.status = "paused_for_human"]
          \/ decision # NONE /\ state' = [applied EXCEPT !.status = "paused_for_human"]
      BY <2>4 DEF GatePauses, applied
    <3>3. CASE state' = [state EXCEPT !.status = "paused_for_human"]
      BY <1>0, <3>1, <3>3, PausedFields
    <3>4. CASE decision # NONE /\ state' = [applied EXCEPT !.status = "paused_for_human"]
      BY <1>3, <3>1, <3>4, PausedFields
    <3> QED
      BY <3>2, <3>3, <3>4
  <2> QED
    BY <2>1, <2>2, <2>3, <2>4 DEF HumanGate
<1>6. decision # NONE => steps' = 2
  BY <1>1, <1>2
<1>7. PlanPlace'
  BY <1>1, <1>2, <1>5, <1>6 DEF PlanPlace, AskedOnPlan
<1>8. WithinAllowance'
  <2>1. CASE decision # NONE
    <3>1. steps' <= Allowance'
      BY <1>1, <1>6, <2>1 DEF Allowance
    <3> QED
      BY <3>1, AllowanceAtStart
  <2>2. CASE decision = NONE
    <3>1. /\ Judged = {} /\ Judged' = {}
          /\ Allowance = 3 /\ Allowance' = 4
      BY <1>1, <1>5, <2>2 DEF Judged, Allowance
    <3>2. Left(state', Judged') \subseteq Left(state, Judged)
      BY <1>5, <2>2, <3>1, LeftStays
    <3>3. Allowance + 1 <= Allowance'
      BY <3>1
    <3> QED
      BY <1>1, <1>5, <3>2, <3>3, AllowanceStep
  <2> QED
    BY <2>1, <2>2
<1> QED
  BY <1>7, <1>8

\* The synthesis leaves no task an attempt it had not.
LEMMA SynthesisLeft ==
    ASSUME TypeOK, Synthesis, state.plan # NONE
    PROVE  Left(state', {}) \subseteq Left(state, {})
<1>1. state \in OrchestrationState /\ state'.plan = state.plan
  BY SynthesisFields DEF TypeOK
<1>2. ASSUME NEW t \in Task
      PROVE  /\ state'.task[t].status = "pending" => state.task[t].status = "pending"
             /\ state'.task[t].retries = state.task[t].retries
  <2>1. state'.task[t].status \in {"completed", state.task[t].status}
    BY SynthesisFields
  <2>2. state.task[t] \in [status : TaskStatus, retries : Nat]
    BY <1>1 DEF OrchestrationState
  <2>3. state'.task[t] \in {state.task[t], [state.task[t] EXCEPT !.status = "completed"]}
    BY <1>1 DEF Synthesis, OrchestrationState
  <2> QED
    BY <2>1, <2>2, <2>3
<1>3. \A t \in Task : AttemptsOf(state', t) = AttemptsOf(state, t)
  BY <1>2 DEF AttemptsOf
<1>4. state.plan = NONE \/ state.plan.ids \subseteq Task
  BY <1>1, PlannedTasks DEF Planned
<1> QED
  BY <1>1, <1>2, <1>3, <1>4 DEF Left

\* The last nodes of the graph use no attempt.
LEMMA BudgetEnds ==
    ASSUME TypeOK, TypeOK', ReviewInv, PlanPlace, WithinAllowance, Synthesis \/ Failed
    PROVE  PlanPlace' /\ WithinAllowance'
<1>0. state \in OrchestrationState
  BY DEF TypeOK
<1>1. /\ node \in {"synthesis", "failed"} /\ node' = "end"
      /\ UNCHANGED <<saved, decision>>
      /\ steps' = steps + 1
  BY DEF Synthesis, Failed, Step
<1>2. decision = NONE
  BY <1>1 DEF ReviewInv, DecisionPlace
<1>3. /\ state'.plan = state.plan
      /\ state'.requests = state.requests
      /\ state.plan # NONE => Left(state', {}) \subseteq Left(state, {})
  <2>1. CASE Synthesis
    <3>1. state'.plan = state.plan /\ state'.requests = state.requests
      BY <2>1, SynthesisFields
    <3>2. state.plan # NONE
      BY <2>1 DEF Synthesis, Step, PlanPlace
    <3> QED
      BY <2>1, <3>1, <3>2, SynthesisLeft
  <2>2. CASE Failed
    <3>1. state' = FailRun(state)
      BY <2>2 DEF Failed
    <3>2. /\ state'.plan = state.plan /\ state'.requests = state.requests
          /\ state'.task = state.task
      BY <1>0, <3>1, FailRunFields
    <3> QED
      BY <3>2, LeftStays
  <2> QED
    BY <2>1, <2>2
<1>4. PlanPlace'
  BY <1>1, <1>2, <1>3 DEF PlanPlace, AskedOnPlan
<1>5. WithinAllowance'
  <2>1. /\ Judged = {} /\ Judged' = {}
        /\ Allowance = 3 /\ Allowance' = 4
    BY <1>1 DEF Judged, Allowance
  <2>2. state.plan # NONE => Left(state', Judged') \subseteq Left(state, Judged)
    BY <1>3, <2>1
  <2>3. Allowance + 1 <= Allowance'
    BY <2>1
  <2> QED
    BY <1>1, <1>3, <2>2, <2>3, AllowanceStep
<1> QED
  BY <1>4, <1>5

\* The runtime starts counting anew.
LEMMA BudgetRuntime ==
    ASSUME TypeOK, TypeOK', WorkIsReady, ReviewInv, PlanPlace,
           Return \/ RetrievalRaises \/ RecursionLimit \/ Crash \/ Review
    PROVE  PlanPlace' /\ WithinAllowance'
<1>0. /\ state \in OrchestrationState /\ saved \in OrchestrationState
      /\ AskedOnPlan(state) /\ AskedOnPlan(saved)
  BY DEF TypeOK, PlanPlace
<1>1. steps' = 0
  BY DEF Return, RetrievalRaises, RecursionLimit, Crash, Raise, Idle, Review, Resume
<1>2. WithinAllowance'
  <2>1. steps' <= Allowance'
    BY <1>1, AllowanceNamed
  <2> QED
    BY <2>1, AllowanceAtStart
<1>3. ASSUME node' = "idle", decision' = NONE,
             AskedOnPlan(state'), AskedOnPlan(saved')
      PROVE  PlanPlace'
  BY <1>1, <1>3 DEF PlanPlace, AskedOnPlan
<1>4. ASSUME NEW s \in OrchestrationState, AskedOnPlan(s), Raise(s)
      PROVE  PlanPlace'
  <2>1. /\ node' = "idle" /\ decision' = NONE /\ state' = saved'
        /\ saved' = saved \/ saved' = FailRun(s)
    BY <1>4 DEF Raise, Idle
  <2>2. AskedOnPlan(saved')
    BY <1>0, <1>4, <2>1, FailRunFields DEF AskedOnPlan
  <2> QED
    BY <1>3, <2>1, <2>2
<1>5. CASE Return
  BY <1>0, <1>2, <1>3, <1>5 DEF Return, Idle
<1>6. CASE Crash
  BY <1>0, <1>2, <1>3, <1>6 DEF Crash, Idle
<1>7. CASE RecursionLimit
  BY <1>0, <1>2, <1>4, <1>7 DEF RecursionLimit
<1>8. CASE RetrievalRaises
  <2> DEFINE s == MarkTask(state, current, "in_progress")
  <2>1. current \in Task /\ "in_progress" \in TaskStatus
    BY <1>0, <1>8, PlannedTasks DEF RetrievalRaises, TaskStatus
  <2>2. s \in OrchestrationState /\ AskedOnPlan(s)
    BY <1>0, <2>1, MarkTaskFields DEF AskedOnPlan
  <2>3. Raise(s)
    BY <1>8 DEF RetrievalRaises
  <2> HIDE DEF s
  <2> QED
    BY <1>2, <1>4, <2>2, <2>3
<1>9. CASE Review
  <2>1. /\ node' = "supervisor" /\ state' = saved' /\ saved'.plan = saved.plan
        /\ Resumable(saved)
    BY <1>9, ReviewStarts
  <2>2. saved.plan # NONE
    BY <2>1, ReviewNeedsPlan DEF ReviewInv, Resumable
  <2> QED
    BY <1>1, <1>2, <2>1, <2>2 DEF PlanPlace, AskedOnPlan
<1> QED
  BY <1>5, <1>6, <1>7, <1>8, <1>9

\* Every step keeps the graph within its attempts.
LEMMA BudgetInvNext ==
    ASSUME TypeOK, TypeOK', WorkIsReady, ReviewInv, PlannedOnce', BudgetInv, [Next]_vars
    PROVE  BudgetInv'
<1> SUFFICES ASSUME PlanPlace, WithinAllowance
             PROVE  PlanPlace' /\ WithinAllowance'
  BY DEF BudgetInv
<1>1. CASE Supervisor
  BY <1>1, BudgetSupervisor
<1>2. CASE Planner
  BY <1>2, BudgetPlanner
<1>3. CASE Retrieval \/ Tool
  BY <1>3, BudgetExecute
<1>4. CASE Validator
  BY <1>4, BudgetValidator
<1>5. CASE HumanGate
  BY <1>5, BudgetGate
<1>6. CASE Synthesis \/ Failed
  BY <1>6, BudgetEnds
<1>7. CASE Return \/ RetrievalRaises \/ RecursionLimit \/ Crash \/ Review
  BY <1>7, BudgetRuntime
<1>8. CASE UNCHANGED vars
  <2>1. PlanPlace'
    BY <1>8 DEF vars, PlanPlace, AskedOnPlan
  <2>2. WithinAllowance'
    BY <1>8 DEF vars, WithinAllowance, Left, Judged, AttemptsOf, Allowance
  <2> QED
    BY <2>1, <2>2
<1> QED
  BY <1>1, <1>2, <1>3, <1>4, <1>5, <1>6, <1>7, <1>8 DEF Next, GraphStep

\* In a run that no PLANNING task plans anew an invocation of the graph ends
\* within four nodes and three for each attempt of a task, whatever the agents
\* and the reviewers answer: a recursion limit above that is never met.
THEOREM GraphWithinBudget == Spec => WithinStepBudget
<1>1. Init => BudgetInv
  <2> SUFFICES ASSUME Init PROVE PlanPlace /\ WithinAllowance
    BY DEF BudgetInv
  <2>1. state = InitialState /\ saved = InitialState /\ decision = NONE
        /\ node = "supervisor" /\ steps = 0
    BY DEF Init
  <2>2. InitialState.plan = NONE /\ InitialState.requests = <<>>
    BY DEF InitialState
  <2> QED
    BY <2>1, <2>2 DEF PlanPlace, AskedOnPlan, WithinAllowance
<1>2. TypeOK /\ TypeOK' /\ WorkIsReady /\ ReviewInv /\ PlannedOnce' /\ BudgetInv /\ [Next]_vars
          => BudgetInv'
  BY BudgetInvNext
<1>3. TypeOK /\ BudgetInv => WithinSteps
  <2> SUFFICES ASSUME TypeOK, WithinAllowance, state.plan # NONE
               PROVE  steps <= 4 + 3 * Attempts * Cardinality(state.plan.ids)
    BY DEF BudgetInv, WithinSteps
  <2> DEFINE l == Cardinality(Left(state, Judged))
             b == 3 * Attempts * Cardinality(state.plan.ids)
  <2>1. state \in OrchestrationState /\ steps \in Nat
    BY BoundsAssumption DEF TypeOK
  <2>2. l \in Nat /\ b \in Nat
    BY <2>1, LeftBounded
  <2>3. steps + 3 * l <= b + Allowance
    BY DEF WithinAllowance
  <2>4. Allowance \in Nat /\ Allowance <= 4
    BY DEF Allowance
  <2> HIDE DEF l, b
  <2>5. steps <= 4 + b
    BY <2>1, <2>2, <2>3, <2>4
  <2> QED
    BY <2>5 DEF b
<1> QED
  BY <1>1, <1>2, <1>3, TypeCorrect, WorkersRunReadyTasks, ReviewInvariant,
     PTL DEF Spec, WithinStepBudget
=============================================================================
