------------------------ MODULE MCSupervisorGraph ------------------------
(***************************************************************************)
(* Instances of SupervisorGraph for TLC: small plans with the shapes that  *)
(* make the supervisor's choices differ.                                   *)
(***************************************************************************)
EXTENDS SupervisorGraph

PlanOf(ids, type, deps) ==
    [ids  |-> ids,
     type |-> [t \in Task |-> IF t \in ids THEN type[t] ELSE "tool"],
     deps |-> [t \in Task |-> IF t \in ids THEN deps[t] ELSE {}]]

\* A join: two independent tasks and the synthesis of both.
JoinPlan ==
    PlanOf({1, 2, 3}, <<"retrieval", "tool", "synthesis">>, <<{}, {}, {1, 2}>>)
\* Dependencies against the order of the plan.
BackwardPlan == PlanOf({1, 2}, <<"tool", "retrieval">>, <<{2}, {}>>)
\* A synthesis task that waits for nothing.
EarlySynthesisPlan == PlanOf({1, 2}, <<"synthesis", "tool">>, <<{}, {}>>)
\* A task that plans anew in the middle of the run.
ReplanningPlan == PlanOf({1, 2}, <<"tool", "planning">>, <<{}, {1}>>)

AllPlans == {JoinPlan, BackwardPlan, EarlySynthesisPlan, ReplanningPlan}
SmallPlans == {BackwardPlan, EarlySynthesisPlan}

LivePlans == {JoinPlan, BackwardPlan, ReplanningPlan}

ReviewVerdicts == {"approved", "modified", "rejected"}
=============================================================================
