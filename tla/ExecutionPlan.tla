--------------------------- MODULE ExecutionPlan ---------------------------
(***************************************************************************)
(* Execution plans (models/plan.py): a sequence of steps with dependencies *)
(* and the operations that replace a plan by a later one.  The revision,   *)
(* which every operation raises by one, and the texts are left out.        *)
(***************************************************************************)
EXTENDS Naturals, Sequences, FiniteSetsExt

StepStatus == {"pending", "running", "waiting", "completed", "failed", "cancelled", "skipped"}
PlanStatus == {"created", "running", "waiting", "completed", "failed", "cancelled"}

Active == {"running", "waiting"}
Settled == {"completed", "skipped"}
Historical == {"completed", "failed", "cancelled", "skipped"}

StepIds(steps) == {steps[i].id : i \in DOMAIN steps}

\* validate_graph: unique names, known dependencies and, as _assert_acyclic, no
\* set of steps that all wait for another one of the set.
ValidGraph(steps) ==
    /\ steps # <<>>
    /\ \A i, j \in DOMAIN steps : steps[i].id = steps[j].id => i = j
    /\ \A i \in DOMAIN steps : steps[i].deps \subseteq StepIds(steps)
    /\ \A S \in SUBSET StepIds(steps) \ {{}} :
          \E i \in DOMAIN steps : steps[i].id \in S /\ steps[i].deps \cap S = {}

With(plan, status) == {i \in DOMAIN plan.steps : plan.steps[i].status = status}

\* ready_steps
Ready(plan) ==
    {i \in With(plan, "pending") :
        \A j \in DOMAIN plan.steps :
           plan.steps[j].id \in plan.steps[i].deps => plan.steps[j].status \in Settled}

\* _replace_step
SetStep(plan, i, status, planStatus) ==
    [steps |-> [plan.steps EXCEPT ![i].status = status], status |-> planStatus]

StartStep(plan, i) == SetStep(plan, i, "running", "running")
WaitStep(plan, i) == SetStep(plan, i, "waiting", "waiting")
ResumeStep(plan, i) == SetStep(plan, i, "running", "running")

AllSettled(steps) == \A i \in DOMAIN steps : steps[i].status \in Settled

\* complete_step
CompleteStep(plan, i) ==
    LET updated == SetStep(plan, i, "completed", plan.status)
    IN  IF AllSettled(updated.steps) THEN [updated EXCEPT !.status = "completed"] ELSE updated

\* cancel and fail: the active step ends with the plan, pending ones stay.
EndPlan(plan, outcome) ==
    [steps |-> [i \in DOMAIN plan.steps |->
                   IF plan.steps[i].status \in Active
                   THEN [plan.steps[i] EXCEPT !.status = outcome] ELSE plan.steps[i]],
     status |-> outcome]
=============================================================================
