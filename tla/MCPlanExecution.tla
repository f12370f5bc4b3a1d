-------------------------- MODULE MCPlanExecution --------------------------
(***************************************************************************)
(* Three instances of PlanExecution in one run of TLC: plans with reviews  *)
(* and a model that keeps to the Tools it is offered, the same with one    *)
(* that calls Tools in every phase, and fixed plans.                       *)
(***************************************************************************)
EXTENDS PlanExecution

VARIABLE planning

\* Drafts of three steps: a chain, a variant of a that closes a cycle with b,
\* and a step that names an executor nobody knows.
D(i, ds, e) == [id |-> i, deps |-> ds, executor |-> e]
Chain == {D("a", {}, "react"), D("b", {"a"}, "model"), D("c", {"b"}, "react")}
Odd == {D("a", {"b"}, "model"), D("c", {}, "other")}
ChainAndOdd == Chain \cup Odd

\* What an application may supply: a chain and a step that nobody can execute, with
\* steps and plan of any status (as much of it as the code tells apart), and three
\* steps of which one has a history and one does not depend on it.
PlansOf(drafts, sts, statuses) ==
    {[steps |-> [i \in DOMAIN drafts |-> Step(drafts[i], st[i])], status |-> ps] :
        st \in [DOMAIN drafts -> sts], ps \in statuses}

Pairs == PlansOf(<<D("a", {}, "react"), D("b", {"a"}, "model")>>,
                 StepStatus \ {"cancelled"}, {"created", "completed", "failed"})
Strange == PlansOf(<<D("c", {}, "other")>>, StepStatus, PlanStatus)
Three == PlansOf(<<D("a", {}, "react"), D("b", {}, "model"), D("c", {"b"}, "react")>>,
                 StepStatus \ {"cancelled"}, {"waiting", "cancelled"})
Begun == {p \in Three : /\ p.steps[1].status \in {"completed", "failed", "skipped"}
                        /\ p.steps[2].status = "pending" /\ p.steps[3].status = "pending"}
WithHistory == Pairs \cup Strange \cup Begun

Calling == INSTANCE PlanExecution WITH Unasked <- TRUE

Fixed == INSTANCE PlanExecution WITH
             Draft <- Chain \cup {D("c", {}, "react")}, MaxFuture <- 3, MaxSteps <- 4,
             ReplanAfterStep <- FALSE, Summarize <- FALSE, MaxIterations <- 1,
             Supplied <- Three

MCInit == \/ planning = "offered" /\ Init
          \/ planning = "calling" /\ Init /\ Consistent(given)
          \/ planning = "fixed" /\ Fixed!Init

MCNext == /\ \/ planning = "offered" /\ Next
             \/ planning = "calling" /\ Calling!Next
             \/ planning = "fixed" /\ Fixed!Next
          /\ UNCHANGED planning

AdvanceAny == \/ planning = "offered" /\ Advance
              \/ planning = "calling" /\ Calling!Advance
              \/ planning = "fixed" /\ Fixed!Advance

MCFairSpec == MCInit /\ [][MCNext]_<<vars, planning>> /\ WF_vars(AdvanceAny)

-----------------------------------------------------------------------------
\* PlanExecutor.settle: when the runtime has ended a Run whose model called only
\* the Tools it was offered, no step of its plan is left active, and a completed
\* Run has a completed plan, also after an interruption.
PlanSettledWithRun == planning # "calling" => PlanSettled

\* Until the task is interrupted, whoever follows the events sees the plan: before
\* each turn and at the end the last event about each step names its status.
StepsToldInTime == interrupts = 0 => StepsAnnounced

\* Plan, Run and events agree when the Run rests or has ended.
PlanAgreesWithRun == PlanSettledWithRun /\ StepsToldInTime
=============================================================================
