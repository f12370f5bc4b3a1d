--------------------------- MODULE PlanExecution ---------------------------
(***************************************************************************)
(* A Run that executes a plan (orchestration/plan_execution.py,            *)
(* planning.py): the plan is supplied or asked from the model, its steps   *)
(* are executed one by one, the pending ones are reviewed after each, and  *)
(* a summary ends the Run.  What happens inside a batch of Tool calls is   *)
(* the subject of ToolBatch; here a batch has an outcome.                  *)
(***************************************************************************)
EXTENDS ExecutionPlan

CONSTANTS
    StepId,
    Draft,             \* the steps a plan or a review may propose: id, deps, executor
    Supplied,          \* the plans that the application may supply
    MaxFuture,         \* bound on the steps of a proposal
    ReplanAfterStep, Summarize, MaxIterations,     \* the options of PlanningStrategy
    MaxSteps,          \* max_steps of the profile
    Unasked,           \* TRUE: the model may call Tools it was not offered
    MaxInterrupts      \* bound on the interruptions of the task

PlanStep == [id : StepId, deps : SUBSET StepId, executor : {"model", "react", "other"}, status : StepStatus]

ASSUME PlanAssumption ==
    /\ \A d \in Draft : /\ d.id \in StepId /\ d.deps \subseteq StepId \ {d.id}
                        /\ d.executor \in {"model", "react", "other"}
    /\ \A p \in Supplied : /\ p \in [steps : Seq(PlanStep), status : PlanStatus]
                           /\ ValidGraph(p.steps)
    /\ {MaxFuture, MaxIterations, MaxSteps, MaxInterrupts} \subseteq Nat
    /\ {ReplanAfterStep, Summarize, Unasked} \subseteq BOOLEAN

VARIABLES
    status,      \* of the context
    plan,        \* of the context, or NoPlan
    phase,       \* built_in_planning.phase
    react,       \* built_in_planning.react: the step and its iterations
    suspended,   \* a batch of Tool calls is suspended
    steps,       \* step_count
    cancel,      \* cancel_requested of the Run
    pc,
    news,        \* steps whose change is saved and not yet announced
    then,        \* where the strategy goes on after announcing them
    told,        \* what the events say of each step
    interrupts,
    outside,     \* the Run was finalized without the runtime
    given        \* the plan that was supplied, or NoPlan

vars == <<status, plan, phase, react, suspended, steps, cancel, pc, news, then, told, interrupts, outside, given>>

NoPlan == [steps |-> <<>>, status |-> "created"]
NoReact == [step |-> "none", iteration |-> 0]
Then(s, p) == [status |-> s, pc |-> p]

Step(draft, st) == [id |-> draft.id, deps |-> draft.deps, executor |-> draft.executor, status |-> st]
Pending(drafts) == [i \in DOMAIN drafts |-> Step(drafts[i], "pending")]
Proposal == UNION {[1..n -> Draft] : n \in 0..MaxFuture}

StatusIn(p, id) == p.steps[CHOOSE i \in DOMAIN p.steps : p.steps[i].id = id].status
Announced(old, p, ids) == [id \in StepId |-> IF id \in ids THEN StatusIn(p, id) ELSE old[id]]

\* The Run has a plan of any statuses, or requests one (create_context).
Init ==
    /\ status = "running" /\ cancel = FALSE /\ pc = "check"
    /\ given \in Supplied \cup {NoPlan} /\ plan = given
    /\ phase = IF plan = NoPlan THEN "planning" ELSE "executing"
    /\ react = NoReact /\ suspended = FALSE /\ steps = 0
    /\ news = {} /\ then = Then("running", "check")
    /\ told = Announced([id \in StepId |-> "none"], plan, StepIds(plan.steps))
    /\ interrupts = 0 /\ outside = FALSE

-----------------------------------------------------------------------------
Changed(old, new) ==
    {id \in StepIds(old.steps) \cap StepIds(new.steps) : StatusIn(old, id) # StatusIn(new, id)}

\* update_execution_plan up to the snapshot.
UpdatePlan(new, structural, next) ==
    /\ plan' = new
    /\ news' = IF structural THEN StepIds(new.steps) ELSE Changed(plan, new)
    /\ then' = next
    /\ pc' = "emit"

\* The rest of update_execution_plan: the events.
Emit ==
    /\ pc = "emit"
    /\ told' = Announced(told, plan, news)
    /\ news' = {}
    /\ status' = then.status /\ pc' = then.pc
    /\ UNCHANGED <<plan, phase, react, suspended, steps, cancel, then, interrupts, outside>>

KeepPlan(next) == /\ status' = next.status /\ pc' = next.pc
                  /\ UNCHANGED <<plan, news, then>>

\* _fail_execution, in a Run that is then st.
FailExecution(st) ==
    IF plan # NoPlan /\ plan.status \notin {"failed", "cancelled"}
    THEN UpdatePlan(EndPlan(plan, "failed"), FALSE, Then(st, "settle")) /\ UNCHANGED status
    ELSE KeepPlan(Then(st, "settle"))

\* _finish_plan
FinishedPhase == IF Summarize THEN "summarizing" ELSE "executing"
Finished == IF Summarize THEN Then("running", "check") ELSE Then("completed", "settle")

-----------------------------------------------------------------------------
\* AgentRuntime.execute before each advance.
LoopTop ==
    /\ pc = "check"
    /\ CASE cancel -> status' = "cancelled" /\ pc' = "close"
         [] ~cancel /\ steps >= MaxSteps -> status' = "limit_reached" /\ pc' = "close"
         [] OTHER -> pc' = "advance" /\ UNCHANGED status
    /\ UNCHANGED <<plan, phase, react, suspended, steps, cancel, news, then, told, interrupts, outside>>

Supported(p) == \A i \in DOMAIN p.steps : p.steps[i].executor \in {"model", "react"}

\* advance in the phases without an active step.
AdvancePhase ==
    /\ pc = "advance" /\ phase # "executing"
    /\ pc' = "request"
    /\ UNCHANGED <<status, plan, phase, react, suspended, steps, cancel, news, then, told, interrupts, outside>>

\* advance up to the Model/Tool loop: the active step goes on, or the first
\* ready one starts, or there is nothing left (_handle_no_ready_step).
AdvanceStep ==
    /\ pc = "advance" /\ phase = "executing"
    /\ LET go == Then("running", "request") IN
       CASE ~Supported(plan) ->
              KeepPlan(Then("failed", "close")) /\ UNCHANGED <<phase, react>>
         [] Supported(plan) /\ With(plan, "waiting") # {} ->
              UpdatePlan(ResumeStep(plan, Min(With(plan, "waiting"))), FALSE, go) /\ UNCHANGED <<status, phase, react>>
         [] Supported(plan) /\ With(plan, "waiting") = {} /\ With(plan, "running") # {} ->
              KeepPlan(go) /\ UNCHANGED <<phase, react>>
         [] Supported(plan) /\ With(plan, "waiting") \cup With(plan, "running") = {} /\ Ready(plan) # {} ->
              UpdatePlan(StartStep(plan, Min(Ready(plan))), FALSE, go) /\ UNCHANGED <<status, phase, react>>
         [] OTHER ->
              IF plan.status = "completed"
              THEN KeepPlan(Finished) /\ phase' = FinishedPhase /\ UNCHANGED react
              ELSE FailExecution("failed") /\ UNCHANGED <<phase, react>>
    /\ UNCHANGED <<suspended, steps, cancel, told, interrupts, outside>>

\* _active_react_step: the first running step, if it is one of ReAct.
ReActStep == {i \in With(plan, "running") : /\ phase = "executing" /\ plan.steps[i].executor = "react"
                                            /\ \A j \in With(plan, "running") : i <= j}

IterationsUsedUp == ReActStep # {} /\ react.iteration >= MaxIterations

\* _before_model_request
Iterated ==
    IF ReActStep = {} THEN react
    ELSE LET id == plan.steps[Min(ReActStep)].id
         IN  [step |-> id, iteration |-> IF react.step = id THEN react.iteration + 1 ELSE 1]

\* Faulty variant: only the requests of a step are counted.
RequestModelUncounted ==
    /\ pc = "request" /\ ~suspended
    /\ IF IterationsUsedUp
       THEN FailExecution("failed") /\ UNCHANGED <<steps, react>>
       ELSE /\ steps' = IF phase = "executing" /\ ReActStep = {} THEN steps + 1 ELSE steps
            /\ react' = Iterated
            /\ KeepPlan(Then(status, "model"))
    /\ UNCHANGED <<phase, suspended, cancel, told, interrupts, outside>>

RequestModel ==
    /\ pc = "request" /\ ~suspended
    /\ IF IterationsUsedUp
       THEN FailExecution("failed") /\ UNCHANGED <<steps, react>>
       ELSE /\ steps' = steps + 1
            /\ react' = Iterated
            /\ KeepPlan(Then(status, "model"))
    /\ UNCHANGED <<phase, suspended, cancel, told, interrupts, outside>>

\* A suspended batch goes on without a request.
ResumeBatch ==
    /\ pc = "request" /\ suspended
    /\ suspended' = FALSE
    /\ pc' = "tools"
    /\ UNCHANGED <<status, plan, phase, react, steps, cancel, news, then, told, interrupts, outside>>

\* The provider fails, or a Tool asks for input in a malformed way.
AnswerFails ==
    /\ pc \in {"model", "tools"}
    /\ FailExecution("failed")
    /\ UNCHANGED <<phase, react, suspended, steps, cancel, told, interrupts, outside>>

\* The Run is cancelled when the model or a Tool has answered.
CancelledMeanwhile ==
    /\ pc \in {"model", "tools"} /\ cancel
    /\ KeepPlan(Then("cancelled", "settle"))
    /\ UNCHANGED <<phase, react, suspended, steps, cancel, told, interrupts, outside>>

CallTools ==
    /\ pc = "model" /\ ~cancel
    /\ phase = "executing" \/ Unasked
    /\ pc' = "tools"
    /\ UNCHANGED <<status, plan, phase, react, suspended, steps, cancel, news, then, told, interrupts, outside>>

-----------------------------------------------------------------------------
\* _complete_response

\* An answer that cannot be parsed; a step of a model executor takes any.
Malformed ==
    /\ pc = "model" /\ ~cancel
    /\ phase \in {"planning", "updating"} \/ ReActStep # {}
    /\ FailExecution("failed")
    /\ UNCHANGED <<phase, react, suspended, steps, cancel, told, interrupts, outside>>

GeneratePlan(drafts) ==
    /\ pc = "model" /\ ~cancel /\ phase = "planning"
    /\ LET new == [steps |-> Pending(drafts), status |-> "created"] IN
       IF ValidGraph(new.steps) /\ Supported(new)
       THEN UpdatePlan(new, TRUE, Then("running", "check")) /\ phase' = "executing" /\ UNCHANGED status
       ELSE FailExecution("failed") /\ UNCHANGED phase
    /\ UNCHANGED <<react, suspended, steps, cancel, told, interrupts, outside>>

\* The result of the running step; the review of the plan comes next.
StepResult ==
    /\ pc = "model" /\ ~cancel /\ phase = "executing"
    /\ LET done == CompleteStep(plan, Min(With(plan, "running")))
           last == ~ReplanAfterStep /\ done.status = "completed" IN
       /\ UpdatePlan(done, FALSE, IF last THEN Finished ELSE Then("running", "check"))
       /\ phase' = IF ReplanAfterStep THEN "updating" ELSE IF last THEN FinishedPhase ELSE "executing"
    /\ react' = NoReact
    /\ UNCHANGED <<status, suspended, steps, cancel, told, interrupts, outside>>

\* The steps with one of the statuses among the first n, for each n, and all of them.
Kept(all, statuses) ==
    LET kept[n \in 0..Len(all)] ==
            IF n = 0 THEN <<>>
            ELSE IF all[n].status \in statuses THEN Append(kept[n - 1], all[n]) ELSE kept[n - 1]
    IN  kept

StepsIn(p, statuses) == Kept(p.steps, statuses)[Len(p.steps)]

\* Faulty variant: the merged plan is not validated again.
MergeUnchecked(p, future) ==
    [steps |-> StepsIn(p, Historical) \o future,
     status |-> IF future = <<>> THEN "completed" ELSE "running",
     valid |-> TRUE]

\* Faulty variant: a proposed step replaces the settled one of the same name.
MergeReplacing(p, future) ==
    LET kept == SelectSeq(StepsIn(p, Historical), LAMBDA s : s.id \notin StepIds(future))
    IN  [steps |-> kept \o future,
         status |-> IF future = <<>> THEN "completed" ELSE "running",
         valid |-> ValidGraph(kept \o future)]

\* _merge_replanned_steps
Merge(p, future) ==
    LET steps_ == StepsIn(p, Historical) \o future
    IN  [steps |-> steps_,
         status |-> IF future = <<>> THEN "completed" ELSE "running",
         valid |-> With(p, "completed") # {} /\ ValidGraph(steps_)]

\* The review: unchanged, another future that fits the history, or a failure.
Review(drafts) ==
    /\ pc = "model" /\ ~cancel /\ phase = "updating"
    /\ LET future == Pending(drafts)
           merged == Merge(plan, future)
           new == [steps |-> merged.steps, status |-> merged.status]
           unchanged == future = StepsIn(plan, {"pending"})
           next(p) == IF p.status = "completed" THEN Finished ELSE Then("running", "check")
           following(p) == IF p.status = "completed" THEN FinishedPhase ELSE "executing" IN
       CASE unchanged -> KeepPlan(next(plan)) /\ phase' = following(plan)
         [] ~unchanged /\ merged.valid /\ Supported(new) ->
              UpdatePlan(new, TRUE, next(new)) /\ phase' = following(new) /\ UNCHANGED status
         [] OTHER -> FailExecution("failed") /\ UNCHANGED phase
    /\ UNCHANGED <<react, suspended, steps, cancel, told, interrupts, outside>>

Summary ==
    /\ pc = "model" /\ ~cancel /\ phase = "summarizing"
    /\ KeepPlan(Then("completed", "settle"))
    /\ UNCHANGED <<phase, react, suspended, steps, cancel, told, interrupts, outside>>

-----------------------------------------------------------------------------
\* The outcomes of a batch of Tool calls.

\* All calls are observed, or the Tool budget is used up.
ToolsDone ==
    /\ pc = "tools" /\ ~cancel
    /\ \/ KeepPlan(Then("running", "check"))
       \/ KeepPlan(Then("limit_reached", "settle"))
    /\ UNCHANGED <<phase, react, suspended, steps, cancel, told, interrupts, outside>>

\* A Tool asks for input: _wait_for_input raises without a plan and fails
\* without an active step, but the Run is waiting by then.
ToolsWait ==
    /\ pc = "tools"
    /\ suspended' = TRUE
    /\ CASE plan = NoPlan -> KeepPlan(Then("waiting", "close"))
         [] plan # NoPlan /\ With(plan, "running") # {} ->
              /\ UpdatePlan(WaitStep(plan, Min(With(plan, "running"))), FALSE, Then("waiting", "settle"))
              /\ status' = "waiting"
         [] plan # NoPlan /\ With(plan, "running") = {} /\ plan.status # "failed" ->
              /\ UpdatePlan(EndPlan(plan, "failed"), FALSE, Then("waiting", "settle"))
              /\ status' = "waiting"
         [] OTHER -> KeepPlan(Then("waiting", "settle"))
    /\ UNCHANGED <<phase, react, steps, cancel, told, interrupts, outside>>

-----------------------------------------------------------------------------
Unsuccessful == {"cancelled", "failed", "interrupted", "limit_reached"}

\* Faulty variant: the plan of a cancelled Run is left alone.
SettlePlanFailedOnly(next) ==
    IF plan # NoPlan /\ plan.status \notin {"completed", "failed", "cancelled"}
       /\ status \in Unsuccessful \ {"cancelled"}
    THEN UpdatePlan(EndPlan(plan, "failed"), FALSE, Then(status, next)) /\ UNCHANGED status
    ELSE KeepPlan(Then(status, next))

\* _settle_terminal_plan
SettlePlan(next) ==
    IF plan # NoPlan /\ plan.status \notin {"completed", "failed", "cancelled"} /\ status \in Unsuccessful
    THEN /\ UpdatePlan(EndPlan(plan, IF status = "cancelled" THEN "cancelled" ELSE "failed"), FALSE,
                       Then(status, next))
         /\ UNCHANGED status
    ELSE KeepPlan(Then(status, next))

\* At the end of advance.
Settle == /\ pc = "settle"
          /\ SettlePlan("close")
          /\ UNCHANGED <<phase, react, suspended, steps, cancel, told, interrupts, outside>>

\* PlanningStrategy.settle, called by the runtime after the resources are closed.
Close == /\ pc = "close"
         /\ SettlePlan(IF status = "waiting" THEN "wait" ELSE "end")
         /\ UNCHANGED <<phase, react, suspended, steps, cancel, told, interrupts, outside>>

InterruptedStatus == IF cancel THEN "cancelled" ELSE "interrupted"

\* The task is cancelled at an await inside the runtime's try block.
Interrupt ==
    /\ interrupts < MaxInterrupts
    /\ \/ pc \in {"check", "advance", "request", "model", "tools"}
       \/ pc = "emit" /\ then.pc \notin {"wait", "end"}
    /\ interrupts' = interrupts + 1
    /\ status' = IF status \in {"running", "waiting"} THEN InterruptedStatus ELSE status
    /\ news' = {}
    /\ pc' = "close"
    /\ UNCHANGED <<plan, phase, react, suspended, steps, cancel, then, told, outside>>

\* The task is cancelled after it: finalize_task_interruption ends the Run unless
\* a snapshot with a final status was saved.
InterruptLate ==
    /\ interrupts < MaxInterrupts
    /\ pc = "close" \/ (pc = "emit" /\ then.pc \in {"wait", "end"})
    /\ interrupts' = interrupts + 1
    /\ status' = IF pc = "close" /\ then.pc # "close" THEN InterruptedStatus ELSE status
    /\ news' = {}
    /\ pc' = "end" /\ outside' = TRUE
    /\ UNCHANGED <<plan, phase, react, suspended, steps, cancel, then, told>>

\* request_cancellation; a waiting Run is finalized at once.
RequestCancel ==
    /\ ~cancel /\ pc # "end"
    /\ cancel' = TRUE
    /\ IF pc = "wait" THEN status' = "cancelled" /\ pc' = "end" /\ outside' = TRUE
       ELSE UNCHANGED <<status, pc, outside>>
    /\ UNCHANGED <<plan, phase, react, suspended, steps, news, then, told, interrupts>>

\* The input arrives.
Resume ==
    /\ pc = "wait"
    /\ status' = "running" /\ pc' = "check"
    /\ UNCHANGED <<plan, phase, react, suspended, steps, cancel, news, then, told, interrupts, outside>>

Advance == /\ \/ LoopTop \/ AdvancePhase \/ AdvanceStep \/ Emit
              \/ RequestModel \/ ResumeBatch \/ AnswerFails \/ CancelledMeanwhile \/ CallTools
              \/ Malformed \/ StepResult \/ Summary
              \/ (\E drafts \in Proposal : GeneratePlan(drafts) \/ Review(drafts))
              \/ ToolsDone \/ ToolsWait \/ Settle \/ Close
           /\ UNCHANGED given

Next == Advance \/ ((Interrupt \/ InterruptLate \/ RequestCancel \/ Resume) /\ UNCHANGED given)

Spec == Init /\ [][Next]_vars

\* The provider, the Tools and the stores answer.
FairSpec == Spec /\ WF_vars(Advance)

-----------------------------------------------------------------------------
\* Every variable stays in its domain; no more requests are made than allowed.
TypeOK ==
    /\ status \in {"running", "waiting", "completed"} \cup Unsuccessful
    /\ plan.steps \in Seq(PlanStep) /\ plan.status \in PlanStatus
    /\ phase \in {"planning", "executing", "updating", "summarizing"}
    /\ react.iteration \in Nat /\ suspended \in BOOLEAN /\ cancel \in BOOLEAN /\ outside \in BOOLEAN
    /\ steps \in 0..MaxSteps /\ interrupts \in 0..MaxInterrupts
    /\ pc \in {"check", "advance", "emit", "request", "model", "tools", "settle", "close", "wait", "end"}
    /\ news \subseteq StepId
    /\ told \in [StepId -> StepStatus \cup {"none"}]

\* However the model reviews it, the plan stays a graph without duplicate names,
\* unknown dependencies or cycles, and no step of it has an unknown executor once
\* the model is asked anything.
WellFormed == plan # NoPlan => ValidGraph(plan.steps) /\ (pc = "model" => Supported(plan))

\* One step is active at a time, and a step has started only after its
\* dependencies have settled.
Ordered(p) ==
    /\ Cardinality({i \in DOMAIN p.steps : p.steps[i].status \in Active}) <= 1
    /\ \A i, j \in DOMAIN p.steps :
          /\ p.steps[i].status \in Active \cup {"completed"}
          /\ p.steps[j].id \in p.steps[i].deps
          => p.steps[j].status \in Settled

NoneActive(p) == \A i \in DOMAIN p.steps : p.steps[i].status \notin Active

\* A plan as ExecutionPlan's own methods leave it. validate_graph does not ask for
\* this, so that an application may supply another one.
Consistent(p) ==
    /\ Ordered(p)
    /\ p.status \in {"completed", "failed", "cancelled"} => NoneActive(p)
    /\ p.status = "completed" => With(p, "pending") = {}

\* Steps run one at a time and after their dependencies, also when reviews have
\* replaced the steps between, unless a plan was supplied that says otherwise.
StepsInOrder == Consistent(given) => Ordered(plan)

\* A step that has settled stays in the plan as it is: no review, failure or
\* cancellation changes or drops it, so no step is executed twice.
HistoryKept ==
    [][ \A i \in DOMAIN plan.steps : plan.steps[i].status \in Historical
          => \E j \in DOMAIN plan'.steps : plan'.steps[j] = plan.steps[i] ]_vars

\* A ReAct step has its own iterations, all of them and not more.
OwnIterations ==
    /\ react.iteration <= MaxIterations
    /\ Consistent(given) => \A i \in ReActStep : react # NoReact => react.step = plan.steps[i].id

\* Failed or cancelled before the Run.
FailedBefore(s) == s.status \in {"failed", "cancelled"} /\ \E j \in DOMAIN given.steps : given.steps[j] = s

\* When the runtime has ended a Run, no step of its plan is left active, and a
\* completed Run has a completed plan without pending steps, in which only those
\* steps have failed that were supplied so.
PlanSettled ==
    Consistent(given) /\ pc = "end" /\ ~outside =>
        /\ NoneActive(plan)
        /\ status = "completed" =>
              /\ plan.status = "completed"
              /\ \A i \in DOMAIN plan.steps :
                    plan.steps[i].status \in Settled \/ FailedBefore(plan.steps[i])

\* Before each turn and when the Run rests or has ended, the last event about each
\* step of the plan names its status: whoever follows the events sees the plan.
StepsAnnounced ==
    pc \in {"check", "wait", "end"} =>
        \A i \in DOMAIN plan.steps : told[plan.steps[i].id] = plan.steps[i].status

\* What docs/ORCHESTRATION.md says: when the Run rests or has ended, a
\* step.completed event was sent for every step that it has completed. Not for
\* one that was saved when the task was interrupted (README, section 4).
CompletionAnnounced ==
    pc \in {"wait", "end"} =>
        \A i \in With(plan, "completed") : told[plan.steps[i].id] = "completed"

\* What docs/ORCHESTRATION.md says: Tools are called only for an active step;
\* planning, review and summary use none. Calls in their answers are executed
\* (README, section 4).
ToolsForSteps == pc = "tools" => With(plan, "running") # {}

\* What tests/test_planning.py asserts: a Run that was cancelled leaves no step
\* of its plan active. One cancelled while it waits does (README, section 4).
CancelSettlesPlan ==
    pc = "end" /\ status = "cancelled" => \A i \in DOMAIN plan.steps : plan.steps[i].status \notin Active

\* The Run ends or waits, although every review may propose new steps.
Stops == status = "running" ~> status # "running"

\* The plan stays a graph of known steps without cycles, executed in order, one step
\* at a time, each with its own ReAct iterations, whatever reviews propose.
PlanInv == TypeOK /\ WellFormed /\ StepsInOrder /\ OwnIterations
=============================================================================
