----------------------------- MODULE ToolBatch -----------------------------
(***************************************************************************)
(* The Model/Tool loop of one Run (orchestration/model_tool.py, react.py)  *)
(* under the default supervisor (supervision/policies.py): the model       *)
(* answers with a batch of Tool calls, which are executed one by one; the  *)
(* batch is suspended when a Tool asks for input or for a confirmation and *)
(* goes on when the Run is resumed, and it is given up when a policy       *)
(* redirects the model.  A cancellation is looked for between the calls.   *)
(***************************************************************************)
EXTENDS Naturals, Sequences, Functions

CONSTANTS
    Tool,              \* Tools with their arguments: what a fingerprint tells apart
    Confirmed,         \* those that require a confirmation
    BatchSize,         \* bound on the calls of a response
    MaxSteps, MaxToolCalls, Threshold, MaxFailures,    \* the limits of the profile
    ReAct,             \* TRUE for ReActStrategy
    MaxIterations      \* its max_iterations

BatchAssumption ==
    /\ Confirmed \subseteq Tool
    /\ {BatchSize, MaxSteps, MaxToolCalls, Threshold, MaxFailures, MaxIterations} \subseteq Nat
    /\ ReAct \in BOOLEAN

VARIABLES
    status,      \* of the context
    cancel,      \* cancel_requested of the Run
    pc,
    steps, tools, iteration,    \* the counters of the context
    calls,       \* the calls of the last response
    batch,       \* those still to execute
    observed,    \* the calls with an observation, in order
    answers,     \* the calls with a Tool message, in order
    requested,   \* all calls the model has made
    suspended,   \* the suspended action batch
    pending,     \* what a waiting Run waits for
    decision,    \* tool_confirmation_decision
    approved,    \* the call that is executed with a confirmation, if any
    approvals,   \* the calls whose confirmation was given
    ran,         \* the calls whose Tool was invoked, in order
    duplicate,   \* state of DuplicateToolCallDetector
    failures     \* state of NoProgressDetector

counters == <<steps, tools, iteration>>
human == <<pending, decision, approvals>>
policies == <<duplicate, failures>>
vars == <<status, cancel, pc, steps, tools, iteration, calls, batch, observed, answers, requested,
          suspended, pending, decision, approved, approvals, ran, duplicate, failures>>

NoCall == <<0, 0>>
NotSuspended == [waiting |-> [id |-> NoCall, tool |-> "none"], remaining |-> <<>>, observed |-> <<>>]

Init == /\ status = "running" /\ cancel = FALSE /\ pc = "check"
        /\ steps = 0 /\ tools = 0 /\ iteration = 0
        /\ calls = <<>> /\ batch = <<>> /\ observed = <<>>
        /\ answers = <<>> /\ requested = {}
        /\ suspended = NotSuspended
        /\ pending = "none" /\ decision = "none" /\ approved = NoCall /\ approvals = {}
        /\ ran = <<>>
        /\ duplicate = [tool |-> "none", count |-> 0] /\ failures = 0

\* Calls are named by their step and their place in the response.
Ids(s) == [i \in DOMAIN s |-> s[i].id]

Ends(outcome) == status' = outcome /\ pc' = "end"

-----------------------------------------------------------------------------
\* ExecutionBudget.before_model
StepsUsedUp == steps >= MaxSteps

\* AgentRuntime.execute between two calls of advance: ExecutionBudget.before_model.
LoopTop ==
    /\ pc = "check"
    /\ CASE cancel -> Ends("cancelled")
         [] StepsUsedUp /\ ~cancel -> Ends("limit_reached")
         [] OTHER -> pc' = "advance" /\ UNCHANGED status
    /\ UNCHANGED <<cancel, counters, calls, batch, observed, answers, requested, suspended,
                   human, approved, ran, policies>>

\* Faulty variant: the completed observations are forgotten.
ResumeBatchAfresh ==
    /\ pc = "advance" /\ suspended # NotSuspended
    /\ IF decision = "approve"
       THEN /\ batch' = <<suspended.waiting>> \o suspended.remaining
            /\ observed' = <<>>
            /\ approved' = suspended.waiting.id
       ELSE /\ batch' = suspended.remaining
            /\ observed' = <<suspended.waiting.id>>
            /\ UNCHANGED approved
    /\ suspended' = NotSuspended /\ decision' = "none"
    /\ pc' = "call"
    /\ UNCHANGED <<status, cancel, counters, calls, answers, requested, pending, approvals, ran, policies>>

\* Faulty variant: the suspended batch is read and not taken out of the context.
ResumeBatchKeeping ==
    /\ pc = "advance" /\ suspended # NotSuspended
    /\ IF decision = "approve"
       THEN /\ batch' = <<suspended.waiting>> \o suspended.remaining
            /\ observed' = suspended.observed
            /\ approved' = suspended.waiting.id
       ELSE /\ batch' = suspended.remaining
            /\ observed' = Append(suspended.observed, suspended.waiting.id)
            /\ UNCHANGED approved
    /\ decision' = "none"
    /\ pc' = "call"
    /\ UNCHANGED <<status, cancel, counters, calls, answers, requested, suspended, pending, approvals,
                   ran, policies>>

\* _resume_action_batch: an approved call is executed now; any other waiting
\* call has its result already.
ResumeBatch ==
    /\ pc = "advance" /\ suspended # NotSuspended
    /\ IF decision = "approve"
       THEN /\ batch' = <<suspended.waiting>> \o suspended.remaining
            /\ observed' = suspended.observed
            /\ approved' = suspended.waiting.id
       ELSE /\ batch' = suspended.remaining
            /\ observed' = Append(suspended.observed, suspended.waiting.id)
            /\ UNCHANGED approved
    /\ suspended' = NotSuspended /\ decision' = "none"
    /\ pc' = "call"
    /\ UNCHANGED <<status, cancel, counters, calls, answers, requested, pending, approvals, ran, policies>>

\* advance without a suspended batch, up to the model request.
RequestModel ==
    /\ pc = "advance" /\ suspended = NotSuspended
    /\ IF ReAct /\ iteration >= MaxIterations
       THEN Ends("failed") /\ UNCHANGED counters
       ELSE /\ steps' = steps + 1
            /\ iteration' = IF ReAct THEN iteration + 1 ELSE iteration
            /\ pc' = "model" /\ UNCHANGED <<tools, status>>
    /\ UNCHANGED <<cancel, calls, batch, observed, answers, requested, suspended, human, approved,
                   ran, policies>>

\* The provider fails, or answers with any batch of calls.
ModelResponds ==
    /\ pc = "model"
    /\ \/ /\ Ends("failed")
          /\ UNCHANGED <<calls, batch, observed, requested>>
       \/ \E n \in 0..BatchSize : \E chosen \in [1..n -> Tool] :
          /\ calls' = [i \in 1..n |-> [id |-> <<steps, i>>, tool |-> chosen[i]]]
          /\ batch' = calls'
          /\ observed' = <<>>
          /\ requested' = requested \cup {<<steps, i>> : i \in 1..n}
          /\ pc' = "responded" /\ UNCHANGED status
    /\ UNCHANGED <<cancel, counters, answers, suspended, human, approved, ran, policies>>

\* A response without calls ends the Run; ReAct refuses one it cannot parse.
AfterResponse ==
    /\ pc = "responded"
    /\ CASE cancel -> Ends("cancelled")
         [] ~cancel /\ calls = <<>> ->
              \E outcome \in {"completed"} \cup (IF ReAct THEN {"failed"} ELSE {}) : Ends(outcome)
         [] OTHER -> pc' = "call" /\ UNCHANGED status
    /\ UNCHANGED <<cancel, counters, calls, batch, observed, answers, requested, suspended,
                   human, approved, ran, policies>>

-----------------------------------------------------------------------------
\* _execute_tool_batch

\* The whole batch is observed.
RecordBatch ==
    /\ pc = "call" /\ batch = <<>>
    /\ pc' = "check"
    /\ UNCHANGED <<status, cancel, counters, calls, batch, observed, answers, requested, suspended,
                   human, approved, ran, policies>>

CancelBatch ==
    /\ pc = "call" /\ batch # <<>> /\ cancel
    /\ Ends("cancelled")
    /\ UNCHANGED <<cancel, counters, calls, batch, observed, answers, requested, suspended,
                   human, approved, ran, policies>>

\* How often the call has now been repeated.
Repeated(call) == IF duplicate.tool = call.tool THEN duplicate.count + 1 ELSE 1

\* ExecutionBudget, then DuplicateToolCallDetector.
BeforeTool(call) ==
    CASE tools >= MaxToolCalls -> "stop"
      [] tools < MaxToolCalls /\ Repeated(call) >= Threshold -> "redirect"
      [] OTHER -> "continue"

\* A call with a confirmation is not supervised or counted again; a redirect
\* answers the call and gives up the rest of the batch.
BeginCall ==
    /\ pc = "call" /\ batch # <<>> /\ ~cancel
    /\ LET call == Head(batch)
           verdict == BeforeTool(call) IN
       IF call.id = approved
       THEN pc' = "execute" /\ UNCHANGED <<status, tools, batch, answers, duplicate>>
       ELSE /\ duplicate' = IF verdict = "stop" THEN duplicate
                            ELSE [tool |-> call.tool, count |-> Repeated(call)]
            /\ CASE verdict = "stop" -> Ends("limit_reached") /\ UNCHANGED <<tools, batch, answers>>
                 [] verdict = "redirect" -> /\ tools' = tools + 1
                                            /\ answers' = Append(answers, call.id)
                                            /\ batch' = <<>>
                                            /\ pc' = "check" /\ UNCHANGED status
                 [] OTHER -> tools' = tools + 1 /\ pc' = "execute" /\ UNCHANGED <<status, batch, answers>>
    /\ UNCHANGED <<cancel, steps, iteration, calls, observed, requested, suspended, human, approved,
                   ran, failures>>

\* The Tool is not invoked: the confirmation policy wants a decision first.
NeedsConfirmation(call) == call.tool \in Confirmed /\ call.id # approved

\* The batch is stored in the context and the Run waits.
Suspend(kind) ==
    /\ suspended' = [waiting |-> Head(batch), remaining |-> Tail(batch), observed |-> observed]
    /\ pending' = kind
    /\ status' = "waiting" /\ pc' = "wait"

\* The Tool asks for a confirmation or for input, which may be malformed.
ExecuteWaiting ==
    /\ pc = "execute"
    /\ IF NeedsConfirmation(Head(batch))
       THEN Suspend("confirmation") /\ UNCHANGED ran
       ELSE /\ ran' = Append(ran, Head(batch).id)
            /\ \/ Suspend("input")
               \/ Ends("failed") /\ UNCHANGED <<suspended, pending>>
    /\ approved' = NoCall
    /\ UNCHANGED <<cancel, counters, calls, batch, observed, answers, requested, decision, approvals,
                   policies>>

\* NoProgressDetector counts the failures in a row.
Failures(result) == IF result = "success" THEN 0 ELSE failures + 1

\* The Tool succeeds or fails, or the executor refuses the call; NoProgressDetector
\* redirects by giving up the rest of the batch.
Execute(result) ==
    /\ pc = "execute"
    /\ NeedsConfirmation(Head(batch)) => result = "refused"
    /\ ran' = IF result = "refused" THEN ran ELSE Append(ran, Head(batch).id)
    /\ answers' = Append(answers, Head(batch).id)
    /\ observed' = Append(observed, Head(batch).id)
    /\ approved' = NoCall
    /\ failures' = Failures(result)
    /\ IF failures' >= MaxFailures
       THEN batch' = <<>> /\ pc' = "check"
       ELSE batch' = Tail(batch) /\ pc' = "after"
    /\ UNCHANGED <<status, cancel, counters, calls, requested, suspended, human, duplicate>>

\* A cancellation is looked for after each call.
AfterCall ==
    /\ pc = "after"
    /\ IF cancel THEN Ends("cancelled") ELSE pc' = "call" /\ UNCHANGED status
    /\ UNCHANGED <<cancel, counters, calls, batch, observed, answers, requested, suspended,
                   human, approved, ran, policies>>

-----------------------------------------------------------------------------
\* _prepare_resume: input becomes the result of the waiting call, and so does a
\* rejection; an approval does not answer it yet.
Resume(answer) ==
    /\ pc = "wait" /\ status = "waiting"
    /\ (pending = "input") <=> (answer = "input")
    /\ IF answer = "approve"
       THEN approvals' = approvals \cup {suspended.waiting.id} /\ UNCHANGED answers
       ELSE answers' = Append(answers, suspended.waiting.id) /\ UNCHANGED approvals
    /\ decision' = IF answer = "input" THEN "none" ELSE answer
    /\ pending' = "none"
    /\ status' = "running" /\ pc' = "check"
    /\ UNCHANGED <<cancel, counters, calls, batch, observed, requested, suspended, approved, ran,
                   policies>>

\* request_cancellation; a waiting Run is finalized.
RequestCancel ==
    /\ ~cancel /\ pc # "end"
    /\ cancel' = TRUE
    /\ IF status = "waiting" THEN Ends("cancelled") ELSE UNCHANGED <<status, pc>>
    /\ UNCHANGED <<counters, calls, batch, observed, answers, requested, suspended, human, approved,
                   ran, policies>>

Advance == \/ LoopTop \/ ResumeBatch \/ RequestModel \/ ModelResponds \/ AfterResponse
           \/ RecordBatch \/ CancelBatch \/ BeginCall \/ ExecuteWaiting
           \/ (\E result \in {"success", "error", "refused"} : Execute(result))
           \/ AfterCall

Next == Advance \/ (\E answer \in {"input", "approve", "reject"} : Resume(answer)) \/ RequestCancel

Spec == Init /\ [][Next]_vars

\* The provider and the Tools answer or fail.
FairSpec == Spec /\ WF_vars(Advance)

-----------------------------------------------------------------------------
CallId == {NoCall} \cup ((1..MaxSteps) \X (1..BatchSize))
ToolCall == [id : CallId, tool : Tool]

\* Every variable stays in its domain; the counters respect the profile's limits.
TypeOK ==
    /\ status \in {"running", "waiting", "completed", "failed", "cancelled", "limit_reached"}
    /\ cancel \in BOOLEAN
    /\ pc \in {"check", "advance", "model", "responded", "call", "execute", "after", "wait", "end"}
    /\ steps \in 0..MaxSteps /\ tools \in 0..MaxToolCalls /\ iteration \in 0..MaxIterations
    /\ calls \in Seq(ToolCall) /\ batch \in Seq(ToolCall)
    /\ observed \in Seq(CallId) /\ answers \in Seq(CallId) /\ ran \in Seq(CallId)
    /\ requested \subseteq CallId /\ approvals \subseteq CallId /\ approved \in CallId
    /\ pending \in {"none", "input", "confirmation"}
    /\ decision \in {"none", "approve", "reject"}
    /\ duplicate.count \in Nat
    /\ failures \in Nat

\* No call of the model is answered twice or executed twice, however often the
\* batch is suspended, and nothing is answered that was not asked.
AnsweredOnce == /\ IsInjective(answers) /\ IsInjective(ran)
                /\ Range(answers) \cup Range(ran) \subseteq requested

\* A Tool that requires a confirmation has run only for a call that was approved,
\* and a rejected call never runs.
OnlyApprovedRun ==
    /\ \A i \in DOMAIN calls :
          calls[i].tool \in Confirmed /\ calls[i].id \in Range(ran) => calls[i].id \in approvals
    /\ decision = "reject" => suspended.waiting.id \notin Range(ran) \cup approvals

\* The observations that are recorded for a batch are those of all its calls, in
\* the order of the response, also after it was suspended and resumed.
ObservationsComplete == pc = "call" /\ batch = <<>> => observed = Ids(calls)

\* No more Tools are invoked than max_tool_calls, although an approved call is
\* executed without asking the budget again.
WithinBudget == Len(ran) <= MaxToolCalls

\* execute_tool_batch: whatever is suspended, confirmed, rejected, redirected or
\* cancelled, calls run and are answered once, only with the approval they need,
\* within the budget, and a batch is observed completely.
BatchInv == TypeOK /\ AnsweredOnce /\ OnlyApprovedRun /\ ObservationsComplete /\ WithinBudget

\* What docs/IMPLEMENTATION_PLAN.md says: when the model is asked, every call
\* it has made before has its Tool message. Not after a redirect (README,
\* section 4).
AnswersAdjacent == pc = "model" => requested \subseteq Range(answers)

\* What docs/TOOLS.md says: an approved call is executed unless the Run is
\* cancelled or fails. Not when the steps are used up (README, section 4).
ApprovalRuns == status = "limit_reached" => approvals \subseteq Range(ran)

\* The Run ends or waits for somebody, whatever the model keeps asking for.
Stops == status = "running" ~> status # "running"
=============================================================================
