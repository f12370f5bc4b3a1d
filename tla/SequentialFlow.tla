--------------------------- MODULE SequentialFlow ---------------------------
(***************************************************************************)
(* Concurrent calls of SequentialFlowStrategy (flows/sequential.py) on one *)
(* Flow: the run that drives it through its Agents, calls that resume it   *)
(* when an Agent waits, and calls that cancel it, under a Flow-wide budget *)
(* (flows/budget.py) and through the AgentRuntimeInvoker                   *)
(* (flows/runtime_invoker.py).                                             *)
(*                                                                         *)
(* A FlowLifecycle call reads the Flow in one step and commits in another, *)
(* which fails if the revision has moved (FlowRevisionConflictError).      *)
(* Every await of the strategy is a place where the other calls act.       *)
(***************************************************************************)
EXTENDS FlowRun

CONSTANTS
    Call,        \* the calls made on the Flow
    Op,          \* what each is: "run", "resume" or "cancel"
    Agents,      \* len(definition.agents)
    MaxCalls,    \* the cumulative budget (tokens, model calls or tool calls)
    Timed,       \* TRUE: budget.timeout_seconds is not None
    Deadline,    \* when budget.timeout_seconds have passed
    Results,     \* what Agents may return
    MaxFaults    \* bound on raised errors and cancelled tasks

ASSUME CallAssumption == /\ Op \in [Call -> {"run", "resume", "cancel"}]
                         /\ Agents \in Nat \ {0} /\ Timed \in BOOLEAN
                         /\ {MaxCalls, Deadline, MaxFaults} \subseteq Nat
                         /\ Results \subseteq ResultStatus

VARIABLES
    flow,      \* the stored Flow
    used,      \* the usage in the result of each of its invocations
    agent,     \* the Agent runs behind the invocations
    recorded,  \* the invocations with a recorded propagation failure
    clock,
    pc,        \* where each call is
    view,      \* the revision its lifecycle call has read, or 0
    state,     \* the number of invocations and the usage in its copy of the Flow
    inv,       \* the invocation it works on, or 0
    result,    \* what the Agent returned to it
    out,       \* what it returned or raised
    faults

store == <<flow, used>>
local == <<state, inv, result, out>>
vars == <<flow, used, agent, recorded, clock, pc, view, state, inv, result, out, faults>>

NoRun == [status |-> "none", calls |-> 0, cancel |-> FALSE]

\* The usage of the first i invocations, for each i, and of all of them.
Sums(usage) ==
    LET sum[i \in 0..Len(usage)] == IF i = 0 THEN 0 ELSE sum[i - 1] + usage[i]
    IN  sum

Total(usage) == Sums(usage)[Len(usage)]

Init == /\ flow = NoFlow
        /\ used = <<>>
        /\ agent = [i \in 1..Agents |-> NoRun]
        /\ recorded = {}
        /\ clock = 0
        /\ pc = [c \in Call |-> "idle"]
        /\ view = [c \in Call |-> 0]
        /\ state = [c \in Call |-> [n |-> 0, used |-> 0]]
        /\ inv = [c \in Call |-> 0]
        /\ result = [c \in Call |-> "none"]
        /\ out = [c \in Call |-> "none"]
        /\ faults = 0

Tick == /\ clock < Deadline
        /\ clock' = clock + 1
        /\ UNCHANGED <<store, agent, recorded, pc, view, local, faults>>

Fault == faults < MaxFaults /\ faults' = faults + 1

-----------------------------------------------------------------------------
\* The budget (FlowBudgetPolicy).

Overdue == Timed /\ clock >= Deadline

\* Faulty variant: the cumulative limit is exclusive before a transport too.
ExceededBeforeExclusive(n, total, new) ==
    \/ Overdue
    \/ new /\ n >= MaxInvocations
    \/ total > MaxCalls

ExceededBefore(n, total, new) ==
    \/ Overdue
    \/ new /\ n >= MaxInvocations
    \/ total >= MaxCalls

ExceededAfter(total) == Overdue \/ total > MaxCalls

-----------------------------------------------------------------------------
\* Lifecycle calls and how a call ends.

Goto(c, label) == pc' = [pc EXCEPT ![c] = label]

Ends(c, label, value) == Goto(c, label) /\ out' = [out EXCEPT ![c] = value]

Returns(c, status) == Ends(c, "returned", status)

Raises(c, error) == Ends(c, "raised", error)

\* "told" is "returned", after the Agent at work has been told to stop.
Returned(c) == pc[c] \in {"returned", "told"}

Ended(c) == Returned(c) \/ pc[c] = "raised"

\* The first half of a lifecycle call: read, and compute the new state.
Reads(c, at, ok) ==
    /\ pc[c] = at /\ view[c] = 0 /\ ok
    /\ view' = [view EXCEPT ![c] = flow.revision]
    /\ UNCHANGED <<store, agent, recorded, clock, pc, local, faults>>

\* Faulty variant: the commit does not compare revisions.
CommitsBlindly(c, at) ==
    /\ pc[c] = at /\ view[c] # 0
    /\ view' = [view EXCEPT ![c] = 0]

\* The second half: commit against the revision that was read.
Commits(c, at) ==
    /\ pc[c] = at /\ view[c] # 0 /\ view[c] = flow.revision
    /\ view' = [view EXCEPT ![c] = 0]

\* FlowRevisionConflictError is caught nowhere in the strategy.
Conflict(c) ==
    /\ view[c] # 0 /\ view[c] # flow.revision
    /\ view' = [view EXCEPT ![c] = 0]
    /\ Raises(c, "conflict")
    /\ UNCHANGED <<store, agent, recorded, clock, state, inv, result, faults>>

\* InvalidFlowTransitionError: caught by nobody but the callers of
\* settle_invocation.
Refused(c, at, ok) ==
    /\ pc[c] = at /\ view[c] = 0 /\ ~ok
    /\ Raises(c, "invalid")
    /\ UNCHANGED <<store, agent, recorded, clock, view, state, inv, result, faults>>

Copy(c, s, usage) == state' = [state EXCEPT ![c] = [n |-> Len(s.inv), used |-> Total(usage)]]

-----------------------------------------------------------------------------
\* run: create, start, then advance.

Run(c) ==
    /\ pc[c] = "idle" /\ Op[c] = "run"
    /\ flow = NoFlow
    /\ flow' = Created
    /\ Goto(c, "start")
    /\ UNCHANGED <<used, agent, recorded, clock, view, local, faults>>

Start(c) ==
    \/ Reads(c, "start", CanStart(flow))
    \/ Refused(c, "start", CanStart(flow))
    \/ /\ Commits(c, "start")
       /\ flow' = Started(flow)
       /\ Copy(c, Started(flow), used)
       /\ Goto(c, "advance")
       /\ UNCHANGED <<used, agent, recorded, clock, inv, result, out, faults>>

\* The head of the loop of _advance.
Advance(c) ==
    /\ pc[c] = "advance"
    /\ Goto(c, IF state[c].n >= Agents THEN "complete"
               ELSE IF ExceededBefore(state[c].n, state[c].used, TRUE) THEN "limit_check"
               ELSE "begin")
    /\ UNCHANGED <<store, agent, recorded, clock, view, local, faults>>

Begin(c) ==
    \/ Reads(c, "begin", CanBegin(flow))
    \/ Refused(c, "begin", CanBegin(flow))
    \/ /\ Commits(c, "begin")
       /\ flow' = Begun(flow)
       /\ used' = Append(used, 0)
       /\ inv' = [inv EXCEPT ![c] = Len(flow.inv) + 1]
       /\ Goto(c, "invoke")
       /\ UNCHANGED <<agent, recorded, clock, state, result, out, faults>>

\* AgentRuntimeInvoker.invoke up to its first await: the Agent creates its run
\* later (AgentStarts).
Invoke(c) ==
    /\ pc[c] = "invoke"
    /\ Goto(c, "transport")
    /\ UNCHANGED <<store, agent, recorded, clock, view, local, faults>>

Complete(c) ==
    \/ Reads(c, "complete", CanComplete(flow))
    \/ Refused(c, "complete", CanComplete(flow))
    \/ /\ Commits(c, "complete")
       /\ flow' = Completed(flow)
       /\ Returns(c, "completed")
       /\ UNCHANGED <<used, agent, recorded, clock, state, inv, result, faults>>

-----------------------------------------------------------------------------
\* resume and confirm: _resume_waiting.

Resume(c) ==
    /\ pc[c] = "idle" /\ Op[c] = "resume"
    /\ flow # NoFlow
    /\ IF ExceededBefore(Len(flow.inv), Total(used), FALSE)
       THEN Goto(c, "limit_check") /\ UNCHANGED <<inv, out>>
       ELSE IF flow.active = 0
       THEN Raises(c, "value") /\ UNCHANGED inv
       ELSE /\ inv' = [inv EXCEPT ![c] = flow.active]
            /\ Goto(c, "resume")
            /\ UNCHANGED out
    /\ UNCHANGED <<store, agent, recorded, clock, view, state, result, faults>>

ResumeInvocation(c) ==
    \/ Reads(c, "resume", CanResume(flow, inv[c]))
    \/ Refused(c, "resume", CanResume(flow, inv[c]))
    \/ /\ Commits(c, "resume")
       /\ flow' = Resumed(flow, inv[c])
       /\ Goto(c, "resume_transport")
       /\ UNCHANGED <<used, agent, recorded, clock, local, faults>>

\* AgentRuntimeInvoker.resume: an Agent run that does not wait any more (it
\* was cancelled meanwhile) refuses.
ResumeAgent(c) ==
    /\ pc[c] = "resume_transport"
    /\ IF agent[inv[c]].status = "waiting"
       THEN /\ agent' = [agent EXCEPT ![inv[c]].status = "running"]
            /\ Goto(c, "transport")
       ELSE /\ Goto(c, "failure_check")
            /\ UNCHANGED agent
    /\ UNCHANGED <<store, recorded, clock, view, local, faults>>

-----------------------------------------------------------------------------
\* The transport: the Agent run behind the invocation, and how it ends.

\* AgentRuntimeInvoker._active_invocations
Active(i) == \E c \in Call : pc[c] = "transport" /\ inv[c] = i

AgentStarts(i) ==
    /\ agent[i].status = "none" /\ Active(i)
    /\ agent' = [agent EXCEPT ![i].status = "running"]
    /\ UNCHANGED <<store, recorded, clock, pc, view, local, faults>>

\* The Agent returns: cancellation is cooperative, so an Agent that was told
\* to stop may still return anything.
AgentReturns(c, r) ==
    /\ pc[c] = "transport"
    /\ agent[inv[c]].status = "running"
    /\ r = "cancelled" => agent[inv[c]].cancel
    /\ agent' = [agent EXCEPT ![inv[c]].status = r, ![inv[c]].calls = @ + 1]
    /\ result' = [result EXCEPT ![c] = r]
    /\ Goto(c, "settle")
    /\ UNCHANGED <<store, recorded, clock, view, state, inv, out, faults>>

\* Whatever stops the transport stops the Agent run behind it, as the
\* CancelledError it gets tells (run_handle.finalize_task_interruption).
StopsAgent(i) ==
    agent' = [agent EXCEPT ![i].status =
                 IF @ # "running" THEN @
                 ELSE IF agent[i].cancel THEN "cancelled" ELSE "interrupted"]

\* The invoker raises.  Its own TimeoutError is taken for the deadline's, whether or
\* not that has come: _timeout_limit asserts that there is one.
AgentRaises(c) ==
    /\ pc[c] = "transport" /\ Fault
    /\ StopsAgent(inv[c])
    /\ \/ Goto(c, "failure_check") /\ UNCHANGED out
       \/ Timed /\ Goto(c, "limit_check") /\ UNCHANGED out
       \/ ~Timed /\ Raises(c, "assertion")
    /\ UNCHANGED <<store, recorded, clock, view, state, inv, result>>

\* Faulty variant: the deadline itself is not yet a timeout.
TransportTimeoutLate(c) ==
    /\ pc[c] = "transport" /\ Timed /\ clock > Deadline
    /\ StopsAgent(inv[c])
    /\ Goto(c, "limit_check")
    /\ UNCHANGED <<store, recorded, clock, view, local, faults>>

\* asyncio.timeout of _within_deadline.
TransportTimeout(c) ==
    /\ pc[c] = "transport" /\ Overdue
    /\ StopsAgent(inv[c])
    /\ Goto(c, "limit_check")
    /\ UNCHANGED <<store, recorded, clock, view, local, faults>>

\* Faulty variant: a cancelled transport does not interrupt the Flow.
TaskCancelledSilently(c) ==
    /\ pc[c] # "idle" /\ ~Ended(c) /\ Fault
    /\ view' = [view EXCEPT ![c] = 0]
    /\ Raises(c, IF pc[c] = "transport" THEN "cancelled" ELSE "abandoned")
    /\ UNCHANGED <<store, agent, recorded, clock, state, inv, result>>

\* The task of a call is cancelled.  Only the transport is guarded; at any other
\* await the CancelledError, like an error of the repository there, leaves the
\* strategy at once.
TaskCancelled(c) ==
    /\ pc[c] # "idle" /\ ~Ended(c) /\ Fault
    /\ \/ /\ pc[c] = "transport"
          /\ StopsAgent(inv[c])
          /\ Goto(c, "interrupt")
          /\ UNCHANGED <<view, out>>
       \/ /\ pc[c] # "transport"
          /\ view' = [view EXCEPT ![c] = 0]
          /\ Raises(c, "abandoned")
          /\ UNCHANGED agent
    /\ UNCHANGED <<store, recorded, clock, state, inv, result>>

\* The handler of CancelledError: interrupt, and raise it again.
Interrupt(c) ==
    \/ Reads(c, "interrupt", CanTerminate(flow))
    \/ Refused(c, "interrupt", CanTerminate(flow))
    \/ /\ Commits(c, "interrupt")
       /\ flow' = Terminated(flow, "interrupted")
       /\ Raises(c, "cancelled")
       /\ UNCHANGED <<used, agent, recorded, clock, state, inv, result, faults>>

\* Faulty variant: the usage of a resumed invocation is added to what its
\* waiting result already reported.
UsageAdded(i, calls) == [used EXCEPT ![i] = @ + calls]

\* A result reports the usage of its Agent run so far.
UsageOf(i, calls) == [used EXCEPT ![i] = calls]

Settle(c) == LET i == inv[c] IN
    \/ Reads(c, "settle", CanSettle(flow, i))
    \/ /\ pc[c] = "settle" /\ view[c] = 0 /\ ~CanSettle(flow, i)
       /\ Goto(c, "race_check")
       /\ UNCHANGED <<store, agent, recorded, clock, view, local, faults>>
    \/ /\ Commits(c, "settle")
       /\ flow' = Settled(flow, i, result[c])
       /\ used' = UsageOf(i, agent[i].calls)
       /\ Copy(c, flow', used')
       /\ Goto(c, "settled")
       /\ UNCHANGED <<agent, recorded, clock, inv, result, out, faults>>

\* after_transport and _handle_outcome.
Outcome(c) ==
    /\ pc[c] = "settled"
    /\ \/ /\ ExceededAfter(state[c].used)
          /\ Goto(c, "limit_check") /\ UNCHANGED out
       \/ /\ ~ExceededAfter(state[c].used)
          /\ \/ result[c] = "completed" /\ Goto(c, "advance") /\ UNCHANGED out
             \/ result[c] = "waiting" /\ Returns(c, "waiting")
             \/ result[c] \in ErrorStatus /\ Goto(c, "outcome") /\ UNCHANGED out
    /\ UNCHANGED <<store, agent, recorded, clock, view, state, inv, result, faults>>

\* An unsuccessful Agent ends the Flow with the same status.
EndFlow(c) ==
    \/ Reads(c, "outcome", CanTerminate(flow))
    \/ Refused(c, "outcome", CanTerminate(flow))
    \/ /\ Commits(c, "outcome")
       /\ flow' = Terminated(flow, result[c])
       /\ Returns(c, result[c])
       /\ UNCHANGED <<used, agent, recorded, clock, state, inv, result, faults>>

\* _terminal_after_race, after a settle that was refused.
RaceCheck(c) == LET ended == flow.status \in Terminal IN
    /\ pc[c] = "race_check"
    /\ Ends(c, IF ended THEN "returned" ELSE "raised", IF ended THEN flow.status ELSE "invalid")
    /\ UNCHANGED <<store, agent, recorded, clock, view, state, inv, result, faults>>

\* _terminal_after_race, before a failure is written.
FailureCheck(c) ==
    /\ pc[c] = "failure_check"
    /\ \/ flow.status \in Terminal /\ Returns(c, flow.status)
       \/ flow.status \notin Terminal /\ Goto(c, "fail") /\ UNCHANGED out
    /\ UNCHANGED <<store, agent, recorded, clock, view, state, inv, result, faults>>

\* _transport_failure
Fail(c) ==
    \/ Reads(c, "fail", CanTerminate(flow))
    \/ Refused(c, "fail", CanTerminate(flow))
    \/ /\ Commits(c, "fail")
       /\ flow' = Terminated(flow, "failed")
       /\ Returns(c, "failed")
       /\ UNCHANGED <<used, agent, recorded, clock, state, inv, result, faults>>

-----------------------------------------------------------------------------
\* _reach_budget_limit: only an invocation seen waiting is told.
LimitCheck(c) ==
    /\ pc[c] = "limit_check"
    /\ inv' = [inv EXCEPT ![c] = IF flow.status = "waiting" THEN flow.active ELSE 0]
    /\ \/ flow.status \in Terminal /\ Returns(c, flow.status)
       \/ flow.status \notin Terminal /\ Goto(c, "limit") /\ UNCHANGED out
    /\ UNCHANGED <<store, agent, recorded, clock, view, state, result, faults>>

\* A terminal status is written first and the Agent is told afterwards.
WritesThenTells(c, at, status) ==
    /\ Commits(c, at)
    /\ flow' = Terminated(flow, status)
    /\ Ends(c, IF inv[c] # 0 THEN "propagate" ELSE "returned", status)
    /\ UNCHANGED <<used, agent, recorded, clock, state, inv, result, faults>>

Limit(c) ==
    \/ Reads(c, "limit", CanTerminate(flow))
    \/ Refused(c, "limit", CanTerminate(flow))
    \/ WritesThenTells(c, "limit", "limit_reached")

\* cancel
Cancel(c) ==
    /\ pc[c] = "idle" /\ Op[c] = "cancel"
    /\ flow # NoFlow
    /\ \/ flow.status = "cancelled" /\ Returns(c, "cancelled") /\ UNCHANGED inv
       \/ flow.status \in Terminal \ {"cancelled"} /\ Raises(c, "invalid") /\ UNCHANGED inv
       \/ /\ flow.status \notin Terminal
          /\ inv' = [inv EXCEPT ![c] = flow.active]
          /\ Goto(c, "cancel")
          /\ UNCHANGED out
    /\ UNCHANGED <<store, agent, recorded, clock, view, state, result, faults>>

CancelFlow(c) ==
    \/ Reads(c, "cancel", CanTerminate(flow))
    \/ Refused(c, "cancel", CanTerminate(flow))
    \/ WritesThenTells(c, "cancel", "cancelled")

\* AgentRuntimeInvoker.cancel: a run that is not there yet is awaited while
\* its invocation is active, and is an error otherwise.
Tell(i) ==
    \/ /\ agent[i].status = "none" /\ ~Active(i)
       /\ recorded' = recorded \cup {i}
       /\ UNCHANGED agent
    \/ /\ agent[i].status \in Terminal
       /\ UNCHANGED <<agent, recorded>>
    \/ /\ agent[i].status = "running"
       /\ agent' = [agent EXCEPT ![i].cancel = TRUE]
       /\ UNCHANGED recorded
    \/ /\ agent[i].status = "waiting"
       /\ agent' = [agent EXCEPT ![i].status = "cancelled"]
       /\ UNCHANGED recorded

\* _propagate_cancellation: an invoker that fails, or cannot cancel, leaves a
\* record instead.
Propagate(c) ==
    /\ pc[c] = "propagate"
    /\ \/ Tell(inv[c]) /\ UNCHANGED faults
       \/ Fault /\ recorded' = recorded \cup {inv[c]} /\ UNCHANGED agent
    /\ Goto(c, "told")
    /\ UNCHANGED <<store, clock, view, local>>

-----------------------------------------------------------------------------
\* What the strategy does by itself once a call was made.
Step(c) == \/ Start(c) \/ Advance(c) \/ Begin(c) \/ Invoke(c) \/ Complete(c)
           \/ ResumeInvocation(c) \/ ResumeAgent(c) \/ TransportTimeout(c)
           \/ Interrupt(c) \/ Settle(c) \/ Outcome(c) \/ EndFlow(c)
           \/ RaceCheck(c) \/ FailureCheck(c) \/ Fail(c)
           \/ LimitCheck(c) \/ Limit(c) \/ CancelFlow(c) \/ Propagate(c)
           \/ Conflict(c)

Next == \/ Tick
        \/ \E c \in Call : \/ Run(c) \/ Resume(c) \/ Cancel(c) \/ Step(c)
                          \/ AgentRaises(c) \/ TaskCancelled(c)
                          \/ \E r \in Results : AgentReturns(c, r)
        \/ \E i \in 1..Agents : AgentStarts(i)

Spec == Init /\ [][Next]_vars

\* The event loop runs every ready task, and time passes.  Nothing is assumed
\* of the Agents: they may never answer, nor even start.
FairSpec == Spec /\ WF_vars(Tick) /\ \A c \in Call : WF_vars(Step(c))

-----------------------------------------------------------------------------
Label == {"idle", "start", "advance", "begin", "invoke", "transport", "complete",
          "resume", "resume_transport", "interrupt", "settle", "settled", "outcome",
          "race_check", "failure_check", "fail", "limit_check", "limit", "cancel",
          "propagate", "returned", "told", "raised"}

TypeOK ==
    /\ flow \in FlowState /\ ValidState(flow)
    /\ used \in Seq(Nat) /\ Len(used) = Len(flow.inv)
    /\ agent \in [1..Agents -> [status : {"none", "running"} \cup ResultStatus,
                                calls : Nat, cancel : BOOLEAN]]
    /\ recorded \subseteq 1..Agents
    /\ clock \in 0..Deadline
    /\ pc \in [Call -> Label]
    /\ view \in [Call -> Nat]
    /\ state \in [Call -> [n : Nat, used : Nat]]
    /\ inv \in [Call -> 0..Agents]
    /\ result \in [Call -> ResultStatus \cup {"none"}]
    /\ out \in [Call -> RunStatus \cup {"none", "conflict", "invalid", "value",
                                      "abandoned", "assertion", "cancelled"}]
    /\ faults \in 0..MaxFaults

\* The status a call returned once the Flow had ended is the status the Flow
\* ended with, whichever of the racing calls wrote it: a late Agent result
\* reads the committed outcome instead of reporting its own.
ResultAgrees ==
    \A c \in Call : Returned(c) /\ out[c] \in Terminal => flow.status = out[c]

\* Two calls never work on an invocation at the same time, from the commit that
\* begins or resumes it to the one that settles it, however many of them try to
\* resume the same wait.
OneDriver ==
    LET Driving == {"invoke", "resume_transport", "transport", "settle"} IN
    \A c, d \in Call : pc[c] \in Driving /\ pc[d] \in Driving => c = d

\* Agents run in the order of the definition: one starts only when all the
\* Agents before it have completed.
AgentsInOrder ==
    \A i \in 1..Agents : agent[i].status # "none" =>
        \A j \in 1..(i - 1) : agent[j].status = "completed"

\* The usage the Flow is charged is what its Agents used, each counted once
\* however often it waited, as far as it has been reported.
UsageCountedOnce ==
    \A i \in 1..Len(used) :
        /\ used[i] <= agent[i].calls
        /\ flow.inv[i] \in {"completed", "waiting"} => used[i] = agent[i].calls

\* Exactly consuming the budget may complete a Flow, but no further Agent is
\* invoked once the reported usage has reached the limit.
BudgetStopsInvoke ==
    [][\A c \in Call : pc[c] = "invoke" /\ pc'[c] = "transport" => Total(used) < MaxCalls]_vars

\* What docs/FLOWS.md says of the budget: no Agent is invoked or resumed once
\* the reported usage has reached the limit. A resume that checked an old
\* snapshot does so (README, section 4).
BudgetStopsTransport ==
    [][\A c \in Call : pc[c] # "transport" /\ pc'[c] = "transport" => Total(used) < MaxCalls]_vars

\* When cancel, or a budget limit, returns, the Agent it saw at work has ended,
\* has been told to stop, or the failure to tell it has been recorded.
ToldOrRecorded ==
    \A c \in Call :
        pc[c] = "told" \/ (Op[c] = "cancel" /\ Returned(c) /\ inv[c] # 0)
        => LET a == agent[inv[c]] IN a.cancel \/ a.status \in Terminal \/ inv[c] \in recorded

\* A Flow in which nobody acts any more has ended or waits for input, unless a
\* task was cancelled, or the repository raised, at an await that the strategy does
\* not guard, or the invoker raised a TimeoutError for a Flow without a timeout.
OnlyAbandonedIsStranded ==
    (flow # NoFlow /\ \A c \in Call : pc[c] = "idle" \/ Ended(c))
    => \/ flow.status \in Terminal \cup {"waiting"}
       \/ \E c \in Call : out[c] \in {"abandoned", "assertion"}

\* Every call ends, even if the Agent never answers: the deadline ends its
\* transport, and a cancellation does not wait forever for a run to appear.
CallsEnd ==
    \A c \in Call : pc[c] # "idle" ~> Ended(c)

\* What docs/FLOWS.md says of cancel: it commits the Flow as CANCELLED and then
\* propagates, so that, once it has returned, no Agent of the Flow is left
\* running or waiting without having been told and without a record. An
\* invocation begun between the two reads of cancel escapes (README, section
\* 4).
CancelReachesAgents ==
    \A c \in Call :
        Op[c] = "cancel" /\ Returned(c) =>
        \A i \in 1..Agents :
            agent[i].status \in {"running", "waiting"} => agent[i].cancel \/ i \in recorded

\* One call at a time drives the Agents, in the order of the Flow, and the usage of
\* each transport is counted once, however many resumes race for a wait.
DriverInv == TypeOK /\ AgentsInOrder /\ OneDriver /\ UsageCountedOnce

\* Whoever ends a Flow tells the Agent it saw at work or records that it could not,
\* and a Flow is left active with nobody at work only by a call that was abandoned
\* where the strategy has no handler, or by the assertion of _timeout_limit.
NothingLeftBehind == ToldOrRecorded /\ OnlyAbandonedIsStranded
=============================================================================
