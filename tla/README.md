# base-agent in TLA+

A verification project for `base_agent`, an asyncio runtime for Agents and for
durable multi-Agent Flows. It models what the code does (`src/base_agent`, not
what the documents say of it), checks small instances with TLC and proves the
main safety properties for every value of the constants with TLAPS.

`PROJECT.json` lists the components, the runs, the lines each definition models,
the hazards of the code and the theorems.

## 1. The system

| Part | State | Operations that change it | Talks to |
|---|---|---|---|
| Flow work queue (`flows/work.py`, `stores/postgres/flow_work_source.py`) | items with status, attempt, delivery token and lease; reviews | enqueue, claim, renew, complete, block, retry, review | workers, operators |
| Flow aggregate (`flows/lifecycle.py`) | status, revision, invocations, active invocation | create, start, begin/settle/resume invocation, complete, fail/cancel/interrupt/reach_limit | pure |
| Flow repository (`flows/repository.py`, `stores/postgres/flow_repository.py`) | Flow snapshot, event log, execution lease | create, commit, append_events, acquire/renew/release execution | lifecycle service, runner |
| Lifecycle service (`flows/service.py`) | none | read, compute, commit | repository |
| Runner and polling worker (`flows/worker.py`) | the item and lease in hand, two heartbeat tasks | run_once, run_forever, stop | queue, repository, handler |
| Recovery (`flows/recovery.py`) | none | decide, resolve and dispatch | repository, application dispatcher |
| Side-effect ledger and recorder (`flows/side_effects.py`, `flows/tool_effects.py`) | phase and revision of each effect | prepare, mark_started, confirm, abort | Tool executor |
| Tool executor (`tools/executor.py`) | none | execute a call | recorder, Tools |
| Sequential strategy, facade, budget (`flows/sequential.py`, ...) | none | run, resume, cancel under deadline and budget | lifecycle service, invoker |
| Agent runtime (`runtime/engine.py`, `agent.py`, `run_handle.py`) | Run, checkpoint, conversation turn, events | run, resume, confirm, cancel, interruption | stores, strategy, resources |
| Event stores (`stores/in_memory.py`, `stores/postgres/store.py`, `stores/redis/store.py`) | events per Run | emit, subscribe | runtime, server |
| Plans (`models/plan.py`, `orchestration/plan_execution.py`) | steps and plan status | start/complete/fail/wait/resume step, replan, cancel, fail | runtime |
| Model-Tool loop (`orchestration/model_tool.py`, `react.py`, `supervision/`) | messages, suspended action batch, counters | advance, suspend, resume | Tool executor, provider |
| Resource manager (`resources/manager.py`) | acquired resources in order | start, get, close | runtime |
| Raft worker (`integrations/raft`) | spool, journal of replies and completed ids, waiting Runs, open tasks | run_once, wake | Agent, Raft CLI |
| Server tasks (`server/tasks.py`) | handles, watchers, operations | start, resume, close | Agent |

What makes the Flow half of it hard is that several processes act on one Flow.
A worker holds two leases, the *delivery* of a work item and the *execution
lease* of the Flow, in two stores with two clocks; it may stall, crash or be
cancelled at every `await`; and everything it does afterwards must be refused.
Tools with side effects may be repeated by a redelivery.

What makes the Agent half hard is that one Run is written by several calls
(run, resume, cancel) into four stores that share no transaction: Run,
checkpoint, Conversation Turn and events. Every store call is an `await`, at
which another call may act, the store may fail, or the task may be cancelled;
clients read the stores in between and act on what they see.

## 2. Modules

| Module | Models | Shape |
|---|---|---|
| `FlowWorkSource` | the queue | state machine, tokens and clock |
| `FlowRun` | the aggregate | guards and values, no state |
| `FlowAggregate` | what the repository promises: one Flow to which one transition at a time is applied | abstract specification |
| `FlowRepository` | repository, leases and lifecycle service | state machine, implements `FlowAggregate` |
| `FlowWorker` | workers, heartbeats, recovery handler, both stores reduced to who holds what | state machine, composes the parts |
| `SideEffects` | ledger, recorder, Tool executor around them | state machine |
| `PostgresWorkSource` | the queue's PostgreSQL adapter, statement by statement | state machine, implements `FlowWorkSource` |
| `SequentialFlow` | strategy, budget and invoker over `FlowRun` | state machine, extends `FlowRun` |
| `RunLifecycle` | what readers of a Run may rely on | abstract specification |
| `AgentRun` | Agent, runtime, cancellation and interruption over the four stores | state machine, implements `RunLifecycle` |
| `EventFeed` | what a stream promises | abstract specification |
| `EventStream` | emit and subscribe of the three event stores | state machine, implements `EventFeed` |
| `ToolBatch` | model-Tool loop, ReAct, supervision, executor | state machine |
| `ExecutionPlan` | plans | guards and values, no state |
| `PlanExecution` | planning, execution, review, settlement | state machine, extends `ExecutionPlan` |
| `ResourceScope` | resource manager in the runtime's segments | state machine |
| `RaftWorker` | wake, spool, journal, worker | state machine |
| `ServerTasks` | the server's task manager | state machine |
| `FlowWorkSource_proofs`, `PostgresWorkSource_proofs`, `FlowRepository_proofs`, `FlowWorker_proofs`, `SequentialFlow_proofs`, `AgentRun_proofs`, `PlanExecution_proofs`, `ToolCalls_proofs` (of `SideEffects` and `ToolBatch`) | theorems, section 5 | |
| `MC*` | instances for TLC | |

**FlowWorkSource.** `item` is `_items` (one item per idempotency key), `review`
is `_review_idempotency`. Every public method is one action, because it runs
under one lock, or on one locked row (`PostgresWorkSource` justifies it for the
adapter). Callers keep what `claim` gave them for ever and may present it at any
time, so lost answers, late and repeated calls and crashes need no action of
their own. The clock a call uses may be `Lag` behind, since the code reads it
before it has the lock or the row; `claim` may step over any rows
(`SKIP LOCKED`). `settled` is a history variable.

**PostgresWorkSource.** A call is a sequence of statements: read the clock, find
or insert, lock, compute, commit. A statement waits for the row or the unique
key another transaction holds; a connection may break before its commit. The
refinement maps each commit to one action of `FlowWorkSource` and everything
else to a stutter.

**FlowRun, FlowAggregate, FlowRepository.** A method of `FlowLifecycle` is a
`Read` and later a commit from the snapshot it read; other clients, lease
changes and the clock run in between, and `Abandon` gives up half way. A commit
checks the token, then the revision, and writes state and events together.
`held` is the token a client got last, which it keeps using after it expired or
was taken over.

**FlowWorker.** One worker per `pc`: idle, claimed, handling, dispatching,
(unwinding,) releasing, settling. The two stores are reduced to the holder and
whether the lease is fresh, as `FlowWorkSource` and `FlowRepository` justify: a
token that is not the newest is refused everywhere. A commit is one step,
as the refinement of `FlowAggregate` justifies. The dispatcher of
`FlowRecoveryContext` is application code; it is modelled as the protocol in
`flows/recovery.py` and the methods of `FlowLifecycle` allow it: it executes its
decision and advances the Flow until it rests. A claim, a renewal, the acquisition
and release of a lease and a settlement may raise another error than a lost lease,
before or after they reached the store (`ClaimFails`, `StoreFails`,
`SettlementFails`); `dropped` remembers the items that are then nobody's until their
delivery expires. `faults` bounds crashes, stalls, cancellations, raised errors, stop
requests and operator reviews together.

**SequentialFlow.** One `pc` per call of run, resume or cancel. Every call on
`FlowLifecycle` is a read and a later commit that loses if the revision has
moved, so `view` (the snapshot the strategy holds) and `state` (what the
lifecycle has read) may both be old. The Agent behind the invoker is reduced to
its status, the cancellation flag and the number of model calls; it may never
start or never answer, or the invoker may raise, also a `TimeoutError` of its own,
which the strategy takes for the deadline's. `Tick` passes the deadline; with `Timed`
FALSE the budget has no timeout. A call that a cancelled task, or an error of the
repository, ends at an await without handler is "abandoned".

**RunLifecycle, AgentRun.** An executor is a call of `Agent.run`, `resume` or
`confirm`; a canceller calls `RunHandle.cancel`. Run, checkpoint, Turn and events
are four variables, each written in a step of its own, and `ctx` is the context a
call carries between them. `StoreRaises` may strike at every store call and
`Interrupt` at every await; both run the handlers the code has. With `Sequential`
clients resume only when the event tells them that the Run waits, as the
documentation asks; without, they act on whatever the stores show.

**EventFeed, EventStream.** `Store` selects the implementation: a condition
(memory), polling (PostgreSQL) or polling with notifications that may be lost
(Redis). A stream lists, yields, looks at the Run and waits, each a step.

**ToolBatch.** The loop of one Run: limits and cancellation, model, calls one by
one, suspension and resumption. The three policies of the default supervisor are
guards in their order. Histories (`answers`, `ran`, `approvals`) hold call ids.

**SideEffects.** An attempt is one execution of a Tool call of one invocation.
Every call on the ledger is one action, and an attempt may die between any two.

**ResourceScope.** One resource manager per segment of a Run: acquisition,
use, release in reverse order, and the events in between, each an await at which
a store may fail, a Tool time out or the task be cancelled.

**ExecutionPlan, PlanExecution.** The operations on a plan are values; the
strategy is a state machine over plan, phase, and what the events have told.
A batch of Tool calls has an outcome here (see `ToolBatch`). Drafts that a
review may propose come from a set with cycles and unknown executors in it. `given`
is the plan that `Agent.start` was given, if any: `Supplied` is any set of valid
graphs, with steps and plan in any status, as the code demands no more of it.
`Consistent` singles out those that the methods of `ExecutionPlan` may leave (steps in
order, one active at most, none in a plan that has ended).

**RaftWorker.** The service (inbox, claims, review), the bridge's wake flag, the
files (spool and journal), and one process that may die between any two writes.
A command may fail before or after it took effect. The list of completed messages
holds `CompletedLimit`, and a spool up to `BatchSize` messages; nothing relates the
two. `forgotten` remembers what the list has dropped while it was in the spool.

**ServerTasks.** Runs, the tasks that execute them, what the manager holds, and
the requests that start and resume Runs and may be cancelled at any await.

## 3. Runs

| Run | Question | Instance | States |
|---|---|---|---|
| `work_source` | Are deliveries fenced, exclusive, settled once; are reviews balanced? | 2 items, 2 review keys, 4 tokens, 5 clock values, TTL 2, lag 1, delays 0 and 1 | 453,423 |
| `postgres_work_source` | Does the adapter implement the queue; can transactions block each other? | 2 connections, 2 items, 1 review key, 2 tokens | 389,615 |
| `flow_repository` | Do racing clients implement the atomic aggregate; does the log tell the state; who may write? | 2 clients, 2 invocations, 3 leases, TTL 2, lag 1, 7 revisions | 538,106 |
| `flow_worker` | Is a decision still current when it is executed; is anything left behind? | 2 workers, two advancing commands, a resume, a cancel, 2 faults | 1,130,909 |
| `sequential_flow` | Do racing run, resume and cancel agree on the outcome; who drives, who is told, what is counted? | run, 2 resumes, cancel, 2 Agents, budget 2, deadline or none, 1 fault | 250,479 |
| `agent_run` | Does the stored status follow the lifecycle; can a Run at rest go on; is a cancellation lost? | run, 2 resumes, 2 waits; a cancellation, or 1 failing store call and 1 cancelled task | 2,344,937 |
| `event_stream` | Do streams deliver the log, catch up and end? | 3 stores, 2 writers, 1 stream, 4 events, cursors 0, 1, 5 | 84,084 |
| `tool_calls` | Batches, side effects and resources around a Tool call | 3 model steps of 2 calls; 3 attempts at 2 calls; 3 resources, 2 segments, 4 faults | 246,989 |
| `plan_execution` | Does the plan stay valid and in order, keep its history, agree with the Run; does the Run stop? | 3 steps, reviews, 7 model steps, a wait, a cancellation, 1 interruption; supplied plans of 1, 2 and 3 steps | 630,112 |
| `hosts` | Raft worker and server tasks: what is on disk, sent, held? | 3 messages, 2 tasks, 1 crash and 1 failing command, or 3 failing commands, spool 3, list 2; 2 Runs, 3 requests | 714,117 |
| `liveness` | What must eventually happen, in five components | see `MCLiveness` | 94,305 |
| `worker_handler_ownership` | violation, disagreement 2 below | 2 workers, 1 fault | |

Several components in one run. `tool_calls`, `hosts` and `liveness` check
components that share no state, and `agent_run`, `event_stream` and
`plan_execution` check one component under several parameters. A variable
chosen in the initial state (`part`, `host`, `calls`, `store`, `planning`, `timed`) names
the one that moves; the others stay in their initial states. The state space is
the sum of theirs, not the product, and each is explored as it would be alone. A
property that is stated for some of the parameters only says so in its
definition, and section 4 says what happens for the others.

Invariants that belong together are conjoined (`QueueInv`, `RepositoryInv`,
`EffectsInv`, `WorkerInv`, `DriverInv`, `BatchInv`, `PlanInv`, `JournalInv`, ...):
each begins with the type invariant of its module and names its parts, which are
defined and commented one by one.

Bounds. Two items make order and stealing possible. Four tokens let one item be
delivered, expire, be delivered again, be blocked, approved and delivered a
third time. Two clients and two leases are what a stale writer needs (a third
lets the first holder come back), and seven revisions reach a wait, a resume, a
second invocation and every end. Two faults are enough for a worker to lose a
lease and the one that took over to fail as well. Two resumes race for one wait,
and two waits let the loser meet the next question. Three steps are the
shortest plan in which a review finds one settled, one active and one pending. Of
supplied plans a chain of two steps takes every combination of statuses, but that
nothing tells a cancelled step from a failed one, nor a plan status other than
completed, failed and cancelled from another; a third step that depends on neither
is added for each kind of history, and in the instance without reviews with every
status. A spool of three and a list of two are what it takes to forget a message of
the spool. `liveness` keeps the spool as long as the list: a forgotten message is run
again under the id of a Run that exists, and fails for ever (disagreement 24).
An effect makes at most four transitions, so `MaxRevision` never cuts one off.
`flow_repository`, `flow_worker` and `sequential_flow` use a CONSTRAINT `Bounds`
that keeps long Flows and many leases, answers and second commands, three commands
and two faults, or second resumes and faults, apart; they check safety only, and the
definition in the MC module lists what is cut. Workers are symmetric, and so are
clients, connections, keys, review keys and resumes; symmetry is used only in runs
without liveness.

Deadlock is not checked: a queue whose items are settled, a Flow or a Run that
has ended and attempts that are over have nothing left to do, and the bounds on
clocks, tokens and faults end the rest. Where waiting for each other is the
question, a property asks it: `ConflictsResolve`, and the liveness properties.

Fairness. Faults, clients, operators, reviews and answers of people never have to
happen. Assumed is, per component:

* `FlowWorker`: a live worker takes its next step (`run_forever` is a loop without
  other waits), a lease nobody renews runs out (clock), and, strongly, an item that
  is claimable again and again is claimed: `claim` takes the least `available_at`
  and a retry moves it to the future, so a waiting item gets older than the others.
* `SequentialFlow`: the event loop runs every ready call, and time passes. Nothing
  is assumed of the Agent: it may never start or answer.
* `AgentRun`, `ServerTasks`: the event loop runs tasks and callbacks that are ready.
* `EventStream`: a consumer takes what its stream yields, and timers fire.
* `ToolBatch`, `PlanExecution`: provider, Tools and stores answer or fail.
* `SideEffects`: an attempt that is not dead goes on.
* `RaftWorker`: the process is restarted and its loop goes on, and the bridge wakes
  it while messages are pending.

## 4. What the checks show

* The queue: fencing holds with clocks read early (`SupersededIsFenced`,
  `DeliveryExclusive`); a stale reading can only shorten a lease or delay a
  takeover. `SettlementConsistent`: a delivery is settled once, with one exception
  the code has: `retry` of a delivery that was blocked is accepted after an
  operator approved the item, because the item is then pending and remembers that
  token. `ReviewBalance`: each block is answered by at most one review. The
  adapter implements all this transaction by transaction (`FollowsWorkSource`)
  and cannot deadlock on rows and review keys (`NoCircularWait`).
* The repository: racing lifecycle calls have the effect of atomic transitions
  (`LinearizableLifecycle`), the events tell the state at every moment
  (`LogRebuildsFlow`), and only the newest lease writes (`NewestTokenWrites`,
  `LeaseExclusive`).
* The worker: `DecisionStillCurrent`, `StoppedHoldsNoDelivery`, `NoStrandedFlow`,
  `WorkSettles`. A worker whose task is cancelled while it acquires or releases
  may leave the lease behind; it then runs out, as does a delivery whose settlement
  raised (disagreement 22). `NoStrandedFlow` is stated for Flows without a resume
  command, see disagreement 2.
* The sequential strategy: every caller learns the committed outcome
  (`ResultAgrees`), one call drives an Agent and its usage is counted once
  (`DriverInv`), and what a call leaves active is told, recorded, or was
  abandoned where the code has no handler, or by an assertion (`NothingLeftBehind`,
  disagreement 23). Every call ends (`SequentialCallsEnd`).
* The Run: whatever fails, its status follows `RunLifecycle` and never leaves an
  end (`StatusFollowsLifecycle`, for clients that resume when they are told to),
  one executor works at a time until a resume fails late (`OneExecutor`,
  disagreement 21), a cancellation that was accepted is not overwritten and stops
  a strategy that would go on.
* Streams: the in-memory and the Redis stores implement `EventFeed`, although
  notifications are lost; PostgreSQL delivers in order and ends, but see
  disagreement 9.
* Tools: calls of a batch are executed and answered once, only with approval, and
  observed completely; an UNSAFE Tool runs at most once per invocation and call id
  (a new invocation has new operation keys). Resources are released in reverse
  order before the segment ends, as long as `close` itself is not disturbed.
* Plans: whatever plan is supplied, reviews never change settled steps nor leave a
  cycle, the events tell the plan, and every Run stops within its limits. A consistent
  plan is executed in order and settled with its Run, see disagreement 25.
* Hosts: acknowledged messages are spooled, replies are repeated only when in
  doubt or forgotten, a journalled reply is not computed again while its message is
  remembered (`NoRerun`), every working task is held.

Where the documents or tests say something else than the code does, the property
is defined in the module as the document states it, and TLC finds it violated.
The second one is kept as a run. To see another one, check the property with
an instance like the one given.

1. *Commands for a terminal Flow* (`FlowWorker`, `TerminalWorkCompletes`; no
   fault, `FairSpec`). `docs/FLOWS.md` 494 and 503: the decision is NOOP, and NOOP
   completes the item. The execution lease is acquired first, and
   `acquire_execution` refuses a terminal Flow, so the item is retried for ever.
   `WorkSettles` therefore promises settlement only while the Flow has not ended.
2. *Holding both leases* (`HandlerOwnsBoth`, run `worker_handler_ownership`).
   `docs/FLOWS.md` 436: a worker must hold both while it processes work. Nothing
   looks at the delivery between `claim` and the handler, so a worker that stalls
   there runs the handler for an item that is no longer its own. The execution
   lease keeps the Flow consistent, and the late settlement is refused. But with a
   RESUME command the second execution may answer a second wait with the first
   answer, and if it then fails, the Flow is running while every item is completed.
3. *Cancelling between two invocations* (`SequentialFlow`, `CancelReachesAgents`;
   run and cancel, 2 Agents). `docs/FLOWS.md` 246: cancel commits the active
   invocation and propagates. It takes the invocation from its own read and
   commits from a second one: an invocation begun in between is cancelled in the
   store and never told.
4. *Resuming beyond the budget* (`SequentialFlow`, `BudgetStopsTransport`; run and
   two resumes). `docs/FLOWS.md` 103: no further transport call is allowed once a
   limit is consumed. `_resume_waiting` checks a snapshot read before
   `resume_invocation` reads again.
5. *Released before terminal* (`AgentRun`, `ReleasedBeforeTerminal`).
   `docs/CONVERSATIONS.md` 73-74: the Conversation is released before a terminal
   snapshot is exposed. A strategy that ends the Run after a Tool saves it inside
   the loop (`model_tool.py` 367), before the Turn is finished.
6. *Cancelling a waiting Run* (`AgentRun`, `CancelFinalizes`; one cancellation).
   `docs/RUNS.md` 106-107: it is finalized and its checkpoint removed. WAITING is
   saved before the checkpoint, so the call that asked may store it afterwards.
7. *Interruption late in a Run* (`AgentRun`, `InterruptionFinalizes`; one cancelled
   task). `docs/RUNS.md` 56-59: the Run is persisted as INTERRUPTED. After
   `finish_turn` a second `finish_turn` raises, and the Run stays RUNNING.
8. *Resuming early* (`AgentRun`, `Sequential` FALSE, `TerminalStateAgrees` and
   `AnswersItsQuestion`). `docs/IMPLEMENTATION_PLAN.md` 149: the terminal state
   agrees with the terminal event; `docs/RUNS.md` 96: the answer goes to the
   original call. A resume that acts on the stored WAITING may complete the Run
   before the call that asked saves it as WAITING; and one that validated a
   question may claim the checkpoint of the next.
9. *The end of a stream* (`EventStream`, PostgreSQL, `EndsAtBoundary`).
   `run_handle.py` 64: "through the terminal boundary". The stream lists, then
   reads the Run, which is saved as terminal before its event is emitted.
10. *Redirect* (`ToolBatch`, `AnswersAdjacent`; batch of two). `docs/IMPLEMENTATION_PLAN.md`
    221: message adjacency remains valid. The other calls of the batch have no
    answer when the model is asked next (`docs/TODO.md` 305 lists it as open).
11. *Approval in the last step* (`ToolBatch`, `ApprovalRuns`). `docs/TOOLS.md` 157:
    approval resumes the original call. The step limit is checked before the batch
    is resumed, and the Run ends with LIMIT_REACHED.
12. *Tools outside steps* (`PlanExecution`, `Unasked` TRUE, `ToolsForSteps`).
    `docs/ORCHESTRATION.md` 67 and 93: the summary is Tool-free, and the plan is
    validated before any step Tool runs. Calls in the answers of the planning,
    review and summary phases are executed.
13. *Cancelling a waiting plan* (`PlanExecution`, `CancelSettlesPlan`).
    `tests/test_planning.py` 479 asserts a cancelled plan; a Run cancelled while it
    waits keeps its step WAITING.
14. *Interrupted announcement* (`PlanExecution`, `CompletionAnnounced`).
    `docs/ORCHESTRATION.md` 114: lifecycle changes emit events. A completion that
    was saved when the task is interrupted is never announced.
15. *Durable Runs* (`RaftWorker`, `Durable` TRUE, one crash, `EveryMessageHandled`).
    `docs/RAFT.md` 101: recovery requires a durable store. With one, the replayed
    message creates a Run under an id that exists; every restart fails on it.
16. *Threads* (`RaftWorker`, `CompletedTasksReviewed`; one failing command).
    `docs/RAFT.md` 27: completed tasks are moved to review. The waiting Run is
    forgotten before the reply is sent, so a replayed reply that mentions nobody
    is taken for foreign traffic.
17. *Stale open task* (`RaftWorker`, `FailedTasksNotReviewed`). The same line: a
    task whose resumed Run failed stays open and is moved to review by the next
    message of the conversation.
18. *Unparseable output* (`RaftWorker`, `Unparseable` TRUE, `NothingLost`).
    `docs/RAFT.md` 81: output is spooled immediately. It is parsed first; what the
    parser refuses is acknowledged and on no disk.
19. *Cancellation in close* (`ResourceScope`, `FaultsInClose` TRUE, `AllReleased`).
    `docs/RESOURCES.md` 69: cancellation runs cleanup first. `close` catches
    `Exception` only, with the scope CLOSED already: the rest stays acquired.
20. *Cancelled start request* (`ServerTasks`, `GoneInStart` TRUE,
    `RetainedWhileActive`). `docs/SERVER.md` 86: handles are retained while tasks
    are active. `start` is not shielded, and the task is left without a handle.
21. *One resume continues* (`AgentRun`, `Sequential` FALSE, `OneResumeContinues`; run,
    three resumes and a cancellation, two waits, no fault). `docs/RUNS.md` 105: only
    one concurrent resume can continue a waiting Run. A resume asks again and stores
    the next checkpoint, which another resume claims; a cancellation that had read
    WAITING finishes the Turn; the first resume's `finish_turn` raises, and the
    handler of `_continue_waiting` puts back the checkpoint it had consumed
    (`agent.py` 455). A fourth call claims it, and two executors are in the loop. With
    three executors this does not happen; the attempt to prove the unconditional
    statement found it. `OneExecutor` therefore excepts a resume that failed after it
    had asked again (`PutBackLate`), and nothing else.
22. *Settlement that raises* (`FlowWorker`, `StoppedHoldsNoDelivery` without the
    exception for `dropped`; one failing settlement and a stop). `flows/worker.py` 183:
    `stop` takes effect after the active item, if any, settles; 233: an item that failed
    was scheduled for retry. When `complete`, `block` or `retry` raises another error
    than a lost delivery, or `claim` raises after it took effect, `run_forever` logs that
    line and goes on, or stops, with the item claimed and not scheduled for anything; it
    is delivered again when the delivery expires.
23. *The invoker's own TimeoutError* (`SequentialFlow`, `OnlyAbandonedIsStranded` without
    "assertion"; one fault, `Timed` FALSE). `sequential.py` 369 asserts that a Flow whose
    transport timed out has a timeout. `_advance` and `_resume_waiting` catch
    `TimeoutError` (153 and 262) whoever raised it: with a timeout budget the Flow ends
    with LIMIT_REACHED before its deadline instead of FAILED; without one the assertion
    fails, and the Flow stays RUNNING with nobody at work.
24. *A bounded list of completed messages* (`RaftWorker`, `NoRerun` without the exception
    for `forgotten`; `BatchSize` above `CompletedLimit`). `integrations/raft/state.py` 43:
    transport retries do not rerun completed work. `mark_completed` drops the oldest
    entries, also those of the spool at hand; when that spool is retried, they are not
    known to be completed.
25. *Supplied plans* (`PlanExecution`, `PlanSettled` with `AllSettled(plan.steps)`, or
    without `Consistent(given)`). `docs/ORCHESTRATION.md` 50-57 supplies a plan with
    history, and nothing looks at it but for the graph. A plan supplied with a FAILED
    step, whose pending steps an empty review removes, is COMPLETED with that step in it,
    and so is the Run. A plan that no method of `ExecutionPlan` would leave is accepted as
    well: of two running steps a review drops the second, and a plan supplied as failed or
    cancelled with an active step keeps it when the Run fails.

## 5. What is proved

Assumptions: only the named ASSUMEs of the modules (types of the constants, a
positive TTL, disjoint sets of names). Unless a theorem says otherwise it holds for
any number of items, tokens, clients, workers, connections, calls, attempts, faults
and waits, and for any lag.

| Module | Theorem | States |
|---|---|---|
| `FlowWorkSource_proofs` | `TypeCorrect`, `StoredItemsValid`, `SettledOnce`, `TokenOrder`; together `QueueConsistent` | `QueueInv` |
| | `ReviewsBalanced` | `ReviewBalance` |
| | `StaleDeliveriesFenced`, `RunningDeliveryExclusive` | action properties `SupersededIsFenced`, `DeliveryExclusive` |
| `PostgresWorkSource_proofs` | `ImplementsQueue` | `FollowsWorkSource`: the adapter implements `FlowWorkSource` |
| | `ConflictFound` | `ConflictVisible`, one part of `ConflictsResolve` |
| `FlowRepository_proofs` | `TypeCorrect`, `StoredFlowsValid`, `RevisionIdentifiesFlow`; with the log `RepositorySound` | `RepositoryInv` |
| | `OnlyNewestTokenWrites`, `RunningLeaseExclusive` | action properties `NewestTokenWrites`, `LeaseExclusive` |
| | `Linearizable` | `LinearizableLifecycle`: the service implements `FlowAggregate` |
| `FlowWorker_proofs` | `WorkersKeepLeases` | `WorkerInv` |
| | `NoFlowStranded` | `NoStrandedFlow` |
| `ToolCalls_proofs` | `TypeCorrect`, `UnsafeRunsAtMostOnce`, `EvidenceIsConservative`, `SuccessfulIsConfirmed`; together `EffectsReliable` | `EffectsInv` |
| | `BatchCorrect` | `BatchInv` of `ToolBatch` |
| `SequentialFlow_proofs` | `OneCallDrives`, `ResultsAgree`, `NobodyLeftBehind` | `DriverInv`, `ResultAgrees`, `NothingLeftBehind` |
| | `InvokedWithinBudget` | action property `BudgetStopsInvoke` |
| `AgentRun_proofs` | `TypeCorrect`, `ExecutesOnce` | `TypeOK`, `OneExecutor` |
| | `CancellationKept` | action property `CancelNeverLost` |
| | `ImplementsLifecycle` (assumes `Sequential`, no canceller) | `FollowsLifecycle`: the Run implements `RunLifecycle` |
| | `RestsSound` (same assumptions, until the first fault) | `WaitingIsResumable`, `EventsAgree` |
| `PlanExecution_proofs` | `Inductive`, `PlanStaysInOrder` | `PlanInv` |
| | `HistoryStays` | action property `HistoryKept` |
| | `EventsShowThePlan` (until the first interruption) | `StepsAnnounced` |
| | `PlanEndsWithRun` (assumes `~Unasked`) | `PlanSettled`, which speaks of consistent supplied plans |

Each proof has an inductive invariant, a lemma for each action (or for a shape that
several actions share) and the theorems as corollaries. The arguments:

* The queue. `TokensInOrder` carries it: the current token of an item is its newest
  and has settled nothing, and an item in nobody's hands remembers its newest token;
  so an accepted call is one of the newest. `ReviewBalance` counts sets, so its
  invariant `BalanceInv` also says that they are finite, and that an item which is
  blocked has one block more than reviews.
* The adapter. `Inv` says of every open transaction what it may rely on: that it
  read its clock before now; that its arguments are those of the call; and, once it
  has the lock of its row, that the row it is about to write was computed from the
  row that is stored (`Computed`). A commit is then a call of the queue, and a step
  before it a stutter. That `claim` finds a token left needs counting: the tokens
  minted and the claims under way are at most `MaxToken` together. That its query
  has a result needs that the table is finite.
* The repository. A snapshot is either older than the stored revision or equal to
  the stored Flow, so a commit whose revision matches computes from the current
  state. For the log, `LogInv` says which event is the last of the Flow and of every
  invocation, as positions in the sequence instead of a choice among them.
* The workers. A dispatcher acts on the Flow as it is stored while its lease is valid
  (`Decided`); a delivery that runs is in the hands of its worker or its item was
  dropped by a call that raised (`DeliveryHeld`); and, until a resume command exists,
  a Flow at rest stays at rest, and whoever reports success left it at rest
  (`RestInv`).
* Side effects. The invariant adds who was *permitted* to run the Tool: nobody
  before the effect is STARTED, and one attempt if it is UNSAFE.
* The batch of Tool calls. `BatchInv` says nothing of a batch in the middle, so it is
  not inductive. `BInv` adds that what is observed and what is still to execute are the
  calls of the response, in order (`SplitInv`), also with the waiting call between them
  while the batch is suspended (`HeldInv`); that a call which is still to execute, or
  waits for its confirmation, has neither run nor an answer, and is approved only if it
  is the one about to run (`WaitingInv`); that a new response has new names
  (`NamesInv`); and that a call which may still run was counted (`BudgetInv`), which is
  why an approved call needs no second look at the budget. `BatchAssumption` (types of
  the limits) is a hypothesis of the theorem; TLC evaluates it for both instances.
* The plan. Every operation on a plan takes a sound plan (`Sound`: a graph whose steps
  ran in order, one at a time, if those of the supplied plan did) to a sound one that
  keeps what has settled (`Keeps`);
  `Inv` adds what the loop needs for it: that the step asked about is running, and that
  the state of ReAct belongs to the active step. `plan`, `news` and `told` change
  together (`Written`), so `ToldInv` says of the events under way what `StepsAnnounced`
  says of those sent. `PlanSettled` speaks of the end only: `EndInv` says which
  statuses of Run and plan go together at each label before it, and that no step has
  failed that was not supplied so (`Fresh`, `Closed`), for consistent supplied plans;
  it starts from what `Consistent` says of them. And
  `SuspendedInv` that a suspended batch belongs to the active step. That the steps a
  review keeps are a subsequence (`Kept`, a recursive function) is proved by the least
  counterexample.
* The sequential strategy. A revision that was read and is still current stands for
  the guard that was tested on it (`ViewOK`), so a commit never meets a Flow it was
  not meant for; the call that drives knows the Flow exactly between two invocations
  unless the Flow was ended (`WorkOK`, `Between`); a Flow that is created or running
  has a call that will bring it further, or one that was abandoned or failed the
  assertion (`Owned`).
* The Run. Who has claimed the checkpoint holds the Run until the checkpoint is
  stored again (`Holds`, `Exclusive`), and questions are counted from the claimed one
  (`Counted`), which is what tells a late failure apart. For the lifecycle,
  `SequentialInv` says which status may be stored at each label of the only active
  executor. For rest, `UnderWay` says what has been written when.

`ImplementsLifecycle` and `RestsSound` exclude cancellations and assume clients that
wait to be told, because without either the statements are false (disagreements 6 to
8). They are what `agent_run` checks as `StatusFollowsLifecycle` and as
`RestingRunIsSound`, which are defined in the MC module because the run joins this
instance and the one with races. In the same way `plan_execution` checks the last two
theorems about the plan as `PlanAgreesWithRun`: `PlanSettled` does not hold with
`Unasked`, which one of its three instances allows, nor `StepsAnnounced` after an
interruption, so the run leaves that instance and those states out. `tool_calls`
checks `BatchInv` for the strategies model_tool and ReAct; the theorem is about both.

Facts about sums (`Total`) and about `Kept` are proved by the least element
of the set of counterexamples, since the induction theorems of the library cannot be
instantiated: `LeastElement`, and the existence of the recursive function from it
(`SequentialFlow_proofs`).

Only model-checked:

* every liveness property (fairness) and `NoCircularWait` (ENABLED), which are out of
  the prover's reach;
* `EventStream`, `ResourceScope`, `RaftWorker` and `ServerTasks`, about which nothing is
  proved: the runs `event_stream`, `tool_calls` and `hosts` check them.

`ExecutionPlan` and `ToolBatch` extend `FiniteSetsExt` and `Functions` and not
`SequencesExt`: with all of that module in scope every obligation takes tlapm several
times longer.

## 6. Not modelled

* Providers, MCP, sandbox, browser, web search, data sources: I/O towards external
  systems, without state shared between calls of this program.
* Skills, profiles, toolkits, memory, artifacts, attachments and logging:
  sequential helpers of one Run (validation, formatting, file access).
* The Raft command line client, except for how a command may end; the text format
  and the subprocess handling.
* The server's routes that only read or delegate.
* In the modelled parts: texts, identities, definition fingerprints and payloads
  are abstracted to what the guards tell apart; a second cancellation while a
  cancelled handler is being unwound is not modelled. The transactions of the
  PostgreSQL Flow repository and the side-effect ledger are one action each: each
  locks one row first and writes it last. Store calls of `AgentRun` are atomic, as
  each is one statement or runs under one lock.
