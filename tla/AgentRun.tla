------------------------------ MODULE AgentRun ------------------------------
(***************************************************************************)
(* One Run of an Agent (agent.py, runtime/engine.py, run_handle.py): the   *)
(* call that runs it, calls that resume it when it waits, and calls that   *)
(* cancel it, over four stores written one after the other: the Run, its   *)
(* checkpoint, its Conversation Turn and its events.  Every store call is  *)
(* an await, so it is a step of its own; any of them may raise, and the    *)
(* task of a call may be cancelled at any of them.                         *)
(***************************************************************************)
EXTENDS Naturals, Sequences, FiniteSets

CONSTANTS
    Executor,       \* the calls that execute the Run: Agent.run and resumes
    First,          \* the one that is Agent.run
    Canceller,      \* the calls of Agent.cancel
    MaxWaits,       \* bound on the questions the Run asks
    MaxErrors,      \* bound on store calls that raise
    MaxInterrupts,  \* bound on cancelled tasks
    Sequential      \* TRUE if clients resume only after a waiting result

ASSUME RunAssumption == /\ First \in Executor
                        /\ Executor \cap Canceller = {}
                        /\ {MaxWaits, MaxErrors, MaxInterrupts} \subseteq Nat
                        /\ Sequential \in BOOLEAN

VARIABLES
    run,         \* the stored Run: status and cancel_requested
    checkpoint,  \* the question the stored checkpoint is about, or 0
    turn,        \* status of its Conversation Turn; "none" without Conversation
    events,      \* its boundary events
    pc,          \* where each call is
    ctx,         \* the status and the last question in the context of an executor
    seen,        \* the Run as a call has read it
    exc,         \* is CancelledError to be raised at the end
    asked,       \* the question of the checkpoint a resume has loaded or claimed
    errors, interrupts

store == <<run, checkpoint, turn, events>>
local == <<ctx, seen, exc, asked>>
bounds == <<errors, interrupts>>
vars == <<run, checkpoint, turn, events, pc, ctx, seen, exc, asked, errors, interrupts>>

Lifecycle == INSTANCE RunLifecycle WITH status <- run.status

Terminal == Lifecycle!Terminal
Unfinished == Lifecycle!Unfinished

Client == Executor \cup Canceller

NoRun == [status |-> "none", cancel |-> FALSE]

Init == /\ run = NoRun
        /\ checkpoint = 0
        /\ turn = "none"
        /\ events = <<>>
        /\ pc = [c \in Client |-> "idle"]
        /\ ctx = [e \in Executor |-> [status |-> "created", question |-> 0]]
        /\ seen = [c \in Client |-> NoRun]
        /\ exc = [e \in Executor |-> FALSE]
        /\ asked = [e \in Executor |-> 0]
        /\ errors = 0
        /\ interrupts = 0

Goto(c, label) == pc' = [pc EXCEPT ![c] = label]

Ended(c) == pc[c] \in {"returned", "finalized", "raised", "interrupted"}

Emit(event) == events' = Append(events, event)

-----------------------------------------------------------------------------
\* The stores.

\* run_store.get, the first half of a read-modify-save.
Get(c, label) ==
    /\ seen' = [seen EXCEPT ![c] = run]
    /\ Goto(c, label)

\* Faulty variant: a snapshot is saved as it is.
SaveUnmerged(c, status) == run' = [status |-> status, cancel |-> seen[c].cancel]

\* run_store.save: an accepted cancellation survives a stale snapshot.
Save(c, status) == run' = [status |-> status, cancel |-> run.cancel \/ seen[c].cancel]

\* finish_turn raises if the Run is no longer the active one.
CanFinish == turn \notin Terminal

\* finish_turn; a Turn that waits keeps the Conversation.
FinishTurn(status) == turn' = IF turn = "none" THEN "none" ELSE status

-----------------------------------------------------------------------------
\* How an executor leaves the runtime by an exception.

\* The awaits inside the try block of AgentRuntime.execute, and those of
\* finalize_task_interruption, which is shielded.
Loop == {"check", "advance", "step_read", "step_save"}
Shielded == {"int_read", "int_turn", "int_save", "int_delete", "int_emit"}

\* An exception outside of it: Agent.run releases the Turn, a resume puts the
\* checkpoint it has claimed back.
Outside(e) == IF e = First THEN "release" ELSE "restore"

\* Where an executor ends once there is nothing more to do for it.
Exit(e) == IF exc[e] THEN "interrupted" ELSE "raised"

\* Nobody has finalized the Run: Agent.run still releases its Turn.
Unsettled(e) == IF e = First THEN "release" ELSE "interrupted"

\* Where a call goes when the store call it is at raises.
AfterError(c) ==
    CASE c \in Canceller -> "raised"
      [] pc[c] \in Loop -> "checkpoint"
      [] pc[c] \in {"load", "claim", "restore"} -> "raised"
      [] pc[c] = "release" -> Exit(c)
      [] pc[c] \in Shielded -> Unsettled(c)
      [] OTHER -> Outside(c)

\* A store call raises.
StoreRaises(c) ==
    /\ errors < MaxErrors
    /\ pc[c] \notin {"idle", "advance", "prepare"} /\ ~Ended(c)
    /\ Goto(c, AfterError(c))
    /\ ctx' = IF pc[c] \in Loop /\ ctx[c].status = "running"
              THEN [ctx EXCEPT ![c].status = "failed"] ELSE ctx
    /\ exc' = IF c \in Executor /\ pc[c] \notin Shielded \cup {"release"}
              THEN [exc EXCEPT ![c] = FALSE] ELSE exc
    /\ errors' = errors + 1
    /\ UNCHANGED <<store, seen, asked, interrupts>>

\* Where an executor goes when its task is cancelled.
AfterCancelledError(e) ==
    CASE pc[e] \in Loop -> "cancelled_error"
      [] pc[e] \in {"load", "restore", "release"} -> "interrupted"
      [] OTHER -> "int_read"

TaskCancelled(e) ==
    /\ interrupts < MaxInterrupts
    /\ pc[e] \notin Shielded \cup {"idle", "prepare"} /\ ~Ended(e)
    /\ Goto(e, AfterCancelledError(e))
    /\ exc' = [exc EXCEPT ![e] = TRUE]
    /\ interrupts' = interrupts + 1
    /\ UNCHANGED <<store, ctx, seen, asked, errors>>

\* The handler of CancelledError in AgentRuntime.execute.
HandleCancelledError(e) ==
    /\ pc[e] = "cancelled_error"
    /\ ctx' = IF ctx[e].status \in Unfinished
              THEN [ctx EXCEPT ![e].status = IF run.cancel THEN "cancelled" ELSE "interrupted"]
              ELSE ctx
    /\ Goto(e, "checkpoint")
    /\ UNCHANGED <<store, seen, exc, asked, bounds>>

-----------------------------------------------------------------------------
\* Agent.run up to the loop.

\* With or without a Conversation.
BeginTurn(e) ==
    /\ pc[e] = "idle" /\ e = First
    /\ turn' \in {"none", "active"}
    /\ Goto(e, "create")
    /\ UNCHANGED <<run, checkpoint, events, local, bounds>>

CreateRun(e) ==
    /\ pc[e] = "create"
    /\ run' = [status |-> "created", cancel |-> FALSE]
    /\ ctx' = [ctx EXCEPT ![e].status = "running"]
    /\ Goto(e, "start_read")
    /\ UNCHANGED <<checkpoint, turn, events, seen, exc, asked, bounds>>

\* Agent.resume and Agent.confirm up to the loop.
Resume(e) ==
    /\ pc[e] = "idle" /\ e # First
    /\ run.status # "none"
    /\ Sequential => \A d \in Executor : pc[d] = "idle" \/ Ended(d)
    /\ Goto(e, IF run.status = "waiting" THEN "load" ELSE "raised")
    /\ UNCHANGED <<store, local, bounds>>

LoadCheckpoint(e) ==
    /\ pc[e] = "load"
    /\ Goto(e, IF checkpoint = 0 THEN "raised" ELSE "claim")
    /\ asked' = [asked EXCEPT ![e] = checkpoint]
    /\ UNCHANGED <<store, ctx, seen, exc, bounds>>

\* RuntimeCheckpoint: what of a context that waits is stored, and the context
\* made of it again.
FromContext(e) == ctx[e].question
Restored(question) == [status |-> "waiting", question |-> question]

\* Faulty variant: the checkpoint is not removed.
ClaimShared(e) ==
    /\ pc[e] = "claim"
    /\ Goto(e, IF checkpoint = 0 THEN "raised" ELSE "prepare")
    /\ ctx' = [ctx EXCEPT ![e] = Restored(checkpoint)]
    /\ asked' = [asked EXCEPT ![e] = checkpoint]
    /\ UNCHANGED <<store, seen, exc, bounds>>

\* claim is atomic: it takes the checkpoint away.
ClaimCheckpoint(e) ==
    /\ pc[e] = "claim"
    /\ Goto(e, IF checkpoint = 0 THEN "raised" ELSE "prepare")
    /\ ctx' = [ctx EXCEPT ![e] = Restored(checkpoint)]
    /\ asked' = [asked EXCEPT ![e] = checkpoint]
    /\ checkpoint' = 0
    /\ UNCHANGED <<run, turn, events, seen, exc, bounds>>

\* Faulty variant: rejected input consumes the checkpoint.
PrepareConsuming(e) ==
    /\ pc[e] = "prepare"
    /\ \/ /\ ctx' = [ctx EXCEPT ![e].status = "running"]
          /\ Goto(e, "start_read")
       \/ /\ Goto(e, "raised")
          /\ UNCHANGED ctx
    /\ UNCHANGED <<store, seen, exc, asked, bounds>>

\* _prepare_resume accepts the input or raises before it changes anything.
PrepareResume(e) ==
    /\ pc[e] = "prepare"
    /\ \/ /\ ctx' = [ctx EXCEPT ![e].status = "running"]
          /\ Goto(e, "start_read")
       \/ /\ Goto(e, "restore")
          /\ UNCHANGED ctx
    /\ UNCHANGED <<store, seen, exc, asked, bounds>>

SnapshotStart(e) ==
    \/ /\ pc[e] = "start_read"
       /\ Get(e, "start_save")
       /\ UNCHANGED <<store, ctx, exc, asked, bounds>>
    \/ /\ pc[e] = "start_save"
       /\ Save(e, ctx[e].status)
       /\ Goto(e, "emit_started")
       /\ UNCHANGED <<checkpoint, turn, events, local, bounds>>

EmitStarted(e) ==
    /\ pc[e] = "emit_started"
    /\ Emit(IF e = First THEN "started" ELSE "resumed")
    /\ Goto(e, "check")
    /\ UNCHANGED <<run, checkpoint, turn, local, bounds>>

-----------------------------------------------------------------------------
\* The loop of AgentRuntime.execute.

\* Faulty variant: the loop does not look at the request.
CheckNothing(e) ==
    /\ pc[e] = "check"
    /\ Goto(e, "advance")
    /\ UNCHANGED <<store, local, bounds>>

CheckCancel(e) ==
    /\ pc[e] = "check"
    /\ IF run.cancel
       THEN Goto(e, "checkpoint") /\ ctx' = [ctx EXCEPT ![e].status = "cancelled"]
       ELSE Goto(e, "advance") /\ UNCHANGED ctx
    /\ UNCHANGED <<store, seen, exc, asked, bounds>>

\* Supervision and the strategy: go on, ask a question, or end; a wait is
\* saved by the strategy, and so is an end that after_tool or a plan decides.
Advance(e) ==
    /\ pc[e] = "advance"
    /\ \/ /\ Goto(e, "step_read")
          /\ UNCHANGED ctx
       \/ /\ ctx[e].question < MaxWaits
          /\ ctx' = [ctx EXCEPT ![e] = [status |-> "waiting", question |-> @.question + 1]]
          /\ Goto(e, "step_read")
       \/ \E status \in {"completed", "failed", "limit_reached"} :
          /\ ctx' = [ctx EXCEPT ![e].status = status]
          /\ \/ Goto(e, "checkpoint")
             \/ status # "failed" /\ Goto(e, "step_read")
    /\ UNCHANGED <<store, seen, exc, asked, bounds>>

SnapshotStep(e) ==
    \/ /\ pc[e] = "step_read"
       /\ Get(e, "step_save")
       /\ UNCHANGED <<store, ctx, exc, asked, bounds>>
    \/ /\ pc[e] = "step_save"
       /\ Save(e, ctx[e].status)
       /\ Goto(e, IF ctx[e].status = "running" THEN "check" ELSE "checkpoint")
       /\ UNCHANGED <<checkpoint, turn, events, local, bounds>>

-----------------------------------------------------------------------------
\* The end of AgentRuntime.execute: checkpoint, Turn, Run, event.

StoreCheckpoint(e) ==
    /\ pc[e] = "checkpoint"
    /\ checkpoint' = IF ctx[e].status = "waiting" THEN FromContext(e) ELSE 0
    /\ Goto(e, "turn")
    /\ UNCHANGED <<run, turn, events, local, bounds>>

\* ConversationBusyError leaves the runtime like any other exception.
EndTurn(e) ==
    /\ pc[e] = "turn"
    /\ IF CanFinish
       THEN FinishTurn(ctx[e].status) /\ Goto(e, "final_read")
       ELSE Goto(e, Outside(e)) /\ UNCHANGED turn
    /\ UNCHANGED <<run, checkpoint, events, local, bounds>>

\* _finalize_run: the snapshot, then the boundary event.
FinalizeRun(e) ==
    \/ /\ pc[e] = "final_read"
       /\ Get(e, "final_save")
       /\ UNCHANGED <<store, ctx, exc, asked, bounds>>
    \/ /\ pc[e] = "final_save"
       /\ Save(e, ctx[e].status)
       /\ Goto(e, "emit")
       /\ UNCHANGED <<checkpoint, turn, events, local, bounds>>
    \/ /\ pc[e] = "emit"
       /\ Emit(ctx[e].status)
       /\ Goto(e, IF exc[e] THEN "int_read" ELSE "returned")
       /\ UNCHANGED <<run, checkpoint, turn, local, bounds>>

-----------------------------------------------------------------------------
\* The handlers of Agent._execute and Agent._continue_waiting.

Release(e) ==
    /\ pc[e] = "release"
    /\ IF CanFinish THEN FinishTurn(IF exc[e] THEN "interrupted" ELSE "failed")
                    ELSE UNCHANGED turn
    /\ Goto(e, Exit(e))
    /\ UNCHANGED <<run, checkpoint, events, local, bounds>>

\* The checkpoint as it was claimed.
Restore(e) ==
    /\ pc[e] = "restore"
    /\ checkpoint' = asked[e]
    /\ Goto(e, "raised")
    /\ UNCHANGED <<run, turn, events, local, bounds>>

\* What finalize_task_interruption makes of the Run it has read.
Verdict(e) == IF seen[e].cancel THEN "cancelled" ELSE "interrupted"

\* Faulty variant: every Run is finalized, also one that has ended.
InterruptAny(e) ==
    \/ /\ pc[e] = "int_read"
       /\ Get(e, IF run.status = "none" THEN Unsettled(e) ELSE "int_turn")
       /\ UNCHANGED <<store, ctx, exc, asked, bounds>>
    \/ /\ pc[e] = "int_turn"
       /\ FinishTurn(Verdict(e)) /\ Goto(e, "int_save")
       /\ UNCHANGED <<run, checkpoint, events, local, bounds>>
    \/ /\ pc[e] = "int_save"
       /\ Save(e, Verdict(e))
       /\ Goto(e, "int_delete")
       /\ UNCHANGED <<checkpoint, turn, events, local, bounds>>

\* finalize_task_interruption
FinalizeInterruption(e) ==
    \/ /\ pc[e] = "int_read"
       /\ Get(e, CASE run.status = "none" -> Unsettled(e)
                   [] run.status \in Terminal -> "interrupted"
                   [] OTHER -> "int_turn")
       /\ UNCHANGED <<store, ctx, exc, asked, bounds>>
    \/ /\ pc[e] = "int_turn"
       /\ IF CanFinish
          THEN FinishTurn(Verdict(e)) /\ Goto(e, "int_save")
          ELSE Goto(e, Unsettled(e)) /\ UNCHANGED turn
       /\ UNCHANGED <<run, checkpoint, events, local, bounds>>
    \/ /\ pc[e] = "int_save"
       /\ Save(e, Verdict(e))
       /\ Goto(e, "int_delete")
       /\ UNCHANGED <<checkpoint, turn, events, local, bounds>>
    \/ /\ pc[e] = "int_delete"
       /\ checkpoint' = 0
       /\ Goto(e, "int_emit")
       /\ UNCHANGED <<run, turn, events, local, bounds>>
    \/ /\ pc[e] = "int_emit"
       /\ Emit(Verdict(e))
       /\ Goto(e, "interrupted")
       /\ UNCHANGED <<run, checkpoint, turn, local, bounds>>

-----------------------------------------------------------------------------
\* request_cancellation, of Agent.cancel and RunHandle.cancel.

GetForCancel(c) ==
    /\ pc[c] = "idle" /\ run.status # "none"
    /\ Get(c, "request")
    /\ UNCHANGED <<store, ctx, exc, asked, bounds>>

\* Only a Run that was waiting when it was read is finalized here.
RequestCancel(c) ==
    /\ pc[c] = "request"
    /\ IF run.status \in Terminal
       THEN Goto(c, "raised") /\ UNCHANGED run
       ELSE /\ run' = [run EXCEPT !.cancel = TRUE]
            /\ Goto(c, IF seen[c].status = "waiting" THEN "c_turn" ELSE "returned")
    /\ UNCHANGED <<checkpoint, turn, events, local, bounds>>

FinalizeCancel(c) ==
    \/ /\ pc[c] = "c_turn"
       /\ IF CanFinish
          THEN FinishTurn("cancelled") /\ Goto(c, "c_save")
          ELSE Goto(c, "raised") /\ UNCHANGED turn
       /\ UNCHANGED <<run, checkpoint, events, local, bounds>>
    \/ /\ pc[c] = "c_save"
       /\ run' = [status |-> "cancelled", cancel |-> TRUE]
       /\ Goto(c, "c_delete")
       /\ UNCHANGED <<checkpoint, turn, events, local, bounds>>
    \/ /\ pc[c] = "c_delete"
       /\ checkpoint' = 0
       /\ Goto(c, "c_emit")
       /\ UNCHANGED <<run, turn, events, local, bounds>>
    \/ /\ pc[c] = "c_emit"
       /\ Emit("cancelled")
       /\ Goto(c, "finalized")
       /\ UNCHANGED <<run, checkpoint, turn, local, bounds>>

-----------------------------------------------------------------------------
\* A step of the code of an executor that has begun.
Proceed(e) == \/ CreateRun(e) \/ LoadCheckpoint(e) \/ ClaimCheckpoint(e) \/ PrepareResume(e)
              \/ SnapshotStart(e) \/ EmitStarted(e) \/ CheckCancel(e) \/ Advance(e)
              \/ SnapshotStep(e) \/ StoreCheckpoint(e) \/ EndTurn(e) \/ FinalizeRun(e)
              \/ Release(e) \/ Restore(e) \/ HandleCancelledError(e) \/ FinalizeInterruption(e)

Cancel(c) == GetForCancel(c) \/ RequestCancel(c) \/ FinalizeCancel(c)

Next == \/ \E e \in Executor : BeginTurn(e) \/ Resume(e) \/ Proceed(e) \/ TaskCancelled(e)
        \/ \E c \in Canceller : Cancel(c)
        \/ \E c \in Client : StoreRaises(c)

Spec == Init /\ [][Next]_vars

\* The event loop runs a call that has begun to its end.
FairSpec == Spec /\ \A e \in Executor : WF_vars(Proceed(e))

-----------------------------------------------------------------------------
Labels == Loop \cup Shielded \cup
    {"idle", "create", "load", "claim", "prepare", "start_read", "start_save", "emit_started",
     "checkpoint", "turn", "final_read", "final_save", "emit", "cancelled_error", "release",
     "restore", "request", "c_turn", "c_save", "c_delete", "c_emit", "returned", "finalized",
     "raised", "interrupted"}

StoredRun == [status : Terminal \cup Unfinished \cup {"none"}, cancel : BOOLEAN]

\* Every variable stays in its domain; the events are boundary events.
TypeOK == /\ run \in StoredRun
          /\ checkpoint \in 0..MaxWaits
          /\ turn \in Terminal \cup {"none", "active", "waiting"}
          /\ events \in Seq(Terminal \cup {"started", "resumed", "waiting"})
          /\ pc \in [Client -> Labels]
          /\ ctx \in [Executor -> [status : Terminal \cup Unfinished, question : 0..MaxWaits]]
          /\ seen \in [Client -> StoredRun]
          /\ exc \in [Executor -> BOOLEAN]
          /\ asked \in [Executor -> 0..MaxWaits]
          /\ errors \in 0..MaxErrors
          /\ interrupts \in 0..MaxInterrupts

\* No call is under way.
Quiet == \A c \in Client : pc[c] = "idle" \/ Ended(c)

\* An accepted cancellation is never forgotten, whatever stale copies of the
\* Run the executors save after it.
CancelNeverLost == [][run.cancel => run'.cancel]_vars

\* A resume that failed after it had asked again: what it put back is the
\* checkpoint it had claimed, although it had stored the next one.
PutBackLate(e) == e # First /\ pc[e] = "raised" /\ ctx[e].question # asked[e]

\* At most one executor advances the Run, although resumes race for the
\* checkpoint and the old executor still runs when the new one starts: the
\* checkpoint is there or somebody executes it, until a resume fails late.
OneExecutor == \A d, e \in Executor :
                  pc[d] \in Loop /\ pc[e] \in Loop =>
                     d = e \/ \E f \in Executor : PutBackLate(f)

\* What docs/RUNS.md says: only one concurrent resume can continue a waiting
\* Run. The checkpoint that a late failure puts back is claimed as well
\* (README, section 4).
OneResumeContinues ==
    \A d, e \in Executor : pc[d] \in Loop /\ pc[e] \in Loop => d = e

\* The status others read moves as the state machine allows, and never leaves a
\* terminal status, although several calls save it from their own contexts.
FollowsLifecycle == Lifecycle!Spec

\* A Run that nobody executes and that says it waits can be resumed: its
\* checkpoint is stored.
WaitingIsResumable == Quiet /\ run.status = "waiting" => checkpoint # 0

\* When no call is under way the last boundary event agrees with the status,
\* and at most one event is terminal, so that streams end where the Run does.
EventsAgree ==
    /\ Quiet /\ run.status \in Terminal \cup {"waiting"} =>
          events # <<>> /\ events[Len(events)] = run.status
    /\ Cardinality({i \in DOMAIN events : events[i] \in Terminal}) <= 1

\* What docs/CONVERSATIONS.md says: a Run that has ended, as its clients see
\* it, has released its Conversation. A strategy that ends the Run inside the
\* loop saves it before (README, section 4).
ReleasedBeforeTerminal == run.status \in Terminal => turn \in Terminal \cup {"none"}

\* What docs/RUNS.md says: a cancellation that has finalized a waiting Run
\* leaves it cancelled and without checkpoint. The call that asked may still be
\* writing (README, section 4).
CancelFinalizes ==
    (\E c \in Canceller : pc[c] = "finalized") /\ Quiet =>
        run.status = "cancelled" /\ checkpoint = 0

\* What docs/RUNS.md says: a call whose task was cancelled leaves an ended Run
\* and no checkpoint behind. Not when the Turn was finished already (README,
\* section 4).
InterruptionFinalizes ==
    (\E e \in Executor : pc[e] = "interrupted") /\ Quiet /\ run.status # "none" =>
        run.status \in Terminal /\ checkpoint = 0

\* What docs/IMPLEMENTATION_PLAN.md says: once no call is under way, a terminal
\* event of the Run names its status. A resume that comes early breaks it
\* (README, section 4).
TerminalStateAgrees ==
    Quiet => \A i \in DOMAIN events : events[i] \in Terminal => run.status = events[i]

\* What docs/RUNS.md says: a resume continues the wait it has validated. It may
\* claim the next one (README, section 4).
AnswersItsQuestion ==
    [][\A e \in Executor : pc[e] = "claim" /\ pc'[e] = "prepare" =>
            ctx'[e].question = asked[e]]_vars

\* An executor of a Run whose cancellation is accepted comes to its end.
StopsWhenCancelled ==
    \A e \in Executor : (run.cancel /\ pc[e] # "idle") ~> Ended(e)
=============================================================================
