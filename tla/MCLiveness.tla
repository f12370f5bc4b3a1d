----------------------------- MODULE MCLiveness -----------------------------
(***************************************************************************)
(* What must eventually happen, in one run of TLC: small instances of the  *)
(* Flow worker, the sequential strategy, an Agent Run, the Raft worker and *)
(* the server's tasks, each under the fairness its module justifies.  They *)
(* share no state: in a behaviour one of them moves, which `part' names,   *)
(* and the others stay in their initial state.                             *)
(***************************************************************************)
EXTENDS SequentialFlow, TLC

CONSTANTS v1, v2, NoWorker, m1, m2, c1, t1, NoTask, NoRaftRun

VARIABLES
    part,
    workFlow, item, lease, workPc, job, todo, workView, workResult, dropped, workFaults,
    run, checkpoint, turn, events, runPc, ctx, seen, exc, asked, errors, interrupts,
    inbox, acked, owner, review, sent, wake, spool, completed, claimed, replied, cached, waiting,
    openTask, raftRun, raftPc, raftTodo, active, done, forgotten, lost, answered, ran, unsure,
    crashes, raftErrors,
    stored, task, handles, watchers, request, about, operation, operations, shutdowns

workVars == <<workFlow, item, lease, workPc, job, todo, workView, workResult, dropped, workFaults>>
runVars == <<run, checkpoint, turn, events, runPc, ctx, seen, exc, asked, errors, interrupts>>
raftVars ==
    <<inbox, acked, owner, review, sent, wake, spool, completed, claimed, replied, cached, waiting,
      openTask, raftRun, raftPc, raftTodo, active, done, forgotten, lost, answered, ran, unsure,
      crashes, raftErrors>>
serverVars == <<stored, task, handles, watchers, request, about, operation, operations, shutdowns>>

-----------------------------------------------------------------------------
\* Two workers, an execute and a cancel command, one fault.
Command == {"execute", "cancel"}

W == INSTANCE FlowWorker WITH
         flow <- workFlow, pc <- workPc, view <- workView, result <- workResult,
         faults <- workFaults, Worker <- {v1, v2}, Work <- Command, Kind <- [k \in Command |-> k],
         Answered <- {}, Results <- {"completed", "waiting", "failed"}, MaxInvocations <- 1,
         MaxFaults <- 1

\* The sequential strategy: a run, a resume and a cancel.
MCCall == {"run", "resume", "cancel"}
MCOp == [c \in MCCall |-> c]

\* A Run, a resume and a cancellation, one cancelled task.
A == INSTANCE AgentRun WITH
         pc <- runPc, Executor <- {"run", "resume"}, First <- "run", Canceller <- {"cancel"},
         MaxWaits <- 1, MaxErrors <- 0, MaxInterrupts <- 1, Sequential <- TRUE

\* Two messages of a conversation on a task, one crash, one failing command.
Message == [conv |-> c1, task |-> NoTask, addressed |-> TRUE, ignored |-> FALSE, mine |-> FALSE]

R == INSTANCE RaftWorker WITH
         NoRun <- NoRaftRun, run <- raftRun, pc <- raftPc, todo <- raftTodo, errors <- raftErrors,
         Msg <- {m1, m2}, Conv <- {c1}, Task <- {t1},
         Info <- m1 :> [Message EXCEPT !.task = t1] @@ m2 :> Message,
         BatchSize <- 2, CompletedLimit <- 2, Durable <- FALSE, Unparseable <- FALSE,
         MaxCrashes <- 1, MaxErrors <- 1

\* Two Runs, two requests whose clients may go away, a shutdown.
Requests == {"first", "second"}

T == INSTANCE ServerTasks WITH
         RunId <- {"a", "b"}, Request <- Requests, GoneInStart <- TRUE, MaxShutdowns <- 1

-----------------------------------------------------------------------------
MCInit ==
    /\ part \in {"worker", "sequential", "run", "raft", "server"}
    /\ Init /\ W!Init /\ A!Init /\ R!Init /\ T!Init
    /\ part # "server" => about = [q \in Requests |-> "a"]

MCNext ==
    /\ \/ part = "worker" /\ W!Next /\ UNCHANGED <<vars, runVars, raftVars, serverVars>>
       \/ part = "sequential" /\ Next /\ UNCHANGED <<workVars, runVars, raftVars, serverVars>>
       \/ part = "run" /\ A!Next /\ UNCHANGED <<workVars, vars, raftVars, serverVars>>
       \/ part = "raft" /\ R!Next /\ UNCHANGED <<workVars, vars, runVars, serverVars>>
       \/ part = "server" /\ T!Next /\ UNCHANGED <<workVars, vars, runVars, raftVars>>
    /\ UNCHANGED part

\* The fairness of FairSpec of each module, for the part that moves.
Fairness ==
    /\ \A w \in {v1, v2} : WF_workVars(part = "worker" /\ W!Step(w))
    /\ \A k \in Command : SF_workVars(part = "worker" /\ \E w \in {v1, v2} : W!Claim(w, k))
    /\ WF_workVars(part = "worker" /\ W!LeaseExpires /\ ~W!UsesLease(lease.owner))
    /\ \A k \in Command :
          WF_workVars(part = "worker" /\ W!DeliveryExpires(k) /\ ~W!UsesDelivery(item[k].owner, k))
    /\ WF_vars(part = "sequential" /\ Tick)
    /\ \A c \in Call : WF_vars(part = "sequential" /\ Step(c))
    /\ \A e \in {"run", "resume"} : WF_runVars(part = "run" /\ A!Proceed(e))
    /\ WF_raftVars(part = "raft" /\ R!Worker)
    /\ WF_raftVars(part = "raft" /\ R!Wake)
    /\ \A r \in {"a", "b"} : WF_serverVars(part = "server" /\ T!Work(r))
    /\ \A q \in Requests : WF_serverVars(part = "server" /\ T!Serve(q))

MCFairSpec ==
    /\ MCInit
    /\ [][MCNext]_<<part, workVars, vars, runVars, raftVars, serverVars>>
    /\ Fairness

-----------------------------------------------------------------------------
\* FlowPollingWorker: work gets done or blocked, or the Flow ends: no item is
\* claimed and retried for ever while its Flow can still be advanced, whoever
\* crashes on the way.
WorkSettles == part = "worker" => W!WorkSettles

\* SequentialFlowStrategy: every call ends, even if the Agent never answers: the
\* deadline ends its transport, and cancel does not wait for ever for a run.
SequentialCallsEnd == part = "sequential" => CallsEnd

\* AgentRuntime.execute: an executor of a Run whose cancellation is accepted comes
\* to its end, although the strategy would go on.
StopsWhenCancelled == part = "run" => A!StopsWhenCancelled

\* RaftWorker.run_forever: with Runs that live in memory every message is dealt with
\* in the end, whatever fails in between, except the ones whose delivery was lost.
EveryMessageHandled == part = "raft" => R!EveryMessageHandled

\* RunTaskManager: a client that goes away after its resume has consumed the
\* checkpoint does not end the Run, which goes on to its next question or its
\* result; and what the manager holds is let go once its task has ended, however
\* it ended and whether or not anybody still waits for it.
ServerLetsGo == part = "server" => T!ResumedRunGoesOn /\ T!NothingHeldForEver
=============================================================================
