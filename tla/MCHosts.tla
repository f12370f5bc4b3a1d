------------------------------- MODULE MCHosts -------------------------------
(***************************************************************************)
(* The two programs that host an Agent, in one run of TLC: the Raft worker *)
(* in a thread and in a direct conversation, and the tasks of the HTTP     *)
(* server.  They share no state: in a behaviour one of them moves, which   *)
(* `host' names, and the other stays in its initial state.                 *)
(***************************************************************************)
EXTENDS RaftWorker, TLC

CONSTANTS m1, m2, m3, c1, c2, t1, t2

VARIABLES
    host,
    \* of ServerTasks
    stored, task, handles, watchers, request, about, operation, operations, shutdowns

Plain == [conv |-> c1, task |-> NoTask, addressed |-> TRUE, ignored |-> FALSE, mine |-> FALSE]

\* A thread whose second message mentions nobody, and a task that is assigned already.
MCThread ==
    m1 :> [Plain EXCEPT !.task = t1] @@ m2 :> [Plain EXCEPT !.addressed = FALSE]
    @@ m3 :> [Plain EXCEPT !.conv = c2, !.task = t2, !.mine = TRUE]

\* A direct conversation on a task, and a receipt of the system.
MCDirect ==
    m1 :> [Plain EXCEPT !.task = t1] @@ m2 :> Plain @@ m3 :> [Plain EXCEPT !.conv = c2, !.ignored = TRUE]

Direct == INSTANCE RaftWorker WITH
              Info <- MCDirect, Durable <- TRUE, Unparseable <- TRUE,
              MaxCrashes <- 0, MaxErrors <- 3

Server == INSTANCE ServerTasks WITH
              RunId <- {"a", "b"}, Request <- {"p", "q", "r"},
              GoneInStart <- FALSE, MaxShutdowns <- 0

ASSUME Direct!RaftAssumption /\ Server!ServerAssumption

serverVars == <<stored, task, handles, watchers, request, about, operation, operations, shutdowns>>

MCInit == /\ host \in {"thread", "direct", "server"}
          /\ IF host = "direct" THEN Direct!Init ELSE Init
          /\ Server!Init
          /\ host # "server" => about = [q \in {"p", "q", "r"} |-> "a"]

MCNext == /\ \/ host = "thread" /\ Next /\ UNCHANGED serverVars
             \/ host = "direct" /\ Direct!Next /\ UNCHANGED serverVars
             \/ host = "server" /\ Server!Next /\ UNCHANGED vars
          /\ UNCHANGED host

MCSpec == MCInit /\ [][MCNext]_<<host, vars, serverVars>>

-----------------------------------------------------------------------------
\* The journal, the stores and the process of the worker stay in their types.
WorkerTypeOK == IF host = "direct" THEN Direct!TypeOK ELSE TypeOK

\* RaftWorker.run_once: a message the service has acknowledged is in the spool
\* until it is dealt with, whichever command fails and wherever the worker dies,
\* unless its check never returned or its output was refused by the parser.
AcknowledgedIsSpooled == host = "thread" => NothingLost

\* _claim_if_needed: the Agent works on a task, and a task moves to review, only
\* while the Agent holds the claim, also when the claim timed out, lost a race
\* against another agent, or is replayed after a restart.
OnlyClaimedTasks == IF host = "direct" THEN Direct!ClaimedBeforeWork ELSE ClaimedBeforeWork

\* In a direct conversation a completed task is in review when the worker rests,
\* also when its Run waited for a second message and commands failed on the way.
DirectTasksReviewed == host = "direct" => Direct!CompletedTasksReviewed

\* A message of a direct conversation is not completed with its reply unsent.
DirectRepliesArrive == host = "direct" => RepliesArrive

\* RunTaskManager: every task that works is held by the manager, or by the request
\* that still starts it, while clients of resumes go away at any time.
RetainedWhileActive == Server!RetainedWhileActive

\* What the worker has on disk is enough to restart from: acknowledged messages are
\* in the spool, and it works on no task that it has not claimed.
JournalInv == WorkerTypeOK /\ AcknowledgedIsSpooled /\ OnlyClaimedTasks

\* A reply is sent twice only when it is unknown whether it was sent or the list of
\* completed messages has dropped its message; in a direct conversation it does
\* arrive, and a completed task reaches review.
RepliesSettled == RepliedOnce /\ DirectRepliesArrive /\ DirectTasksReviewed
=============================================================================
