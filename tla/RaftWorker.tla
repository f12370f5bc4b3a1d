----------------------------- MODULE RaftWorker -----------------------------
(***************************************************************************)
(* The worker that maps Raft messages onto Runs (integrations/raft/): the  *)
(* bridge wakes it, it drains the inbox into a spool, and handles the      *)
(* messages of the spool one by one: claim the task, run or resume the     *)
(* Agent, cache the reply, send it, move the task to review.  Every phase  *)
(* is journalled, and the process may die or a command may fail between    *)
(* any two of them.                                                        *)
(***************************************************************************)
EXTENDS Naturals, Sequences, FiniteSets, SequencesExt

CONSTANTS
    Msg, Conv, Task,
    Info,              \* of a message: its conversation, its task or NoTask, whether it is
                       \* addressed to the Agent, to be ignored, or on a task the Agent has
    NoTask, NoRun,
    BatchSize,         \* bound on the messages one check returns; the code has none but
                       \* that on the bytes of its output (cli_max_output_bytes)
    CompletedLimit,    \* processed_message_limit
    Durable,           \* TRUE: the Run and checkpoint stores survive a crash
    Unparseable,       \* TRUE: a check may return output the parser refuses
    MaxCrashes, MaxErrors      \* bounds on dying processes and failing commands

ASSUME RaftAssumption ==
    /\ Info \in [Msg -> [conv : Conv, task : Task \cup {NoTask}, addressed : BOOLEAN,
                        ignored : BOOLEAN, mine : BOOLEAN]]
    /\ NoTask \notin Task /\ NoRun \notin Msg
    /\ {BatchSize, CompletedLimit, MaxCrashes, MaxErrors} \subseteq Nat
    /\ 0 < BatchSize /\ 0 < CompletedLimit
    /\ {Durable, Unparseable} \subseteq BOOLEAN

VARIABLES
    \* the Raft service
    inbox,       \* messages not yet delivered
    acked,       \* messages it has delivered
    owner,       \* who has claimed a task
    review,      \* tasks moved to in_review
    sent,        \* replies received, by the message they answer
    wake,        \* the event of the wake server
    \* the files of the worker
    spool, completed, claimed, replied, cached, waiting, openTask,
    \* the stores of the Agent: a Run is named by the message it was started for
    run,
    \* the process
    pc, todo, active,
    \* for the properties
    done, forgotten, lost, answered, ran, unsure, crashes, errors

service == <<inbox, acked, owner, review, sent, wake>>
journal == <<completed, claimed, replied, cached, waiting, openTask>>
history == <<done, forgotten, lost, answered, ran, unsure>>
faults == <<crashes, errors>>
vars == <<inbox, acked, owner, review, sent, wake, spool, completed, claimed, replied, cached, waiting,
          openTask, run, pc, todo, active, done, forgotten, lost, answered, ran, unsure, crashes, errors>>

NoSpool == <<>>
NoReply == [review |-> FALSE, task |-> NoTask, known |-> FALSE]

Init ==
    /\ inbox = <<>> /\ acked = {} /\ wake = FALSE
    /\ owner = [t \in Task |-> IF \E m \in Msg : Info[m].task = t /\ Info[m].mine THEN "me" ELSE "nobody"]
    /\ review = {}
    /\ sent = [m \in Msg |-> 0]
    /\ spool = NoSpool /\ completed = <<>> /\ claimed = {} /\ replied = {}
    /\ cached = [m \in Msg |-> NoReply]
    /\ waiting = [c \in Conv |-> NoRun] /\ openTask = [c \in Conv |-> NoTask]
    /\ run = [m \in Msg |-> "none"]
    /\ pc = "down" /\ todo = <<>> /\ active = NoRun
    /\ done = {} /\ forgotten = {} /\ lost = {} /\ answered = {} /\ unsure = {}
    /\ ran = [m \in Msg |-> 0]
    /\ crashes = 0 /\ errors = 0

-----------------------------------------------------------------------------
\* The service, its bridge and its other agents.

Post(m) ==
    /\ m \notin acked \cup ToSet(inbox)
    /\ inbox' = Append(inbox, m)
    /\ UNCHANGED <<acked, owner, review, sent, wake, spool, journal, run, pc, todo, active, history, faults>>

\* The bridge posts a wake request while there are messages; the handler sets the event.
Wake ==
    /\ pc # "down" /\ inbox # <<>> /\ ~wake
    /\ wake' = TRUE
    /\ UNCHANGED <<inbox, acked, owner, review, sent, spool, journal, run, pc, todo, active, history, faults>>

OtherClaims(t) ==
    /\ owner[t] = "nobody"
    /\ owner' = [owner EXCEPT ![t] = "other"]
    /\ UNCHANGED <<inbox, acked, review, sent, wake, spool, journal, run, pc, todo, active, history, faults>>

-----------------------------------------------------------------------------
\* run_forever: a drain at the start and after every wake.
Start ==
    /\ pc = "down"
    /\ pc' = "drain" /\ wake' = FALSE
    /\ UNCHANGED <<inbox, acked, owner, review, sent, spool, journal, run, todo, active, history, faults>>

Woken ==
    /\ pc = "idle" /\ wake
    /\ wake' = FALSE /\ pc' = "drain"
    /\ UNCHANGED <<inbox, acked, owner, review, sent, spool, journal, run, todo, active, history, faults>>

\* run_once: a spool is replayed, else the service is asked and acknowledges
\* what it returns.
Drain ==
    /\ pc = "drain"
    /\ IF spool # NoSpool
       THEN todo' = spool /\ pc' = "next" /\ UNCHANGED <<inbox, acked>>
       ELSE IF inbox = <<>>
            THEN pc' = "idle" /\ UNCHANGED <<inbox, acked, todo>>
            ELSE LET n == Min({BatchSize, Len(inbox)}) IN
                 /\ todo' = SubSeq(inbox, 1, n)
                 /\ inbox' = SubSeq(inbox, n + 1, Len(inbox))
                 /\ acked' = acked \cup ToSet(todo')
                 /\ pc' = "fetched"
    /\ UNCHANGED <<owner, review, sent, wake, spool, journal, run, active, history, faults>>

\* The parser refuses the output that the service has acknowledged.
ParseFails ==
    /\ Unparseable /\ pc = "fetched"
    /\ errors < MaxErrors /\ errors' = errors + 1
    /\ pc' = "down" /\ todo' = <<>>
    /\ UNCHANGED <<service, spool, journal, run, active, history, crashes>>

\* Faulty variant: the messages are handled without a spool.
WriteSpoolNot ==
    /\ pc = "fetched"
    /\ pc' = "next"
    /\ UNCHANGED <<service, spool, journal, run, todo, active, history, faults>>

WriteSpool ==
    /\ pc = "fetched"
    /\ spool' = todo
    /\ pc' = "next"
    /\ UNCHANGED <<service, journal, run, todo, active, history, faults>>

\* Faulty variant: the spool stays.
ClearSpoolNot ==
    /\ pc = "next" /\ todo = <<>>
    /\ pc' = "idle"
    /\ UNCHANGED <<service, spool, journal, run, todo, active, history, faults>>

ClearSpool ==
    /\ pc = "next" /\ todo = <<>>
    /\ spool' = NoSpool
    /\ pc' = "idle"
    /\ UNCHANGED <<service, journal, run, todo, active, history, faults>>

-----------------------------------------------------------------------------
\* _process_message

Current == Head(todo)
Key == Info[Current].conv

\* The bounded list of mark_completed.
Recorded(m) ==
    LET all == Append(completed, m)
    IN  IF Len(all) > CompletedLimit THEN SubSeq(all, Len(all) - CompletedLimit + 1, Len(all)) ELSE all

\* mark_completed: the phases of the message are dropped from the journal, and the
\* oldest entry from a full list, perhaps one of the spool (forgotten).
MarkCompleted ==
    /\ completed' = Recorded(Current)
    /\ claimed' = claimed \ {Current} /\ replied' = replied \ {Current}
    /\ cached' = [cached EXCEPT ![Current] = NoReply]
    /\ done' = done \cup {Current}
    /\ forgotten' = forgotten \cup ((ToSet(completed) \ ToSet(completed')) \cap ToSet(spool))
    /\ todo' = Tail(todo) /\ pc' = "next"

ShouldHandle == ~Info[Current].ignored /\ (waiting[Key] # NoRun \/ Info[Current].addressed)

Skip ==
    /\ pc = "next" /\ todo # <<>> /\ Current \in ToSet(completed)
    /\ todo' = Tail(todo)
    /\ UNCHANGED <<service, spool, journal, run, pc, active, history, faults>>

Ignore ==
    /\ pc = "next" /\ todo # <<>> /\ Current \notin ToSet(completed) /\ ~ShouldHandle
    /\ MarkCompleted
    /\ UNCHANGED <<service, spool, waiting, openTask, run, active, lost, answered, ran, unsure, faults>>

Begin ==
    /\ pc = "next" /\ todo # <<>> /\ Current \notin ToSet(completed) /\ ShouldHandle
    /\ pc' = CASE Info[Current].task = NoTask \/ Current \in claimed -> "execute"
               [] Info[Current].mine /\ Current \notin claimed -> "claimed"
               [] OTHER -> "claim"
    /\ UNCHANGED <<service, spool, journal, run, todo, active, history, faults>>

\* claim_task: a task of another agent is left alone; claiming one's own again succeeds.
Claim ==
    /\ pc = "claim"
    /\ LET t == Info[Current].task IN
       IF owner[t] = "other"
       THEN MarkCompleted /\ UNCHANGED owner
       ELSE /\ owner' = [owner EXCEPT ![t] = "me"]
            /\ pc' = "claimed"
            /\ UNCHANGED <<completed, claimed, replied, cached, done, forgotten, todo>>
    /\ UNCHANGED <<inbox, acked, review, sent, wake, spool, waiting, openTask, run, active,
                   lost, answered, ran, unsure, faults>>

SaveClaim ==
    /\ pc = "claimed"
    /\ claimed' = claimed \cup {Current}
    /\ pc' = "execute"
    /\ UNCHANGED <<service, spool, completed, replied, cached, waiting, openTask, run, todo, active, history, faults>>

-----------------------------------------------------------------------------
\* _execute and the Agent

\* Faulty variant: only a reply that was sent counts.
HasReplySent(m) == m \in replied

HasReply(m) == cached[m].known

\* A reply from before an interruption is not computed again.
UseCachedReply ==
    /\ pc = "execute" /\ HasReply(Current)
    /\ pc' = "send"
    /\ UNCHANGED <<service, spool, journal, run, todo, active, history, faults>>

\* The message continues the waiting Run of its conversation.  A Run that is gone
\* or no longer waits is forgotten; a checkpoint that is gone raises.
ResumeRun ==
    /\ pc = "execute" /\ ~HasReply(Current) /\ waiting[Key] # NoRun
    /\ LET r == waiting[Key] IN
       CASE run[r] = "waiting" ->
              /\ run' = [run EXCEPT ![r] = "claimed"]
              /\ active' = r /\ pc' = "resume"
              /\ ran' = [ran EXCEPT ![Current] = @ + 1]
              /\ UNCHANGED <<waiting, openTask, todo>>
         [] run[r] = "claimed" ->
              pc' = "down" /\ todo' = <<>> /\ UNCHANGED <<run, active, ran, waiting, openTask>>
         [] OTHER ->
              /\ waiting' = [waiting EXCEPT ![Key] = NoRun]
              /\ openTask' = [openTask EXCEPT ![Key] = NoTask]
              /\ pc' = "run" /\ UNCHANGED <<run, active, ran, todo>>
    /\ UNCHANGED <<service, spool, completed, claimed, replied, cached, done, forgotten, lost, answered, unsure, faults>>

\* The resumed Run is saved as running.
ResumeSaved ==
    /\ pc = "resume"
    /\ run' = [run EXCEPT ![active] = "running"]
    /\ pc' = "agent"
    /\ UNCHANGED <<service, spool, journal, todo, active, history, faults>>

NewRun ==
    /\ pc = "execute" /\ ~HasReply(Current) /\ waiting[Key] = NoRun
    /\ pc' = "run"
    /\ UNCHANGED <<service, spool, journal, run, todo, active, history, faults>>

\* Agent.run under the id of the message; RunStore.create raises when it exists.
RunAgent ==
    /\ pc = "run"
    /\ IF run[Current] # "none"
       THEN pc' = "down" /\ todo' = <<>> /\ UNCHANGED <<run, active, ran>>
       ELSE /\ run' = [run EXCEPT ![Current] = "running"]
            /\ active' = Current /\ pc' = "agent"
            /\ ran' = [ran EXCEPT ![Current] = @ + 1]
            /\ UNCHANGED todo
    /\ UNCHANGED <<service, spool, journal, done, forgotten, lost, answered, unsure, faults>>

AgentReturns(result) ==
    /\ pc = "agent"
    /\ run' = [run EXCEPT ![active] = result]
    /\ pc' = "cache"
    /\ UNCHANGED <<service, spool, journal, todo, active, history, faults>>

\* The task a message is about: its own, else the open one of the conversation.
TaskForMessage == IF Info[Current].task # NoTask THEN Info[Current].task ELSE openTask[Key]

\* _cache_reply
CacheReply ==
    /\ pc = "cache"
    /\ LET result == run[active]
           task == TaskForMessage
       IN  /\ waiting' = [waiting EXCEPT ![Key] = IF result = "waiting" THEN active ELSE NoRun]
           /\ openTask' = IF result = "waiting" THEN [openTask EXCEPT ![Key] = task] ELSE openTask
           /\ cached' = [cached EXCEPT ![Current] =
                            [review |-> result = "completed" /\ task # NoTask, task |-> task, known |-> TRUE]]
    /\ answered' = answered \cup {Current}
    /\ active' = NoRun /\ pc' = "send"
    /\ UNCHANGED <<service, spool, completed, claimed, replied, run, todo, done, forgotten, lost, ran, unsure, faults>>

\* Faulty variant: whether the reply was sent is not asked.
SendAgain ==
    /\ pc = "send"
    /\ sent' = [sent EXCEPT ![Current] = @ + 1] /\ pc' = "sent"
    /\ UNCHANGED <<inbox, acked, owner, review, wake, spool, journal, run, todo, active, history, faults>>

Send ==
    /\ pc = "send"
    /\ IF Current \in replied
       THEN pc' = "update" /\ UNCHANGED sent
       ELSE sent' = [sent EXCEPT ![Current] = @ + 1] /\ pc' = "sent"
    /\ UNCHANGED <<inbox, acked, owner, review, wake, spool, journal, run, todo, active, history, faults>>

SaveReplied ==
    /\ pc = "sent"
    /\ replied' = replied \cup {Current}
    /\ pc' = "update"
    /\ UNCHANGED <<service, spool, completed, claimed, cached, waiting, openTask, run, todo, active, history, faults>>

UpdateTask ==
    /\ pc = "update" /\ cached[Current].review
    /\ review' = review \cup {cached[Current].task}
    /\ pc' = "updated"
    /\ UNCHANGED <<inbox, acked, owner, sent, wake, spool, journal, run, todo, active, history, faults>>

SaveUpdated ==
    /\ pc = "updated"
    /\ openTask' = [openTask EXCEPT ![Key] = NoTask]
    /\ waiting' = [waiting EXCEPT ![Key] = NoRun]
    /\ pc' = "mark"
    /\ UNCHANGED <<service, spool, completed, claimed, replied, cached, run, todo, active, history, faults>>

Finish ==
    /\ pc = "mark" \/ (pc = "update" /\ ~cached[Current].review)
    /\ MarkCompleted
    /\ UNCHANGED <<service, spool, waiting, openTask, run, active, lost, answered, ran, unsure, faults>>

-----------------------------------------------------------------------------
\* A command that does not return a result, with or without its effect, or a
\* bridge that exits: the exception leaves run_forever, which is called again.
Commanding ==
    \/ pc \in {"idle", "fetched", "claim", "claimed", "sent", "updated"}
    \/ pc = "drain" /\ spool = NoSpool
    \/ pc = "send" /\ Current \notin replied
    \/ pc = "update" /\ cached[Current].review

Unwound ==
    /\ pc' = "down" /\ todo' = <<>> /\ active' = NoRun
    /\ lost' = IF pc = "fetched" THEN lost \cup ToSet(todo) ELSE lost
    /\ unsure' = IF pc = "sent" THEN unsure \cup {Current} ELSE unsure
    /\ UNCHANGED <<service, spool, journal, done, forgotten, answered, ran>>

CommandFails ==
    /\ Commanding
    /\ errors < MaxErrors /\ errors' = errors + 1
    /\ Unwound
    /\ UNCHANGED <<run, crashes>>

\* A command that exits with an error is a claim that failed.
ClaimFails ==
    /\ pc = "claim"
    /\ errors < MaxErrors /\ errors' = errors + 1
    /\ MarkCompleted
    /\ UNCHANGED <<service, spool, waiting, openTask, run, active, lost, answered, ran, unsure, crashes>>

\* The process dies; stores in its memory die with it.
Crash ==
    /\ pc # "down"
    /\ crashes < MaxCrashes /\ crashes' = crashes + 1
    /\ Unwound
    /\ run' = IF Durable THEN run ELSE [m \in Msg |-> "none"]
    /\ UNCHANGED errors

-----------------------------------------------------------------------------
Process ==
    \/ Skip \/ Ignore \/ Begin \/ Claim \/ SaveClaim
    \/ UseCachedReply \/ ResumeRun \/ ResumeSaved \/ NewRun \/ RunAgent
    \/ \E result \in {"waiting", "completed", "failed"} : AgentReturns(result)
    \/ CacheReply \/ Send \/ SaveReplied \/ UpdateTask \/ SaveUpdated \/ Finish

Worker == Start \/ Woken \/ Drain \/ WriteSpool \/ ClearSpool \/ Process

Next ==
    \/ \E m \in Msg : Post(m)
    \/ Wake
    \/ \E t \in Task : OtherClaims(t)
    \/ Worker
    \/ ParseFails \/ CommandFails \/ ClaimFails \/ Crash

Spec == Init /\ [][Next]_vars

\* The process runs and is restarted, the Agent returns, and the bridge wakes
\* the worker while messages are pending.
FairSpec == Spec /\ WF_vars(Worker) /\ WF_vars(Wake)

-----------------------------------------------------------------------------
\* Type invariant: the journal, the stores and the process stay in their types.
TypeOK ==
    /\ inbox \in Seq(Msg) /\ spool \in Seq(Msg) /\ todo \in Seq(Msg) /\ completed \in Seq(Msg)
    /\ Len(completed) <= CompletedLimit /\ Len(spool) <= BatchSize
    /\ acked \cup claimed \cup replied \cup done \cup forgotten \cup lost \cup answered
          \cup unsure \subseteq Msg
    /\ owner \in [Task -> {"nobody", "me", "other"}] /\ review \subseteq Task /\ wake \in BOOLEAN
    /\ cached \in [Msg -> [review : BOOLEAN, task : Task \cup {NoTask}, known : BOOLEAN]]
    /\ waiting \in [Conv -> Msg \cup {NoRun}] /\ openTask \in [Conv -> Task \cup {NoTask}]
    /\ run \in [Msg -> {"none", "running", "waiting", "claimed", "completed", "failed"}]
    /\ sent \in [Msg -> Nat] /\ ran \in [Msg -> Nat] /\ active \in Msg \cup {NoRun}
    /\ crashes \in 0 .. MaxCrashes /\ errors \in 0 .. MaxErrors
    /\ pc \in {"down", "idle", "drain", "fetched", "next", "claim", "claimed", "execute", "resume",
               "run", "agent", "cache", "send", "sent", "update", "updated", "mark"}

\* A message the service has acknowledged is in the spool until it is dealt with;
\* only one whose check never returned, or whose process died before the spool
\* was written, is gone (RaftWorker.run_once).
NothingLost ==
    \A m \in acked :
        \/ m \in done \cup lost \cup ToSet(spool)
        \/ pc = "fetched" /\ m \in ToSet(todo)

\* Once the reply to a message is journalled no failure of a command and no
\* restart gives the message to the Agent again, unless the bounded list of
\* completed messages has dropped it while it was still in the spool; and the
\* list does so only to a spool of more messages than its limit
\* (RaftWorkerStateStore).
NoRerun ==
    [][/\ \A m \in answered \ forgotten : ran'[m] = ran[m]
       /\ forgotten' # forgotten => Len(spool) > CompletedLimit]_vars

\* The Agent works on a task, and a task moves to review, only while the Agent
\* holds the claim, also when the claim timed out, lost a race against another
\* agent, or is replayed after a restart (_claim_if_needed).
ClaimedBeforeWork ==
    /\ \A m \in Msg : ran[m] > 0 /\ Info[m].task # NoTask => owner[Info[m].task] = "me"
    /\ \A t \in review : owner[t] = "me"

\* A reply is sent a second time only when nobody knows whether the first one
\* arrived, because the command timed out or the process died before the journal
\* was written, or when the bounded list has dropped the message from under the
\* spool (_process_message).
RepliedOnce == \A m \in Msg : sent[m] > 1 => m \in unsure \cup forgotten

\* A message is not marked as completed with its reply still unsent.
RepliesArrive == \A m \in done \cap answered : sent[m] > 0

\* When the worker rests, a task whose Run has completed is in review, also when
\* the Run waited for a second message and commands failed on the way.
CompletedTasksReviewed ==
    pc = "idle" =>
        \A m \in Msg : run[m] = "completed" /\ Info[m].task # NoTask => Info[m].task \in review

\* What docs/RAFT.md says of reviews: a task whose Run has failed is not moved
\* to review by a later message of its conversation. The code does so (README,
\* section 4).
FailedTasksNotReviewed ==
    \A m \in Msg : run[m] = "failed" => Info[m].task \notin review

\* Every message that is posted is dealt with in the end, whatever fails in
\* between, except the ones whose delivery was lost (run_forever).
EveryMessageHandled ==
    \A m \in Msg : m \in acked \cup ToSet(inbox) ~> m \in done \cup lost

=============================================================================
