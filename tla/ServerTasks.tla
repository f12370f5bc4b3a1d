----------------------------- MODULE ServerTasks -----------------------------
(***************************************************************************)
(* The background tasks of the HTTP server: RunTaskManager of              *)
(* server/tasks.py, with the requests of server/app.py that start and      *)
(* resume Runs.  asyncio keeps no strong reference to a task, so somebody  *)
(* must hold every task that works.  A request may be cancelled at any     *)
(* await, because its client has gone, and the application may shut down.  *)
(* What a Run does inside its tasks is reduced to how they end; stores    *)
(* that fail in the middle of it are in AgentRun.                          *)
(***************************************************************************)
EXTENDS Naturals, FiniteSets

CONSTANTS
    RunId, Request,
    GoneInStart,    \* may a request be cancelled while it starts a Run
    MaxShutdowns    \* 0 or 1: may the application shut down

ServerAssumption == GoneInStart \in BOOLEAN /\ MaxShutdowns \in {0, 1}

VARIABLES
    stored,      \* what the Run store says of each Run
    task,        \* the task of Agent.start
    handles,     \* _handles
    watchers,    \* _watchers
    request,     \* what each request does
    about,       \* the Run of each request, once it has one
    operation,   \* the task of Agent.resume of a request
    operations,  \* _operations
    shutdowns

vars == <<stored, task, handles, watchers, request, about, operation, operations, shutdowns>>

Init ==
    /\ stored = [r \in RunId |-> "none"]
    /\ task = [r \in RunId |-> "none"]
    /\ handles = {}
    /\ watchers = {}
    /\ request = [q \in Request |-> "idle"]
    /\ about \in [Request -> RunId]
    /\ operation = [q \in Request |-> "none"]
    /\ operations = {}
    /\ shutdowns = 0

Becomes(q, state) == request' = [request EXCEPT ![q] = state]

-----------------------------------------------------------------------------
\* The tasks, as far as the manager sees them.

\* Agent.run creates its record, or raises before (a busy Conversation).
Create(r) ==
    /\ task[r] = "active" /\ stored[r] = "none"
    /\ \/ stored' = [stored EXCEPT ![r] = "running"] /\ UNCHANGED task
       \/ task' = [task EXCEPT ![r] = "raised"] /\ UNCHANGED stored
    /\ UNCHANGED <<handles, watchers, request, about, operation, operations, shutdowns>>

\* It returns a waiting or a final result, or raises.
RunEnds(r) ==
    /\ task[r] = "active" /\ stored[r] = "running"
    /\ \/ /\ stored' \in {[stored EXCEPT ![r] = s] : s \in {"waiting", "finished"}}
          /\ task' = [task EXCEPT ![r] = "returned"]
       \/ /\ stored' = [stored EXCEPT ![r] = "finished"]
          /\ task' = [task EXCEPT ![r] = "raised"]
    /\ UNCHANGED <<handles, watchers, request, about, operation, operations, shutdowns>>

\* Agent.resume claims the checkpoint of a waiting Run, or raises.
ResumeClaims(q) ==
    /\ operation[q] = "new"
    /\ IF stored[about[q]] = "waiting"
       THEN /\ stored' = [stored EXCEPT ![about[q]] = "running"]
            /\ operation' = [operation EXCEPT ![q] = "active"]
       ELSE operation' = [operation EXCEPT ![q] = "ended"] /\ UNCHANGED stored
    /\ UNCHANGED <<task, handles, watchers, request, about, operations, shutdowns>>

ResumeEnds(q) ==
    /\ operation[q] = "active"
    /\ \E s \in {"waiting", "finished"} : stored' = [stored EXCEPT ![about[q]] = s]
    /\ operation' = [operation EXCEPT ![q] = "ended"]
    /\ UNCHANGED <<task, handles, watchers, request, about, operations, shutdowns>>

-----------------------------------------------------------------------------
\* start: the task is created and the store is polled until its record is there ...
Start(q) ==
    /\ request[q] = "idle" /\ shutdowns = 0 /\ task[about[q]] = "none"
    /\ task' = [task EXCEPT ![about[q]] = "active"]
    /\ Becomes(q, "starting")
    /\ UNCHANGED <<stored, handles, watchers, about, operation, operations, shutdowns>>

\* ... then its handle is kept and watched; a task that ended without one raises.
Started(q) ==
    LET r == about[q] IN
    /\ request[q] = "starting"
    /\ \/ /\ stored[r] # "none"
          /\ handles' = handles \cup {r}
          /\ watchers' = watchers \cup {r}
       \/ /\ stored[r] = "none" /\ task[r] = "raised"
          /\ UNCHANGED <<handles, watchers>>
    /\ Becomes(q, "answered")
    /\ UNCHANGED <<stored, task, about, operation, operations, shutdowns>>

\* Faulty variant: the handle is dropped only when the Run returns.
WatchReturned(r) ==
    /\ r \in watchers /\ task[r] \in {"returned", "raised"}
    /\ watchers' = watchers \ {r}
    /\ handles' = IF task[r] = "returned" THEN handles \ {r} ELSE handles
    /\ UNCHANGED <<stored, task, request, about, operation, operations, shutdowns>>

\* Faulty variant: the watcher awaits the record of the Run instead of its task.
WatchRecord(r) ==
    /\ r \in watchers
    /\ watchers' = watchers \ {r}
    /\ handles' = handles \ {r}
    /\ UNCHANGED <<stored, task, request, about, operation, operations, shutdowns>>

\* _watch ends when the Run's task has.
Watch(r) ==
    /\ r \in watchers /\ task[r] \in {"returned", "raised"}
    /\ watchers' = watchers \ {r}
    /\ handles' = handles \ {r}
    /\ UNCHANGED <<stored, task, request, about, operation, operations, shutdowns>>

\* resume: a task of its own, kept until it is done.
Resume(q) ==
    /\ request[q] = "idle" /\ shutdowns = 0
    /\ operation' = [operation EXCEPT ![q] = "new"]
    /\ operations' = operations \cup {q}
    /\ Becomes(q, "resuming")
    /\ UNCHANGED <<stored, task, handles, watchers, about, shutdowns>>

\* _operation_done, and the request that waits behind the shield answers.
OperationDone(q) ==
    /\ q \in operations /\ operation[q] = "ended"
    /\ operations' = operations \ {q}
    /\ IF request[q] = "resuming" THEN Becomes(q, "answered") ELSE UNCHANGED request
    /\ UNCHANGED <<stored, task, handles, watchers, about, operation, shutdowns>>

\* The client has gone and the request is cancelled where it awaits.
Gone(q) ==
    /\ request[q] = "resuming" \/ (GoneInStart /\ request[q] = "starting")
    /\ Becomes(q, "gone")
    /\ UNCHANGED <<stored, task, handles, watchers, about, operation, operations, shutdowns>>

\* close, once the HTTP server has drained its requests: every watcher is cancelled,
\* and its finally clause drops the handle.
Close ==
    /\ shutdowns < MaxShutdowns
    /\ shutdowns' = shutdowns + 1
    /\ \A q \in Request : request[q] \notin {"starting", "resuming"}
    /\ handles' = handles \ watchers
    /\ watchers' = {}
    /\ UNCHANGED <<stored, task, request, about, operation, operations>>

Work(r) == Create(r) \/ RunEnds(r) \/ Watch(r)

Serve(q) == Started(q) \/ ResumeClaims(q) \/ ResumeEnds(q) \/ OperationDone(q)

Next ==
    \/ \E r \in RunId : Work(r)
    \/ \E q \in Request : Start(q) \/ Resume(q) \/ Gone(q) \/ Serve(q)
    \/ Close

Spec == Init /\ [][Next]_vars

\* The event loop runs every task and callback that is ready.
FairSpec == Spec /\ (\A r \in RunId : WF_vars(Work(r))) /\ (\A q \in Request : WF_vars(Serve(q)))

-----------------------------------------------------------------------------
\* Every variable has its type; no Run of a manager is ever stored as interrupted.
TypeOK ==
    /\ stored \in [RunId -> {"none", "running", "waiting", "finished"}]
    /\ task \in [RunId -> {"none", "active", "returned", "raised"}]
    /\ handles \subseteq RunId /\ watchers \subseteq RunId
    /\ request \in [Request -> {"idle", "starting", "resuming", "answered", "gone"}]
    /\ about \in [Request -> RunId]
    /\ operation \in [Request -> {"none", "new", "active", "ended"}]
    /\ operations \subseteq Request
    /\ shutdowns \in 0 .. MaxShutdowns

\* Every task that works is held by the manager, or by the request that still
\* starts it, whether it is the first task of a Run or one that resumes it.
RetainedWhileActive ==
    /\ \A r \in RunId : task[r] = "active" =>
          r \in handles \/ \E q \in Request : about[q] = r /\ request[q] = "starting"
    /\ \A q \in Request : operation[q] \in {"new", "active"} => q \in operations

\* A client that goes away after its resume has consumed the checkpoint does not
\* end the Run: it goes on to its next question or its result.
ResumedRunGoesOn ==
    \A q \in Request :
        operation[q] = "active" ~> stored[about[q]] \in {"waiting", "finished"}

\* What the manager holds is let go once its task has ended, however it ended and
\* whether or not anybody still waits for it.
NothingHeldForEver ==
    /\ \A r \in RunId : r \in handles ~> r \notin handles
    /\ \A q \in Request : q \in operations ~> q \notin operations

=============================================================================
