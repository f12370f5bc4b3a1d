----------------------------- MODULE MCToolCalls -----------------------------
(***************************************************************************)
(* What surrounds a Tool call, in one run of TLC: the side effects it      *)
(* records (SideEffects), the batch it belongs to (ToolBatch, with the     *)
(* model_tool and with the ReAct strategy) and the resources it uses       *)
(* (ResourceScope, with and without faults inside close).  They share no   *)
(* state: in a behaviour one of them moves, which `part' names, and the    *)
(* others stay in their initial state.                                     *)
(***************************************************************************)
EXTENDS SideEffects

CONSTANTS unsafe, idem, a1, a2, a3

VARIABLES
    part,
    \* of ToolBatch
    status, cancel, at, steps, tools, iteration, calls, batch, observed, answers, requested,
    suspended, pending, decision, approved, approvals, ran, duplicate, failures,
    \* of ResourceScope
    state, order, live, entered, reported, events, scopeAt, start, want, rest, outcome,
    faults, segments

MCCall == {unsafe, idem}
MCAttempt == {a1, a2, a3}

Batch == INSTANCE ToolBatch WITH
             pc <- at, Tool <- {"read", "write"}, Confirmed <- {"write"}, BatchSize <- 2,
             MaxSteps <- 3, MaxToolCalls <- 4, Threshold <- 3, MaxFailures <- 2,
             ReAct <- FALSE, MaxIterations <- 0

React == INSTANCE ToolBatch WITH
             pc <- at, Tool <- {"read", "write"}, Confirmed <- {"write"}, BatchSize <- 2,
             MaxSteps <- 3, MaxToolCalls <- 3, Threshold <- 2, MaxFailures <- 2,
             ReAct <- TRUE, MaxIterations <- 2

Scope == INSTANCE ResourceScope WITH
             pc <- scopeAt, failures <- reported, Specs <- <<"sandbox", "browser", "client">>,
             Eager <- {"sandbox", "client"}, MaxFaults <- 4, MaxSegments <- 2,
             FaultsInClose <- FALSE

Closing == INSTANCE ResourceScope WITH
             pc <- scopeAt, failures <- reported, Specs <- <<"sandbox", "browser", "client">>,
             Eager <- {"sandbox", "client"}, MaxFaults <- 4, MaxSegments <- 2,
             FaultsInClose <- TRUE

ASSUME Batch!BatchAssumption /\ React!BatchAssumption /\ Scope!ResourceAssumption

toolVars ==
    <<status, cancel, at, steps, tools, iteration, calls, batch, observed, answers, requested,
      suspended, pending, decision, approved, approvals, ran, duplicate, failures>>

scopeVars ==
    <<state, order, live, entered, reported, events, scopeAt, start, want, rest, outcome,
      faults, segments>>

MCInit == /\ part \in {"effects", "batch", "react", "scope", "closing"}
          /\ Init /\ Batch!Init /\ Scope!Init
          /\ part # "effects" => call = [a \in Attempt |-> unsafe]

MCNext == /\ \/ part = "effects" /\ Next /\ UNCHANGED <<toolVars, scopeVars>>
             \/ part = "batch" /\ Batch!Next /\ UNCHANGED <<vars, scopeVars>>
             \/ part = "react" /\ React!Next /\ UNCHANGED <<vars, scopeVars>>
             \/ part = "scope" /\ Scope!Next /\ UNCHANGED <<vars, toolVars>>
             \/ part = "closing" /\ Closing!Next /\ UNCHANGED <<vars, toolVars>>
          /\ UNCHANGED part

\* An attempt that is scheduled goes on, and the provider and the Tools answer.
MCFairSpec ==
    /\ MCInit /\ [][MCNext]_<<part, vars, toolVars, scopeVars>>
    /\ \A a \in Attempt : WF_vars(part = "effects" /\ Step(a))
    /\ WF_toolVars(part = "react" /\ React!Advance)

-----------------------------------------------------------------------------
\* The loop of _start_or_replay ends: an attempt is either over or dead in the
\* end, whatever the others do to the revision it read.
EveryAttemptEnds == part = "effects" => AttemptsEnd

\* Whatever the model keeps asking for, the Run of the ReAct strategy ends or waits
\* for somebody: its iterations, or a limit of the profile, are used up.
ReactStops == part = "react" /\ status = "running" ~> status # "running"

\* ResourceManager.get: each resource is entered at most once in an execution
\* segment, whatever failed or timed out before.
OncePerSegment == Scope!OncePerSegment

\* ResourceManager.close: unless close itself is disturbed no resource outlives
\* its segment, also after a partial acquisition, a timeout or a cancellation.
AllReleased == part = "scope" => Scope!AllReleased

\* A resource is exited only when everything acquired after it has been exited.
ReverseOrder == Scope!ReverseOrder

\* When the last event of a segment is sent, the end of every resource was told
\* once, after its acquisition, and a failed release is a failure of the Run.
LifecycleTold == Scope!LifecycleTold

\* execute_tool_batch: whatever is suspended, confirmed, rejected, redirected or
\* cancelled, calls run and are answered once, only with the approval they need,
\* within the budget, and a batch is observed completely.
BatchInv == IF part = "react" THEN React!BatchInv ELSE Batch!BatchInv

\* ResourceManager: a resource is entered once in a segment, exited in reverse order
\* and before the segment ends, and its events tell so.
ResourcesReleased == [](OncePerSegment /\ AllReleased /\ LifecycleTold) /\ ReverseOrder

\* Attempts at a Tool come to their end, and so does the loop that asks for Tools.
ToolCallsEnd == EveryAttemptEnds /\ ReactStops
=============================================================================
