----------------------------- MODULE MCAgentRun -----------------------------
(***************************************************************************)
(* Two instances of AgentRun in one run of TLC; Agent.run is e1, the other *)
(* executors resume.  In `races' two resumes and a cancellation come at    *)
(* any moment; in `faults' clients resume when they were told that the Run *)
(* waits, while a store call fails and a task is cancelled.                *)
(***************************************************************************)
EXTENDS AgentRun, TLC

CONSTANTS e1, e2, e3, c1

VARIABLE calls

MCFirst == e1
Resumes == Permutations(Executor \ {e1})

Faults == INSTANCE AgentRun WITH
              Canceller <- {}, MaxErrors <- 1, MaxInterrupts <- 1, Sequential <- TRUE

MCInit == \/ calls = "races" /\ Init
          \/ calls = "faults" /\ Faults!Init

MCNext == /\ \/ calls = "races" /\ Next
             \/ calls = "faults" /\ Faults!Next
          /\ UNCHANGED calls

MCSpec == MCInit /\ [][MCNext]_<<vars, calls>>

NoFault == calls = "faults" /\ errors = 0 /\ interrupts = 0

-----------------------------------------------------------------------------
\* Every variable stays in its domain, in both instances.
AlwaysTypeOK == IF calls = "races" THEN TypeOK ELSE Faults!TypeOK

\* The stored status implements the state machine of runtime/state_machine.py
\* whatever store call of Agent._execute or _continue_waiting fails and wherever
\* their task is cancelled: it never leaves a terminal status.
StatusFollowsLifecycle ==
    /\ Lifecycle!Init
    /\ [][calls = "faults" => Lifecycle!Next \/ UNCHANGED run.status]_vars

\* Before any fault, a Run at rest that says it waits can be resumed: the
\* checkpoint that AgentRuntime.execute stores belongs to it.
RestingRunIsResumable == NoFault => Faults!WaitingIsResumable

\* Before any fault, the events tell what the Run at rest says, and it ends once.
RestingRunIsAnnounced == NoFault => Faults!EventsAgree

\* A Run at rest can go on or has ended, and its events say so.
RestingRunIsSound == AlwaysTypeOK /\ RestingRunIsResumable /\ RestingRunIsAnnounced
=============================================================================
