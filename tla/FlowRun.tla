------------------------------ MODULE FlowRun ------------------------------
(***************************************************************************)
(* The Flow aggregate and its pure transitions: flows/lifecycle.py.        *)
(*                                                                         *)
(* A FlowRunState keeps its status, its revision, the statuses of its      *)
(* Agent invocations in order (an invocation is named by its sequence      *)
(* number) and which of them is active (0 for None).  Identity, budget,    *)
(* timestamps and texts are carried along unchanged and left out.  Each    *)
(* method of FlowRunState is a guard (what does not raise) and a value.    *)
(***************************************************************************)
EXTENDS Integers, Sequences

CONSTANT MaxInvocations   \* budget.max_invocations

ASSUME MaxInvocationsAssumption == MaxInvocations \in Nat

ErrorStatus == {"failed", "cancelled", "interrupted", "limit_reached"}

Terminal == ErrorStatus \cup {"completed"}

RunStatus == {"created", "running", "waiting"} \cup Terminal

\* What an Agent invocation may return (AgentResultStatus).
ResultStatus == Terminal \cup {"waiting"}

InvocationStatus == {"running"} \cup ResultStatus

FlowState == [status   : RunStatus,
              revision : Nat,
              inv      : Seq(InvocationStatus),
              active   : Nat]

\* Revision 0 stands for a Flow that is not stored (yet).
NoFlow == [status |-> "created", revision |-> 0, inv |-> <<>>, active |-> 0]

-----------------------------------------------------------------------------
\* FlowRunState.create
Created == [NoFlow EXCEPT !.revision = 1]

CanStart(s) == s.status = "created"

Started(s) == [s EXCEPT !.status = "running", !.revision = s.revision + 1]

CanBegin(s) == /\ s.status = "running"
               /\ s.active = 0
               /\ Len(s.inv) < MaxInvocations

Begun(s) == [s EXCEPT !.inv = Append(s.inv, "running"),
                      !.active = Len(s.inv) + 1,
                      !.revision = s.revision + 1]

\* settle_invocation with a result for invocation i: a result for any other
\* invocation than the active one raises.
CanSettle(s, i) == /\ s.status \in {"running", "waiting"}
                   /\ s.active # 0
                   /\ s.active = i
                   /\ s.inv[i] \in {"running", "waiting"}

Settled(s, i, result) ==
    [s EXCEPT !.status = IF result = "waiting" THEN "waiting" ELSE "running",
              !.inv = [s.inv EXCEPT ![i] = result],
              !.active = IF result = "waiting" THEN i ELSE 0,
              !.revision = s.revision + 1]

CanResume(s, i) == /\ s.status = "waiting"
                   /\ s.active # 0
                   /\ s.active = i
                   /\ s.inv[i] = "waiting"

Resumed(s, i) == [s EXCEPT !.status = "running",
                           !.inv = [s.inv EXCEPT ![i] = "running"],
                           !.revision = s.revision + 1]

CanComplete(s) == /\ s.status = "running"
                  /\ s.active = 0
                  /\ Len(s.inv) > 0
                  /\ \A i \in 1..Len(s.inv) : s.inv[i] = "completed"

Completed(s) == [s EXCEPT !.status = "completed", !.revision = s.revision + 1]

\* _terminate, behind fail, cancel, interrupt and reach_limit.
CanTerminate(s) == s.status \notin Terminal

Terminated(s, status) ==
    [s EXCEPT !.status = status,
              !.inv = IF s.active = 0 THEN s.inv
                      ELSE [s.inv EXCEPT ![s.active] = status],
              !.active = 0,
              !.revision = s.revision + 1]

\* One call of a FlowRunState method takes s to t.
Transition(s, t) ==
    \/ CanStart(s) /\ t = Started(s)
    \/ CanBegin(s) /\ t = Begun(s)
    \/ \E r \in ResultStatus :
          CanSettle(s, s.active) /\ t = Settled(s, s.active, r)
    \/ CanResume(s, s.active) /\ t = Resumed(s, s.active)
    \/ CanComplete(s) /\ t = Completed(s)
    \/ \E e \in ErrorStatus : CanTerminate(s) /\ t = Terminated(s, e)

\* FlowRunState.validate_state.  _evolve copies without validating, and the
\* PostgreSQL adapter validates on every read.
ValidState(s) ==
    /\ Len(s.inv) <= MaxInvocations
    /\ s.active <= Len(s.inv)
    /\ s.status = "created" => s.inv = <<>>
    /\ s.status = "waiting" => s.active # 0 /\ s.inv[s.active] = "waiting"
    /\ s.status = "running" /\ s.active # 0 => s.inv[s.active] = "running"
    /\ s.status \in Terminal => s.active = 0
=============================================================================
