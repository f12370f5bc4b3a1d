---------------------------- MODULE RunLifecycle ----------------------------
(***************************************************************************)
(* What a Run promises to those who read it: its status moves along the    *)
(* transitions of runtime/state_machine.py and a terminal status is final. *)
(***************************************************************************)
EXTENDS Naturals

VARIABLE status    \* of the stored Run; "none" before it is created

Terminal == {"completed", "failed", "cancelled", "interrupted", "limit_reached"}

Unfinished == {"created", "running", "waiting"}

\* _ALLOWED_TRANSITIONS
Allowed ==
    [s \in Terminal \cup Unfinished |->
        CASE s = "created" -> {"running", "cancelled", "failed", "interrupted"}
          [] s = "running" -> Terminal \cup {"waiting"}
          [] s = "waiting" -> {"running", "cancelled", "failed", "interrupted"}
          [] OTHER -> {}]

Init == status = "none"

Create == status = "none" /\ status' = "created"

\* RuntimeStateMachine.transition_to
TransitionTo == status # "none" /\ status' \in Allowed[status]

Next == Create \/ TransitionTo

Spec == Init /\ [][Next]_status
=============================================================================
