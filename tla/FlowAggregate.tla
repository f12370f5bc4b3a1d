--------------------------- MODULE FlowAggregate ---------------------------
(***************************************************************************)
(* What FlowLifecycle promises: the stored Flow changes as if each call of *)
(* a lifecycle method were applied to the current state in one step.  No   *)
(* call works on an old state and none undoes another.                     *)
(***************************************************************************)
EXTENDS FlowRun

VARIABLE flow

Init == flow = NoFlow

Create == flow = NoFlow /\ flow' = Created

Apply == flow.revision > 0 /\ Transition(flow, flow')

Next == Create \/ Apply

Spec == Init /\ [][Next]_flow
=============================================================================
