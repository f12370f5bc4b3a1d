-------------------------- MODULE MCFlowRepository --------------------------
(***************************************************************************)
(* The instance of FlowRepository for TLC.  Bounds keeps the states with   *)
(* one lease and a longer Flow, and those with several leases, one after   *)
(* the other expired, and a shorter Flow.                                  *)
(***************************************************************************)
EXTENDS FlowRepository, TLC

CONSTANTS c1, c2

MCClient == {c1, c2}
MCResults == {"completed", "waiting", "failed"}
MCEnds == {"cancelled", "limit_reached"}
Symmetry == Permutations(MCClient)

Bounds == \/ minted <= 1 /\ now = 0
          \/ minted <= 1 /\ now <= 2 /\ flow.revision <= 6
          \/ Len(flow.inv) <= 1 /\ flow.revision <= 4 /\ Len(log) <= 4
=============================================================================
