-------------------------- MODULE MCFlowWorkSource --------------------------
(* Instances of FlowWorkSource for TLC.                                    *)
EXTENDS FlowWorkSource, TLC

CONSTANTS w1, w2, r1, r2

MCKey == {w1, w2}
MCReviewKey == {r1, r2}
MCDelay == {0, 1}
\* PostgreSQL: any row may be locked by a concurrent transaction.
PostgresLockedSets == SUBSET MCKey

Symmetry == Permutations(MCKey) \cup Permutations(MCReviewKey)
=============================================================================
