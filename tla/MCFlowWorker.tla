---------------------------- MODULE MCFlowWorker ----------------------------
(* Instances of FlowWorker for TLC.                                        *)
EXTENDS FlowWorker, TLC

CONSTANTS v1, v2, execute, recover, resume, cancel

MCWorkers == {v1, v2}
MCResults == {"completed", "waiting", "failed"}
Symmetry == Permutations(MCWorkers)

\* Two commands that start or advance the Flow, one that answers a question of
\* it and one that cancels it.
MCWork == {execute, recover, resume, cancel}
MCKind == execute :> "execute" @@ recover :> "execute" @@ resume :> "resume" @@ cancel :> "cancel"

\* Either a second advancing command or an answer, the latter with a short Flow;
\* three commands with one fault, two with two.
Bounds == /\ item[execute].status # "absent"
          /\ item[resume].status # "absent" =>
                item[recover].status = "absent" /\ Len(flow.inv) <= 1 /\ faults <= 1
          /\ item[recover].status # "absent" /\ item[cancel].status # "absent" => faults <= 1

\* Every kind of command, once.
AllWork == {execute, resume, cancel}
AllKind == execute :> "execute" @@ resume :> "resume" @@ cancel :> "cancel"
=============================================================================
