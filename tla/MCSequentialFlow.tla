-------------------------- MODULE MCSequentialFlow --------------------------
(***************************************************************************)
(* Instances of SequentialFlow for TLC: a run with either a resume and a   *)
(* cancel and one fault, or with two resumes that race for its waits, each *)
(* with a timeout budget or, as `timed' says, without one.                 *)
(***************************************************************************)
EXTENDS SequentialFlow, TLC

CONSTANTS run, r1, r2, cancel

MCCall == {run, r1, r2, cancel}
MCOp == run :> "run" @@ r1 :> "resume" @@ r2 :> "resume" @@ cancel :> "cancel"

VARIABLE timed

Untimed == INSTANCE SequentialFlow WITH Timed <- FALSE, Deadline <- 0

ASSUME Untimed!CallAssumption

MCInit == Init /\ timed \in BOOLEAN

MCNext == /\ \/ timed /\ Next
             \/ ~timed /\ Untimed!Next
          /\ UNCHANGED timed

MCSpec == MCInit /\ [][MCNext]_<<vars, timed>>

Bounds == pc[r2] # "idle" => pc[cancel] = "idle" /\ faults = 0
=============================================================================
