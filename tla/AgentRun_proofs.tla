--------------------------- MODULE AgentRun_proofs ---------------------------
(***************************************************************************)
(* Proofs about one Run of an Agent, for any number of resumes, of calls   *)
(* that cancel it, of questions, of store calls that raise and of tasks    *)
(* that are cancelled.                                                     *)
(***************************************************************************)
EXTENDS AgentRun, FiniteSetTheorems, TLAPS

\* The provers tried, in order; steps on several records take longer than their defaults.
USE SMTT(20), Z3T(20), ZenonT(20)

-----------------------------------------------------------------------------
\* The type invariant, and what the context of an executor holds where.

CancelLabels == {"idle", "request", "c_turn", "c_save", "c_delete", "c_emit", "returned",
                 "finalized", "raised"}

ExecutorLabels == Labels \ {"request", "c_turn", "c_save", "c_delete", "c_emit", "finalized"}

\* Where the runtime is under way, and where it has left the loop.
Beginning == {"start_read", "start_save", "emit_started", "check", "advance"}
Ending == {"checkpoint", "turn", "final_read", "final_save", "emit"}

Context == [status : Terminal \cup Unfinished, question : 0..MaxWaits]
TurnStatus == Terminal \cup {"none", "active", "waiting"}
Boundary == Terminal \cup {"started", "resumed", "waiting"}

\* What the context x of an executor may be at a label.
Fits(label, x) ==
    /\ label \in Beginning => x.status = "running"
    /\ label \in {"step_read", "step_save", "cancelled_error"} => x.status # "created"
    /\ label \in Ending => x.status \in Terminal \cup {"waiting"}

TypeInv == /\ TypeOK
           /\ \A c \in Canceller : pc[c] \in CancelLabels
           /\ \A e \in Executor : pc[e] \in ExecutorLabels /\ Fits(pc[e], ctx[e])

USE DEF Client

LEMMA TypeInvInit == Init => TypeInv
BY RunAssumption DEF Init, TypeInv, TypeOK, NoRun, StoredRun, Labels, CancelLabels,
   ExecutorLabels, Fits, Beginning, Ending, Terminal, Unfinished, Lifecycle!Terminal,
   Lifecycle!Unfinished, Loop, Shielded

\* A step that takes executor e to a label where its context is in order, and
\* leaves the stores, the context and the copies of others in their domains.
LEMMA TypedMove ==
  ASSUME TypeInv, NEW e \in Executor, NEW label \in ExecutorLabels, Goto(e, label),
         run' \in StoredRun, checkpoint' \in 0..MaxWaits, turn' \in TurnStatus,
         events' \in Seq(Boundary), seen' \in [Client -> StoredRun],
         exc' \in [Executor -> BOOLEAN], asked' \in [Executor -> 0..MaxWaits],
         errors' \in 0..MaxErrors, interrupts' \in 0..MaxInterrupts,
         NEW x \in Context, ctx' = [ctx EXCEPT ![e] = x], Fits(label, x)
  PROVE  TypeInv'
<1>1. ctx' \in [Executor -> Context] /\ ctx'[e] = x /\ \A d \in Executor \ {e} : ctx'[d] = ctx[d]
  BY DEF TypeInv, TypeOK, Context
<1>2. pc' \in [Client -> Labels] /\ pc'[e] = label /\ \A c \in Client \ {e} : pc'[c] = pc[c]
  BY DEF TypeInv, TypeOK, Goto, ExecutorLabels
<1>3. TypeOK'
  BY <1>1, <1>2 DEF TypeOK, TurnStatus, Boundary, Context
<1>4. \A c \in Canceller : pc'[c] \in CancelLabels
  BY Zenon, <1>2, RunAssumption DEF TypeInv
<1>5. \A d \in Executor : pc'[d] \in ExecutorLabels /\ Fits(pc'[d], ctx'[d])
  BY Zenon, <1>1, <1>2 DEF TypeInv
<1>6. QED
  BY <1>3, <1>4, <1>5 DEF TypeInv

\* A step of a call that cancels the Run.
LEMMA TypedCancel ==
  ASSUME TypeInv, NEW c \in Canceller, NEW label \in CancelLabels, Goto(c, label),
         run' \in StoredRun, checkpoint' \in 0..MaxWaits, turn' \in TurnStatus,
         events' \in Seq(Boundary), seen' \in [Client -> StoredRun],
         exc' = exc, asked' = asked, ctx' = ctx,
         errors' \in 0..MaxErrors, interrupts' = interrupts
  PROVE  TypeInv'
<1>1. label \in Labels
  BY DEF Labels, CancelLabels
<1>2. pc' \in [Client -> Labels] /\ pc'[c] = label /\ \A d \in Client \ {c} : pc'[d] = pc[d]
  BY <1>1 DEF TypeInv, TypeOK, Goto
<1>3. TypeOK'
  BY <1>2 DEF TypeInv, TypeOK, TurnStatus, Boundary
<1>4. QED
  BY <1>2, <1>3, RunAssumption DEF TypeInv

LEMMA TypeInvNext == TypeInv /\ [Next]_vars => TypeInv'
<1> SUFFICES ASSUME TypeInv, [Next]_vars PROVE TypeInv'
  OBVIOUS
<1> USE RunAssumption DEF store, local, bounds
<1>t. /\ run \in StoredRun /\ checkpoint \in 0..MaxWaits /\ turn \in TurnStatus
      /\ events \in Seq(Boundary) /\ seen \in [Client -> StoredRun]
      /\ exc \in [Executor -> BOOLEAN] /\ asked \in [Executor -> 0..MaxWaits]
      /\ errors \in 0..MaxErrors /\ interrupts \in 0..MaxInterrupts
      /\ ctx \in [Executor -> Context]
  BY DEF TypeInv, TypeOK, TurnStatus, Boundary, Context
<1>s. /\ Terminal = {"completed", "failed", "cancelled", "interrupted", "limit_reached"}
      /\ Unfinished = {"created", "running", "waiting"}
  BY DEF Terminal, Unfinished, Lifecycle!Terminal, Lifecycle!Unfinished
<1>f. \A e \in Executor : /\ Fits(pc[e], ctx[e])
                          /\ ctx[e] \in Context /\ ctx[e].status \in Terminal \cup Unfinished
                          /\ ctx[e].question \in 0..MaxWaits
                          /\ ctx = [ctx EXCEPT ![e] = ctx[e]]
                          /\ pc[e] \in ExecutorLabels
  BY <1>t DEF TypeInv, Context
<1>c. ASSUME NEW e \in Executor, NEW st \in Terminal \cup Unfinished
      PROVE  LET x == [status |-> st, question |-> ctx[e].question]
             IN x \in Context /\ [ctx EXCEPT ![e].status = st] = [ctx EXCEPT ![e] = x]
  <2> DEFINE x == [status |-> st, question |-> ctx[e].question]
  <2>1. x \in Context
    BY <1>f DEF Context
  <2>2. [ctx[e] EXCEPT !.status = st] = x
    BY <1>f DEF Context
  <2>3. [ctx EXCEPT ![e].status = st] = [ctx EXCEPT ![e] = x]
    BY Zenon, <2>2
  <2>4. QED
    BY <2>1, <2>3
<1>r. ASSUME NEW st \in Terminal \cup Unfinished, NEW c \in Client, Save(c, st)
      PROVE  run' \in StoredRun
  BY <1>r, <1>t DEF Save, StoredRun
<1>g. ASSUME NEW c \in Client, NEW label, Get(c, label)
      PROVE  seen' \in [Client -> StoredRun] /\ Goto(c, label)
  BY <1>g, <1>t DEF Get
<1>e. ASSUME NEW ev \in Boundary, Emit(ev)
      PROVE  events' \in Seq(Boundary)
  BY <1>e, <1>t DEF Emit
<1>l. ExecutorLabels =
        {"check", "advance", "step_read", "step_save", "int_read", "int_turn", "int_save",
         "int_delete", "int_emit", "idle", "create", "load", "claim", "prepare", "start_read",
         "start_save", "emit_started", "checkpoint", "turn", "final_read", "final_save", "emit",
         "cancelled_error", "release", "restore", "returned", "raised", "interrupted"}
  BY DEF ExecutorLabels, Labels, Loop, Shielded
<1>b. ASSUME NEW e \in Executor, NEW label \in ExecutorLabels, Goto(e, label),
             UNCHANGED <<store, local, bounds>>, Fits(label, ctx[e])
      PROVE  TypeInv'
  BY <1>b, <1>t, <1>f, TypedMove
<1>x. ASSUME NEW e \in Executor, NEW label \in ExecutorLabels, Goto(e, label),
             NEW st \in Terminal \cup Unfinished, ctx' = [ctx EXCEPT ![e].status = st],
             UNCHANGED <<store, seen, exc, asked, bounds>>,
             Fits(label, [status |-> st, question |-> ctx[e].question])
      PROVE  TypeInv'
  <2> DEFINE x == [status |-> st, question |-> ctx[e].question]
  <2>1. x \in Context /\ ctx' = [ctx EXCEPT ![e] = x] /\ Fits(label, x)
    BY Zenon, <1>c, <1>x
  <2> HIDE DEF x
  <2>2. QED
    BY Zenon, <1>t, <1>x, <2>1, TypedMove
<1>1. ASSUME NEW e \in Executor, BeginTurn(e) PROVE TypeInv'
  <2>1. turn' \in TurnStatus /\ "create" \in ExecutorLabels /\ Fits("create", ctx[e])
    BY <1>1, <1>l DEF BeginTurn, TurnStatus, Fits, Beginning, Ending
  <2>2. QED
    BY Zenon, <1>1, <1>t, <1>f, <2>1, TypedMove DEF BeginTurn
<1>2. ASSUME NEW e \in Executor, Resume(e) PROVE TypeInv'
  <2>1. \A label \in {"load", "raised"} : label \in ExecutorLabels /\ Fits(label, ctx[e])
    BY <1>l DEF Fits, Beginning, Ending
  <2>2. QED
    BY <1>2, <1>b, <2>1 DEF Resume
<1>3. ASSUME NEW e \in Executor, CreateRun(e) PROVE TypeInv'
  <2>1. run' \in StoredRun
    BY <1>3, <1>s DEF CreateRun, StoredRun
  <2> DEFINE x == [status |-> "running", question |-> ctx[e].question]
  <2>2. x \in Context /\ ctx' = [ctx EXCEPT ![e] = x]
    BY Zenon, <1>3, <1>c, <1>s DEF CreateRun
  <2>3. "start_read" \in ExecutorLabels /\ Fits("start_read", x)
    BY <1>l DEF Fits, Beginning, Ending
  <2> HIDE DEF x
  <2>4. QED
    BY Zenon, <1>3, <1>t, <2>1, <2>2, <2>3, TypedMove DEF CreateRun
<1>4. ASSUME NEW e \in Executor, LoadCheckpoint(e) PROVE TypeInv'
  <2>1. \A label \in {"claim", "raised"} : label \in ExecutorLabels /\ Fits(label, ctx[e])
    BY <1>l DEF Fits, Beginning, Ending
  <2>2. asked' \in [Executor -> 0..MaxWaits]
    BY <1>4, <1>t DEF LoadCheckpoint
  <2>3. QED
    BY Zenon, <1>4, <1>t, <1>f, <2>1, <2>2, TypedMove DEF LoadCheckpoint
<1>5. ASSUME NEW e \in Executor, ClaimCheckpoint(e) PROVE TypeInv'
  <2>1. \A label \in {"prepare", "raised"}, x \in Context :
            label \in ExecutorLabels /\ Fits(label, x)
    BY <1>l DEF Fits, Beginning, Ending
  <2>2. asked' \in [Executor -> 0..MaxWaits] /\ checkpoint' \in 0..MaxWaits
    BY <1>5, <1>t DEF ClaimCheckpoint
  <2>3. Restored(checkpoint) \in Context
    BY <1>t, <1>s DEF Restored, Context
  <2>4. QED
    BY Zenon, <1>5, <1>t, <2>1, <2>2, <2>3, TypedMove DEF ClaimCheckpoint
<1>6. ASSUME NEW e \in Executor, PrepareResume(e) PROVE TypeInv'
  <2> DEFINE x == [status |-> "running", question |-> ctx[e].question]
  <2>1. x \in Context /\ [ctx EXCEPT ![e].status = "running"] = [ctx EXCEPT ![e] = x]
    BY Zenon, <1>c, <1>s
  <2>2. /\ "start_read" \in ExecutorLabels /\ Fits("start_read", x)
        /\ "restore" \in ExecutorLabels /\ Fits("restore", ctx[e])
    BY <1>l DEF Fits, Beginning, Ending
  <2> HIDE DEF x
  <2>3. CASE ctx' = [ctx EXCEPT ![e] = x] /\ Goto(e, "start_read")
    BY Zenon, <1>6, <1>t, <2>1, <2>2, <2>3, TypedMove DEF PrepareResume
  <2>4. CASE Goto(e, "restore") /\ UNCHANGED ctx
    BY <1>6, <1>b, <2>2, <2>4 DEF PrepareResume
  <2>5. QED
    BY <1>6, <2>1, <2>3, <2>4 DEF PrepareResume
<1>7. ASSUME NEW e \in Executor, SnapshotStart(e) PROVE TypeInv'
  <2>1. CASE pc[e] = "start_read"
    <3>1. "start_save" \in ExecutorLabels /\ Fits("start_save", ctx[e])
      BY <1>f, <1>l, <2>1 DEF Fits, Beginning, Ending
    <3>2. seen' \in [Client -> StoredRun] /\ Goto(e, "start_save")
      BY <1>7, <1>g, <2>1 DEF SnapshotStart
    <3>3. QED
      BY <1>7, <1>t, <1>f, <2>1, <3>1, <3>2, TypedMove DEF SnapshotStart
  <2>2. CASE pc[e] = "start_save"
    <3>1. "emit_started" \in ExecutorLabels /\ Fits("emit_started", ctx[e])
      BY <1>f, <1>l, <2>2 DEF Fits, Beginning, Ending
    <3>2. run' \in StoredRun
      BY <1>7, <1>f, <1>r, <2>2 DEF SnapshotStart
    <3>3. QED
      BY <1>7, <1>t, <1>f, <2>2, <3>1, <3>2, TypedMove DEF SnapshotStart
  <2>3. QED
    BY <1>7, <2>1, <2>2 DEF SnapshotStart
<1>8. ASSUME NEW e \in Executor, EmitStarted(e) PROVE TypeInv'
  <2>1. "check" \in ExecutorLabels /\ Fits("check", ctx[e])
    BY <1>8, <1>f, <1>l DEF EmitStarted, Fits, Beginning, Ending
  <2>2. "started" \in Boundary /\ "resumed" \in Boundary
    BY DEF Boundary
  <2>3. events' \in Seq(Boundary)
    BY <1>8, <1>e, <2>2 DEF EmitStarted
  <2>4. QED
    BY Zenon, <1>8, <1>t, <1>f, <2>1, <2>3, TypedMove DEF EmitStarted
<1>9. ASSUME NEW e \in Executor, CheckCancel(e) PROVE TypeInv'
  <2> DEFINE x == [status |-> "cancelled", question |-> ctx[e].question]
  <2>1. x \in Context /\ [ctx EXCEPT ![e].status = "cancelled"] = [ctx EXCEPT ![e] = x]
    BY Zenon, <1>c, <1>s
  <2>2. /\ "checkpoint" \in ExecutorLabels /\ Fits("checkpoint", x)
        /\ "advance" \in ExecutorLabels /\ Fits("advance", ctx[e])
    BY <1>9, <1>f, <1>l, <1>s DEF CheckCancel, Fits, Beginning, Ending
  <2> HIDE DEF x
  <2>3. CASE run.cancel
    BY Zenon, <1>9, <1>t, <2>1, <2>2, <2>3, TypedMove DEF CheckCancel
  <2>4. CASE ~run.cancel
    BY <1>9, <1>b, <2>2, <2>4 DEF CheckCancel
  <2>5. QED
    BY <2>3, <2>4
<1>10. ASSUME NEW e \in Executor, Advance(e) PROVE TypeInv'
  <2>1. pc[e] = "advance" /\ ctx[e].status = "running"
    BY <1>10, <1>f DEF Advance, Fits, Beginning
  <2>2. CASE Goto(e, "step_read") /\ UNCHANGED ctx
    <3>1. "step_read" \in ExecutorLabels /\ Fits("step_read", ctx[e])
      BY <1>l, <2>1 DEF Fits, Beginning, Ending
    <3>2. QED
      BY <1>10, <1>b, <2>2, <3>1 DEF Advance
  <2>3. CASE /\ ctx[e].question < MaxWaits
             /\ ctx' = [ctx EXCEPT ![e] = [status |-> "waiting", question |-> @.question + 1]]
             /\ Goto(e, "step_read")
    <3> DEFINE x == [status |-> "waiting", question |-> ctx[e].question + 1]
    <3>1. x \in Context /\ ctx' = [ctx EXCEPT ![e] = x]
      BY <1>f, <1>s, <2>3 DEF Context
    <3>2. "step_read" \in ExecutorLabels /\ Fits("step_read", x)
      BY <1>l DEF Fits, Beginning, Ending
    <3> HIDE DEF x
    <3>3. QED
      BY Zenon, <1>10, <1>t, <2>3, <3>1, <3>2, TypedMove DEF Advance
  <2>4. ASSUME NEW st \in {"completed", "failed", "limit_reached"},
               ctx' = [ctx EXCEPT ![e].status = st],
               NEW label \in {"checkpoint", "step_read"}, Goto(e, label)
        PROVE  TypeInv'
    <3> DEFINE x == [status |-> st, question |-> ctx[e].question]
    <3>1. st \in Terminal \cup Unfinished
      BY <1>s
    <3>2. label \in ExecutorLabels /\ Fits(label, x)
      BY <1>l, <1>s DEF Fits, Beginning, Ending
    <3>3. QED
      BY Zenon, <1>10, <1>x, <2>4, <3>1, <3>2 DEF Advance
  <2>5. QED
    BY <1>10, <2>2, <2>3, <2>4 DEF Advance
<1>11. ASSUME NEW e \in Executor, SnapshotStep(e) PROVE TypeInv'
  <2>1. CASE pc[e] = "step_read"
    <3>1. "step_save" \in ExecutorLabels /\ Fits("step_save", ctx[e])
      BY <1>f, <1>l, <2>1 DEF Fits, Beginning, Ending
    <3>2. seen' \in [Client -> StoredRun] /\ Goto(e, "step_save")
      BY <1>11, <1>g, <2>1 DEF SnapshotStep
    <3>3. QED
      BY <1>11, <1>t, <1>f, <2>1, <3>1, <3>2, TypedMove DEF SnapshotStep
  <2>2. CASE pc[e] = "step_save"
    <3> DEFINE label == IF ctx[e].status = "running" THEN "check" ELSE "checkpoint"
    <3>1. label \in ExecutorLabels /\ Fits(label, ctx[e])
      BY <1>f, <1>l, <1>s, <2>2 DEF Fits, Beginning, Ending
    <3>2. run' \in StoredRun
      BY <1>11, <1>f, <1>r, <2>2 DEF SnapshotStep
    <3>3. Goto(e, label) /\ UNCHANGED <<checkpoint, turn, events, local, bounds>>
      BY <1>11, <2>2 DEF SnapshotStep
    <3> HIDE DEF label
    <3>4. QED
      BY <1>t, <1>f, <3>1, <3>2, <3>3, TypedMove
  <2>3. QED
    BY <1>11, <2>1, <2>2 DEF SnapshotStep
<1>12. ASSUME NEW e \in Executor, StoreCheckpoint(e) PROVE TypeInv'
  <2>1. "turn" \in ExecutorLabels /\ Fits("turn", ctx[e])
    BY <1>12, <1>f, <1>l DEF StoreCheckpoint, Fits, Beginning, Ending
  <2>2. checkpoint' \in 0..MaxWaits
    BY <1>12, <1>f DEF StoreCheckpoint, FromContext
  <2>3. QED
    BY Zenon, <1>12, <1>t, <1>f, <2>1, <2>2, TypedMove DEF StoreCheckpoint
<1>13. ASSUME NEW e \in Executor, EndTurn(e) PROVE TypeInv'
  <2>1. \A label \in {"final_read", "release", "restore"} :
            label \in ExecutorLabels /\ Fits(label, ctx[e])
    BY <1>13, <1>f, <1>l DEF EndTurn, Fits, Beginning, Ending
  <2>2. ctx[e].status \in TurnStatus
    BY <1>13, <1>f DEF EndTurn, Fits, Ending, TurnStatus
  <2>3. turn' \in TurnStatus
    BY <1>13, <1>t, <2>2 DEF EndTurn, FinishTurn
  <2>4. PICK label \in {"final_read", "release", "restore"} : Goto(e, label)
    BY <1>13 DEF EndTurn, Outside
  <2>5. QED
    BY <1>13, <1>t, <1>f, <2>1, <2>3, <2>4, TypedMove DEF EndTurn
<1>14. ASSUME NEW e \in Executor, FinalizeRun(e) PROVE TypeInv'
  <2>1. CASE pc[e] = "final_read"
    <3>1. "final_save" \in ExecutorLabels /\ Fits("final_save", ctx[e])
      BY <1>f, <1>l, <2>1 DEF Fits, Beginning, Ending
    <3>2. seen' \in [Client -> StoredRun] /\ Goto(e, "final_save")
      BY <1>14, <1>g, <2>1 DEF FinalizeRun
    <3>3. QED
      BY <1>14, <1>t, <1>f, <2>1, <3>1, <3>2, TypedMove DEF FinalizeRun
  <2>2. CASE pc[e] = "final_save"
    <3>1. "emit" \in ExecutorLabels /\ Fits("emit", ctx[e])
      BY <1>f, <1>l, <2>2 DEF Fits, Beginning, Ending
    <3>2. run' \in StoredRun
      BY <1>14, <1>f, <1>r, <2>2 DEF FinalizeRun
    <3>3. QED
      BY <1>14, <1>t, <1>f, <2>2, <3>1, <3>2, TypedMove DEF FinalizeRun
  <2>3. CASE pc[e] = "emit"
    <3>1. \A label \in {"int_read", "returned"} :
             label \in ExecutorLabels /\ Fits(label, ctx[e])
      BY <1>l DEF Fits, Beginning, Ending
    <3>2. ctx[e].status \in Boundary
      BY <1>f, <2>3 DEF Fits, Ending, Boundary
    <3>3. events' \in Seq(Boundary)
      BY <1>14, <1>e, <2>3, <3>2 DEF FinalizeRun
    <3>4. PICK label \in {"int_read", "returned"} : Goto(e, label)
      BY <1>14, <2>3 DEF FinalizeRun
    <3>5. UNCHANGED <<run, checkpoint, turn, local, bounds>>
      BY <1>14, <2>3 DEF FinalizeRun
    <3>6. QED
      BY Zenon, <1>t, <1>f, <3>1, <3>3, <3>4, <3>5, TypedMove
  <2>4. QED
    BY <1>14, <2>1, <2>2, <2>3 DEF FinalizeRun
<1>15. ASSUME NEW e \in Executor, Release(e) PROVE TypeInv'
  <2>1. \A label \in {"interrupted", "raised"} : label \in ExecutorLabels /\ Fits(label, ctx[e])
    BY <1>l DEF Fits, Beginning, Ending
  <2>2. turn' \in TurnStatus
    BY <1>15, <1>t, <1>s DEF Release, FinishTurn, TurnStatus
  <2>3. PICK label \in {"interrupted", "raised"} : Goto(e, label)
    BY <1>15 DEF Release, Exit
  <2>4. QED
    BY Zenon, <1>15, <1>t, <1>f, <2>1, <2>2, <2>3, TypedMove DEF Release
<1>16. ASSUME NEW e \in Executor, Restore(e) PROVE TypeInv'
  <2>1. "raised" \in ExecutorLabels /\ Fits("raised", ctx[e])
    BY <1>l DEF Fits, Beginning, Ending
  <2>2. QED
    BY Zenon, <1>16, <1>t, <1>f, <2>1, TypedMove DEF Restore
<1>17. ASSUME NEW e \in Executor, HandleCancelledError(e) PROVE TypeInv'
  <2>1. "checkpoint" \in ExecutorLabels
    BY <1>l
  <2>2. CASE ctx[e].status \in Unfinished
    <3> DEFINE st == IF run.cancel THEN "cancelled" ELSE "interrupted"
    <3>1. st \in Terminal \cup Unfinished
          /\ Fits("checkpoint", [status |-> st, question |-> ctx[e].question])
      BY <1>s DEF Fits, Beginning, Ending
    <3>2. ctx' = [ctx EXCEPT ![e].status = st]
      BY <1>17, <2>2 DEF HandleCancelledError
    <3> HIDE DEF st
    <3>3. QED
      BY Zenon, <1>17, <1>x, <2>1, <3>1, <3>2 DEF HandleCancelledError
  <2>3. CASE ctx[e].status \notin Unfinished
    <3>1. Fits("checkpoint", ctx[e])
      BY <1>f, <1>s, <2>3 DEF Fits, Beginning, Ending
    <3>2. QED
      BY <1>17, <1>b, <2>1, <2>3, <3>1 DEF HandleCancelledError
  <2>4. QED
    BY <2>2, <2>3
<1>18. ASSUME NEW e \in Executor, FinalizeInterruption(e) PROVE TypeInv'
  <2>1. \A label \in {"interrupted", "release", "int_turn", "int_save", "int_delete", "int_emit"} :
            label \in ExecutorLabels /\ Fits(label, ctx[e])
    BY <1>l DEF Fits, Beginning, Ending
  <2>2. Verdict(e) \in Terminal /\ Verdict(e) \in TurnStatus /\ Verdict(e) \in Boundary
    BY <1>s DEF Verdict, TurnStatus, Boundary
  <2>3. CASE pc[e] = "int_read"
    <3>1. PICK label \in {"interrupted", "release", "int_turn"} : Get(e, label)
      BY <1>18, <2>3 DEF FinalizeInterruption, Unsettled
    <3>2. seen' \in [Client -> StoredRun] /\ Goto(e, label)
      BY <1>g, <3>1
    <3>3. UNCHANGED <<store, ctx, exc, asked, bounds>>
      BY <1>18, <2>3 DEF FinalizeInterruption
    <3>4. label \in ExecutorLabels /\ Fits(label, ctx[e]) /\ ctx' = [ctx EXCEPT ![e] = ctx[e]]
      BY <1>f, <2>1, <3>3
    <3>5. ctx[e] \in Context
      BY <1>f
    <3>6. QED
      BY Zenon, <1>t, <3>2, <3>3, <3>4, <3>5, TypedMove
  <2>4. CASE pc[e] = "int_turn"
    <3>1. PICK label \in {"interrupted", "release", "int_save"} : Goto(e, label)
      BY <1>18, <2>4 DEF FinalizeInterruption, Unsettled
    <3>2. turn' \in TurnStatus
      BY <1>18, <1>t, <2>2, <2>4 DEF FinalizeInterruption, FinishTurn
    <3>3. UNCHANGED <<run, checkpoint, events, local, bounds>>
      BY <1>18, <2>4 DEF FinalizeInterruption
    <3>4. label \in ExecutorLabels /\ Fits(label, ctx[e]) /\ ctx' = [ctx EXCEPT ![e] = ctx[e]]
      BY <1>f, <2>1, <3>3 DEF local
    <3>5. ctx[e] \in Context
      BY <1>f
    <3>6. QED
      BY Zenon, <1>t, <3>1, <3>2, <3>3, <3>4, <3>5, TypedMove DEF local
  <2>5. CASE pc[e] = "int_save"
    <3>1. run' \in StoredRun
      BY <1>18, <1>r, <2>2, <2>5 DEF FinalizeInterruption
    <3>2. Goto(e, "int_delete") /\ UNCHANGED <<checkpoint, turn, events, local, bounds>>
      BY <1>18, <2>5 DEF FinalizeInterruption
    <3>3. QED
      BY Zenon, <1>t, <1>f, <2>1, <3>1, <3>2, TypedMove
  <2>6. CASE pc[e] = "int_delete"
    BY <1>18, <1>t, <1>f, <2>1, <2>6, TypedMove DEF FinalizeInterruption
  <2>7. CASE pc[e] = "int_emit"
    <3>1. events' \in Seq(Boundary)
      BY <1>18, <1>e, <2>2, <2>7 DEF FinalizeInterruption
    <3>2. Goto(e, "interrupted") /\ UNCHANGED <<run, checkpoint, turn, local, bounds>>
      BY <1>18, <2>7 DEF FinalizeInterruption
    <3>3. QED
      BY <1>t, <1>f, <2>1, <3>1, <3>2, TypedMove
  <2>8. QED
    BY <1>18, <2>3, <2>4, <2>5, <2>6, <2>7 DEF FinalizeInterruption
<1>19. ASSUME NEW e \in Executor, TaskCancelled(e) PROVE TypeInv'
  <2>1. AfterCancelledError(e) \in ExecutorLabels /\ Fits(AfterCancelledError(e), ctx[e])
    BY <1>f, <1>l DEF AfterCancelledError, Loop, Fits, Beginning, Ending
  <2>2. exc' \in [Executor -> BOOLEAN] /\ interrupts' \in 0..MaxInterrupts
    BY <1>19, <1>t DEF TaskCancelled
  <2>3. QED
    BY Zenon, <1>19, <1>t, <1>f, <2>1, <2>2, TypedMove DEF TaskCancelled
<1>20. ASSUME NEW c \in Canceller, GetForCancel(c) PROVE TypeInv'
  <2>1. "request" \in CancelLabels
    BY DEF CancelLabels
  <2>2. seen' \in [Client -> StoredRun] /\ Goto(c, "request")
    BY <1>20, <1>g DEF GetForCancel
  <2>3. QED
    BY <1>20, <1>t, <2>1, <2>2, TypedCancel DEF GetForCancel
<1>21. ASSUME NEW c \in Canceller, RequestCancel(c) PROVE TypeInv'
  <2>1. PICK label \in {"raised", "c_turn", "returned"} : Goto(c, label)
    BY <1>21 DEF RequestCancel
  <2>2. label \in CancelLabels
    BY DEF CancelLabels
  <2>3. run' \in StoredRun
    BY ZenonT(30), <1>21, <1>t DEF RequestCancel, StoredRun
  <2>4. QED
    BY <1>21, <1>t, <2>1, <2>2, <2>3, TypedCancel DEF RequestCancel
<1>22. ASSUME NEW c \in Canceller, FinalizeCancel(c) PROVE TypeInv'
  <2>1. {"raised", "c_save", "c_delete", "c_emit", "finalized"} \subseteq CancelLabels
    BY DEF CancelLabels
  <2>2. CASE pc[c] = "c_turn"
    <3>1. PICK label \in {"raised", "c_save"} : Goto(c, label)
      BY <1>22, <2>2 DEF FinalizeCancel
    <3>2. turn' \in TurnStatus
      BY <1>22, <1>t, <1>s, <2>2 DEF FinalizeCancel, FinishTurn, TurnStatus
    <3>3. QED
      BY <1>22, <1>t, <2>1, <2>2, <3>1, <3>2, TypedCancel DEF FinalizeCancel
  <2>3. CASE pc[c] = "c_save"
    <3>0. run' = [status |-> "cancelled", cancel |-> TRUE]
      BY <1>22, <2>3 DEF FinalizeCancel
    <3>1. run' \in StoredRun
      BY <1>s, <3>0 DEF StoredRun
    <3>2. QED
      BY <1>22, <1>t, <2>1, <2>3, <3>1, TypedCancel DEF FinalizeCancel
  <2>4. CASE pc[c] = "c_delete"
    BY <1>22, <1>t, <2>1, <2>4, TypedCancel DEF FinalizeCancel
  <2>5. CASE pc[c] = "c_emit"
    <3>1. events' \in Seq(Boundary)
      BY <1>22, <1>e, <1>s, <2>5 DEF FinalizeCancel, Boundary
    <3>2. QED
      BY <1>22, <1>t, <2>1, <2>5, <3>1, TypedCancel DEF FinalizeCancel
  <2>6. QED
    BY <1>22, <2>2, <2>3, <2>4, <2>5 DEF FinalizeCancel
<1>23. ASSUME NEW c \in Client, StoreRaises(c) PROVE TypeInv'
  <2>1. errors' \in 0..MaxErrors /\ UNCHANGED <<store, seen, asked, interrupts>>
    BY <1>23, <1>t DEF StoreRaises
  <2>2. CASE c \in Canceller
    <3>1. pc[c] \notin Loop /\ c \notin Executor
      BY <2>2 DEF TypeInv, CancelLabels, Loop
    <3>e. AfterError(c) = "raised"
      BY <2>2 DEF AfterError, TypeInv, CancelLabels, Loop, Shielded
    <3>2. Goto(c, "raised") /\ ctx' = ctx /\ exc' = exc
      BY <1>23, <3>1, <3>e DEF StoreRaises
    <3>3. "raised" \in CancelLabels
      BY DEF CancelLabels
    <3>4. QED
      BY <1>t, <2>1, <2>2, <3>2, <3>3, TypedCancel
  <2>3. CASE c \in Executor
    <3>0. c \notin Canceller
      BY <2>3
    <3>1. exc' \in [Executor -> BOOLEAN]
      BY <1>23, <1>t, <2>3 DEF StoreRaises
    <3>2. CASE pc[c] \in Loop /\ ctx[c].status = "running"
      <4> DEFINE x == [status |-> "failed", question |-> ctx[c].question]
      <4>1. x \in Context /\ ctx' = [ctx EXCEPT ![c] = x]
        BY Zenon, <1>23, <1>c, <1>s, <2>3, <3>2 DEF StoreRaises
      <4>2. "checkpoint" \in ExecutorLabels /\ Fits("checkpoint", x)
        BY <1>l, <1>s DEF Fits, Beginning, Ending
      <4>e. AfterError(c) = "checkpoint"
        BY <3>0, <3>2 DEF AfterError, Loop, Shielded
      <4>3. Goto(c, "checkpoint")
        BY <1>23, <4>e DEF StoreRaises
      <4> HIDE DEF x
      <4>4. QED
        BY Zenon, <1>t, <2>1, <2>3, <3>1, <4>1, <4>2, <4>3, TypedMove
    <3>3. CASE ~(pc[c] \in Loop /\ ctx[c].status = "running")
      <4>1. ctx' = ctx /\ Goto(c, AfterError(c))
        BY <1>23, <3>3 DEF StoreRaises
      <4>2. AfterError(c) \in ExecutorLabels
        BY <1>f, <1>l, <2>3, <3>0 DEF AfterError, Outside, Exit, Unsettled
      <4>3. Fits(AfterError(c), ctx[c])
        BY <1>f, <1>s, <2>3, <3>0, <3>3
           DEF AfterError, Outside, Exit, Unsettled, Fits, Beginning, Ending, Loop
      <4>4. QED
        BY <1>t, <1>f, <2>1, <2>3, <3>1, <4>1, <4>2, <4>3, TypedMove
    <3>4. QED
      BY <3>2, <3>3
  <2>4. QED
    BY <2>2, <2>3
<1>24. CASE UNCHANGED vars
  BY <1>24 DEF vars, TypeInv, TypeOK
<1>25. QED
  BY <1>1, <1>2, <1>3, <1>4, <1>5, <1>6, <1>7, <1>8, <1>9, <1>10, <1>11, <1>12, <1>13,
     <1>14, <1>15, <1>16, <1>17, <1>18, <1>19, <1>20, <1>21, <1>22, <1>23, <1>24
     DEF Next, Proceed, Cancel

\* Every variable stays in its domain; in particular finish_turn and the
\* boundary events only get statuses of a Run that has ended or waits.
THEOREM TypeCorrect == Spec => []TypeOK
<1>1. Spec => []TypeInv
  BY TypeInvInit, TypeInvNext, PTL DEF Spec
<1>2. QED
  BY <1>1, PTL DEF TypeInv

-----------------------------------------------------------------------------
\* One executor: the checkpoint is stored, or one executor holds it, or nobody
\* can go on.

\* Where an executor has the checkpoint it has claimed, or the new Run.
Holding == Loop \cup {"create", "prepare", "start_read", "start_save", "emit_started",
                      "cancelled_error", "checkpoint"}

\* Where it has said what comes next and may still put the checkpoint back.
Leaving == {"turn", "final_read", "final_save", "emit", "restore"}

Holds(e) == \/ pc[e] \in Holding
            \/ pc[e] \in Leaving /\ ctx[e].question = asked[e]

Exclusive ==
    \/ \E f \in Executor : PutBackLate(f)
    \/ /\ \A d, e \in Executor : Holds(d) /\ Holds(e) => d = e
       /\ checkpoint # 0 => \A e \in Executor : ~Holds(e)

\* Nothing happens before Agent.run has created the Run.
Fresh ==
    /\ pc[First] \in {"idle", "create"} => run.status = "none"
    /\ run.status = "none" =>
          /\ checkpoint = 0 /\ ~run.cancel
          /\ pc[First] \in {"idle", "create", "release", "int_read", "raised", "interrupted"}
          /\ \A c \in Client \ {First} : pc[c] = "idle"
    /\ pc[First] \notin {"load", "claim", "prepare", "restore"}
    /\ \A e \in Executor \ {First} : pc[e] # "create"

\* The questions of an executor are counted from the one it has claimed.
Counted(e) ==
    /\ pc[e] \in Holding \cup Leaving \cup {"idle"} => asked[e] <= ctx[e].question
    /\ pc[e] \in Loop \cup Ending \cup {"cancelled_error"} /\ ctx[e].status = "waiting" =>
          asked[e] < ctx[e].question

ExecutorInv == Fresh /\ (\A e \in Executor : Counted(e)) /\ Exclusive

\* Executor e goes to a label and no other executor is touched.
Moves(e, label) ==
    /\ pc' = [pc EXCEPT ![e] = label]
    /\ \A d \in Executor \ {e} : ctx'[d] = ctx[d] /\ asked'[d] = asked[d]

LEMMA MovesOnly ==
  ASSUME TypeInv, NEW e \in Executor, NEW label, Moves(e, label)
  PROVE  /\ pc'[e] = label
         /\ \A c \in Client \ {e} : pc'[c] = pc[c]
         /\ \A d \in Executor \ {e} : /\ Counted(d)' <=> Counted(d)
                                      /\ Holds(d)' <=> Holds(d)
                                      /\ PutBackLate(d)' <=> PutBackLate(d)
<1>1. pc'[e] = label /\ \A c \in Client \ {e} : pc'[c] = pc[c]
  BY DEF TypeInv, TypeOK, Moves
<1>2. \A d \in Executor \ {e} : pc'[d] = pc[d] /\ ctx'[d] = ctx[d] /\ asked'[d] = asked[d]
  BY <1>1 DEF Moves
<1>3. QED
  BY <1>1, <1>2 DEF Counted, Holds, PutBackLate

\* A step that takes nothing and leaves the checkpoint, or removes it.
LEMMA ExclusiveKept ==
  ASSUME TypeInv, Exclusive, NEW e \in Executor, NEW label, Moves(e, label),
         pc[e] # "raised", checkpoint' \in {checkpoint, 0}, Holds(e)' => Holds(e)
  PROVE  Exclusive'
BY MovesOnly DEF Exclusive, PutBackLate

\* A step that takes the checkpoint.
LEMMA ExclusiveTaken ==
  ASSUME TypeInv, Exclusive, NEW e \in Executor, NEW label, Moves(e, label),
         pc[e] # "raised", checkpoint # 0, checkpoint' = 0
  PROVE  Exclusive'
BY MovesOnly DEF Exclusive, PutBackLate

\* A step that gives it back.
LEMMA ExclusiveGiven ==
  ASSUME TypeInv, Exclusive, NEW e \in Executor, NEW label, Moves(e, label),
         pc[e] # "raised", Holds(e), ~Holds(e)'
  PROVE  Exclusive'
BY MovesOnly DEF Exclusive, PutBackLate

\* The calls are under way: what is left to show of a step of an executor.
LEMMA ExecutorStep ==
  ASSUME TypeInv, ExecutorInv, NEW e \in Executor, NEW label, Moves(e, label),
         run.status # "none", run'.status # "none", label \notin {"idle", "create"},
         e = First => label \notin {"load", "claim", "prepare", "restore"},
         Counted(e)', Exclusive'
  PROVE  ExecutorInv'
<1>1. Fresh'
  BY MovesOnly, RunAssumption DEF ExecutorInv, Fresh
<1>2. \A d \in Executor : Counted(d)'
  BY MovesOnly DEF ExecutorInv
<1>3. QED
  BY <1>1, <1>2 DEF ExecutorInv

\* A step that leaves the context and the checkpoint alone.
LEMMA ExecutorStays ==
  ASSUME TypeInv, ExecutorInv, NEW e \in Executor, NEW label, Goto(e, label),
         UNCHANGED <<ctx, asked>>, checkpoint' \in {checkpoint, 0},
         run.status # "none", run'.status # "none", label \notin {"idle", "create"},
         pc[e] # "raised", e = First => label \notin {"load", "claim", "prepare", "restore"},
         label \in Holding => pc[e] \in Holding,
         label \in Leaving => pc[e] \in Holding \cup Leaving,
         label \in Loop \cup Ending \cup {"cancelled_error"} /\ ctx[e].status = "waiting" =>
            pc[e] \in Loop \cup Ending \cup {"cancelled_error"}
  PROVE  ExecutorInv'
<1>1. Moves(e, label)
  BY DEF Moves, Goto
<1>2. pc'[e] = label
  BY <1>1, MovesOnly
<1>3. Counted(e) /\ Exclusive
  BY DEF ExecutorInv
<1>4. Holds(e)' => Holds(e)
  BY <1>2 DEF Holds
<1>5. Exclusive'
  BY <1>1, <1>3, <1>4, ExclusiveKept
<1>6. Counted(e)'
  BY <1>2, <1>3 DEF Counted
<1>7. QED
  BY <1>1, <1>5, <1>6, ExecutorStep

\* A call that cancels the Run takes nothing.
LEMMA CancelStays ==
  ASSUME TypeInv, ExecutorInv, NEW c \in Canceller, NEW label, Goto(c, label),
         UNCHANGED <<ctx, asked>>, checkpoint' \in {checkpoint, 0},
         run.status # "none", run'.status # "none"
  PROVE  ExecutorInv'
<1>1. \A e \in Executor : pc'[e] = pc[e]
  BY RunAssumption DEF TypeInv, TypeOK, Goto
<1>2. Fresh'
  BY <1>1, RunAssumption DEF ExecutorInv, Fresh
<1>3. \A e \in Executor : Counted(e)'
  BY <1>1 DEF ExecutorInv, Counted
<1>4. Exclusive'
  BY <1>1 DEF ExecutorInv, Exclusive, Holds, PutBackLate
<1>5. QED
  BY <1>2, <1>3, <1>4 DEF ExecutorInv

LEMMA ExecutorInvInit == Init => ExecutorInv
BY RunAssumption DEF Init, ExecutorInv, Fresh, Counted, Exclusive, Holds, Holding, Leaving,
   Ending, Loop, NoRun

LEMMA ExecutorInvNext == TypeInv /\ ExecutorInv /\ [Next]_vars => ExecutorInv'
<1> SUFFICES ASSUME TypeInv, ExecutorInv, [Next]_vars PROVE ExecutorInv'
  OBVIOUS
<1> USE DEF store, local, bounds
<1>s. /\ Terminal = {"completed", "failed", "cancelled", "interrupted", "limit_reached"}
      /\ Unfinished = {"created", "running", "waiting"}
  BY DEF Terminal, Unfinished, Lifecycle!Terminal, Lifecycle!Unfinished
<1>f. \A e \in Executor : /\ Fits(pc[e], ctx[e]) /\ Counted(e)
                          /\ ctx[e] \in Context /\ ctx[e].status # "none"
                          /\ ctx[e].question \in Nat /\ asked[e] \in Nat
  BY <1>s, RunAssumption DEF TypeInv, TypeOK, Context, ExecutorInv
<1>d. ctx \in [Executor -> Context] /\ asked \in [Executor -> 0..MaxWaits] /\ checkpoint \in Nat
  BY RunAssumption DEF TypeInv, TypeOK, Context
<1>x. Exclusive /\ Fresh
  BY DEF ExecutorInv
<1>n. \A c \in Client : pc[c] \notin {"idle", "create", "release", "int_read", "raised",
                                      "interrupted"} => run.status # "none"
  BY <1>x, RunAssumption DEF Fresh
<1>r. ASSUME NEW c \in Client, NEW st \in Terminal \cup Unfinished, Save(c, st)
      PROVE  run'.status # "none"
  BY <1>r, <1>s DEF Save
<1>l. \A c \in Client : \A label : Get(c, label) => Goto(c, label)
  BY DEF Get
<1>h. ASSUME NEW e \in Executor, NEW label \in Holding \ {"create", "prepare"},
             Moves(e, label), pc[e] \in Holding, pc[e] # "create",
             UNCHANGED <<run, checkpoint, asked>>, ctx'[e].question \in Nat,
             ctx[e].question <= ctx'[e].question,
             ctx'[e].status = "waiting" => asked[e] < ctx'[e].question
      PROVE  ExecutorInv'
  <2>1. run.status # "none" /\ pc[e] # "raised"
    BY <1>h, <1>n DEF Holding, Loop
  <2>2. label \notin {"idle", "create", "load", "claim", "prepare", "restore"}
    BY <1>h DEF Holding, Loop
  <2>3. pc'[e] = label
    BY <1>h, MovesOnly
  <2>4. Counted(e)'
    BY <1>f, <1>h, <2>3 DEF Counted
  <2>5. Holds(e)
    BY <1>h DEF Holds
  <2>6. Exclusive'
    BY <1>x, <1>h, <2>1, <2>5, ExclusiveKept
  <2>7. QED
    BY <1>h, <2>1, <2>2, <2>4, <2>6, ExecutorStep
<1>c. ASSUME NEW e \in Executor, NEW st, ctx' = [ctx EXCEPT ![e].status = st], UNCHANGED asked,
             NEW label, Goto(e, label)
      PROVE  /\ Moves(e, label) /\ ctx'[e].question = ctx[e].question
             /\ ctx'[e].question \in Nat /\ ctx'[e].status = st
  BY <1>c, <1>d, <1>f DEF Moves, Goto, Context
<1>u. ASSUME NEW e \in Executor, NEW label \in {"raised", "interrupted", "release", "int_read"},
             Goto(e, label), pc[e] \notin {"idle", "raised"},
             UNCHANGED <<run, checkpoint, ctx, asked>>
      PROVE  ExecutorInv'
  <2>1. /\ label \notin Holding /\ label \notin Leaving
        /\ label \notin Loop \cup Ending \cup {"cancelled_error"}
    BY DEF Holding, Leaving, Loop, Ending
  <2>2. CASE run.status # "none"
    BY <1>u, <2>1, <2>2, ExecutorStays
  <2>3. CASE run.status = "none"
    <3>1. Moves(e, label)
      BY <1>u DEF Moves, Goto
    <3>2. e = First /\ pc'[e] = label /\ \A c \in Client \ {e} : pc'[c] = pc[c]
      BY <1>u, <1>x, <2>3, <3>1, MovesOnly DEF Fresh
    <3>3. Fresh'
      BY <1>u, <1>x, <3>2 DEF Fresh
    <3>4. Counted(e)' /\ ~Holds(e)'
      BY <2>1, <3>2 DEF Counted, Holds
    <3>5. Exclusive'
      BY <1>u, <1>x, <3>1, <3>4, ExclusiveKept
    <3>6. QED
      BY <1>f, <3>1, <3>3, <3>4, <3>5, MovesOnly DEF ExecutorInv
  <2>4. QED
    BY <2>2, <2>3
<1>1. ASSUME NEW e \in Executor, BeginTurn(e) PROVE ExecutorInv'
  <2>1. /\ e = First /\ pc[First] = "idle" /\ UNCHANGED <<run, checkpoint, ctx, asked>>
        /\ Moves(First, "create")
    BY <1>1 DEF BeginTurn, Goto, Moves
  <2>2. /\ pc'[First] = "create" /\ run.status = "none" /\ checkpoint = 0
        /\ \A c \in Client \ {First} : pc'[c] = pc[c] /\ pc[c] = "idle"
    BY <1>x, <2>1, MovesOnly, RunAssumption DEF Fresh
  <2>3. Fresh'
    BY <1>x, <2>1, <2>2 DEF Fresh
  <2>4. \A d \in Executor : Counted(d)'
    <3>1. Counted(First)'
      BY <1>f, <2>1, <2>2 DEF Counted, Loop, Ending
    <3>2. QED
      BY <1>f, <2>1, <3>1, MovesOnly
  <2>5. Exclusive'
    BY <2>1, <2>2 DEF Exclusive, Holds, Holding, Leaving, Loop
  <2>6. QED
    BY <2>3, <2>4, <2>5 DEF ExecutorInv
<1>2. ASSUME NEW e \in Executor, Resume(e) PROVE ExecutorInv'
  <2>1. PICK label \in {"load", "raised"} : Goto(e, label)
    BY <1>2 DEF Resume
  <2>2. UNCHANGED <<ctx, asked, checkpoint, run>> /\ run.status # "none" /\ e # First
        /\ pc[e] = "idle"
    BY <1>2 DEF Resume
  <2>3. label \notin Holding /\ label \notin Leaving
        /\ label \notin Loop \cup Ending \cup {"cancelled_error"}
    BY DEF Holding, Leaving, Loop, Ending
  <2>4. QED
    BY <2>1, <2>2, <2>3, ExecutorStays
<1>3. ASSUME NEW e \in Executor, CreateRun(e) PROVE ExecutorInv'
  <2>1. pc[e] = "create" /\ e = First /\ run.status = "none" /\ checkpoint = 0
    BY <1>3, <1>x, RunAssumption DEF CreateRun, Fresh
  <2>2. /\ Moves(e, "start_read") /\ UNCHANGED <<checkpoint, asked>>
        /\ run'.status # "none"
        /\ ctx'[e].question = ctx[e].question /\ ctx'[e].status = "running"
    BY <1>3, <1>d DEF CreateRun, Goto, Moves, Context
  <2>3. /\ pc'[First] = "start_read"
        /\ \A c \in Client \ {First} : pc'[c] = pc[c] /\ pc[c] = "idle"
    BY ZenonT(30), <1>x, <2>1, <2>2, MovesOnly, RunAssumption DEF Fresh
  <2>4. Fresh'
    BY <2>2, <2>3 DEF Fresh
  <2>5. \A d \in Executor : Counted(d)'
    <3>1. Counted(First)'
      BY <1>f, <2>1, <2>2, <2>3 DEF Counted, Holding, Loop, Ending
    <3>2. QED
      BY <1>f, <2>1, <2>2, <3>1, MovesOnly
  <2>6. Holds(e)
    BY <2>1 DEF Holds, Holding
  <2>7. Exclusive'
    BY <1>x, <2>1, <2>2, <2>6, ExclusiveKept
  <2>8. QED
    BY <2>4, <2>5, <2>7 DEF ExecutorInv
<1>4. ASSUME NEW e \in Executor, LoadCheckpoint(e) PROVE ExecutorInv'
  <2>1. PICK label \in {"claim", "raised"} : Goto(e, label)
    BY <1>4 DEF LoadCheckpoint
  <2>2. /\ UNCHANGED <<run, checkpoint, ctx>> /\ pc[e] = "load" /\ Moves(e, label)
        /\ run.status # "none" /\ e # First
    BY ZenonT(30), <1>4, <1>n, <1>x, <1>d, <2>1, RunAssumption DEF LoadCheckpoint, Moves, Goto,
       Fresh
  <2>3. pc'[e] = label
    BY Zenon, <2>2, MovesOnly
  <2>4. ~Holds(e)' /\ Counted(e)'
    BY <2>3 DEF Holds, Counted, Holding, Leaving, Loop, Ending
  <2>5. Exclusive'
    BY <1>x, <2>2, <2>4, ExclusiveKept
  <2>6. QED
    BY <2>2, <2>4, <2>5, ExecutorStep
<1>5. ASSUME NEW e \in Executor, ClaimCheckpoint(e) PROVE ExecutorInv'
  <2> DEFINE label == IF checkpoint = 0 THEN "raised" ELSE "prepare"
  <2>1. /\ UNCHANGED run /\ checkpoint' = 0 /\ pc[e] = "claim" /\ Moves(e, label)
        /\ run.status # "none" /\ e # First
    BY <1>5, <1>n, <1>x, <1>d, RunAssumption DEF ClaimCheckpoint, Moves, Goto, Fresh
  <2>2. ctx'[e] = Restored(checkpoint) /\ asked'[e] = checkpoint
    BY <1>5, <1>d DEF ClaimCheckpoint
  <2>3. pc'[e] = label
    BY <2>1, MovesOnly
  <2>4. Counted(e)'
    BY <1>d, <2>2, <2>3 DEF Counted, Restored, Loop, Ending
  <2>5. Exclusive'
    <3>1. CASE checkpoint = 0
      <4>1. ~Holds(e)'
        BY <2>3, <3>1 DEF Holds, Holding, Leaving, Loop
      <4>2. QED
        BY <1>x, <2>1, <4>1, ExclusiveKept
    <3>2. CASE checkpoint # 0
      BY <1>x, <2>1, <3>2, ExclusiveTaken
    <3>3. QED
      BY <3>1, <3>2
  <2>6. QED
    BY <2>1, <2>4, <2>5, ExecutorStep
<1>6. ASSUME NEW e \in Executor, PrepareResume(e) PROVE ExecutorInv'
  <2>1. pc[e] = "prepare" /\ UNCHANGED <<run, checkpoint, asked>> /\ e # First
    BY <1>6, <1>x DEF PrepareResume, Fresh
  <2>2. CASE ctx' = [ctx EXCEPT ![e].status = "running"] /\ Goto(e, "start_read")
    <3>1. /\ Moves(e, "start_read") /\ ctx'[e].question = ctx[e].question
          /\ ctx'[e].question \in Nat /\ ctx'[e].status = "running"
      BY Zenon, <1>c, <2>1, <2>2
    <3>2. "start_read" \in Holding \ {"create", "prepare"} /\ pc[e] \in Holding
      BY <2>1 DEF Holding
    <3>3. QED
      BY <1>h, <1>f, <2>1, <3>1, <3>2
  <2>3. CASE Goto(e, "restore") /\ UNCHANGED ctx
    <3>1. /\ "restore" \notin Holding /\ pc[e] \in Holding /\ run.status # "none"
          /\ "restore" \notin Loop \cup Ending \cup {"cancelled_error"}
      BY <1>n, <2>1 DEF Holding, Loop, Ending
    <3>2. QED
      BY <2>1, <2>3, <3>1, ExecutorStays
  <2>4. QED
    BY <1>6, <2>2, <2>3 DEF PrepareResume
<1>7. ASSUME NEW e \in Executor, SnapshotStart(e) PROVE ExecutorInv'
  <2>1. /\ pc[e] \in {"start_read", "start_save"} /\ UNCHANGED <<ctx, asked, checkpoint>>
        /\ run.status # "none"
    BY <1>7, <1>n DEF SnapshotStart
  <2>2. PICK label \in {"start_save", "emit_started"} : Goto(e, label)
    BY <1>7, <1>l DEF SnapshotStart
  <2>3. run'.status # "none"
    BY <1>7, <1>f, <1>r, <2>1 DEF SnapshotStart, Context
  <2>4. /\ label \notin Leaving /\ pc[e] \in Holding
        /\ label \notin Loop \cup Ending \cup {"cancelled_error"}
    BY <2>1 DEF Holding, Leaving, Loop, Ending
  <2>5. QED
    BY <2>1, <2>2, <2>3, <2>4, ExecutorStays
<1>8. ASSUME NEW e \in Executor, EmitStarted(e) PROVE ExecutorInv'
  <2>1. /\ pc[e] = "emit_started" /\ UNCHANGED <<ctx, asked, checkpoint, run>>
        /\ run.status # "none" /\ Goto(e, "check")
    BY <1>8, <1>n DEF EmitStarted
  <2>2. ctx[e].status = "running" /\ "check" \notin Leaving /\ pc[e] \in Holding
    BY <1>f, <2>1 DEF Fits, Beginning, Holding, Leaving
  <2>3. QED
    BY <2>1, <2>2, ExecutorStays
<1>9. ASSUME NEW e \in Executor, CheckCancel(e) PROVE ExecutorInv'
  <2>1. pc[e] = "check" /\ UNCHANGED <<run, checkpoint, asked>> /\ run.status # "none"
    BY <1>9, <1>n DEF CheckCancel
  <2>2. /\ {"checkpoint", "advance"} \subseteq Holding \ {"create", "prepare"}
        /\ pc[e] \in Holding /\ pc[e] \in Loop /\ "advance" \notin Leaving
    BY <2>1 DEF Holding, Loop, Leaving
  <2>3. CASE run.cancel
    <3>1. ctx' = [ctx EXCEPT ![e].status = "cancelled"] /\ Goto(e, "checkpoint")
      BY <1>9, <2>3 DEF CheckCancel
    <3>2. /\ Moves(e, "checkpoint") /\ ctx'[e].question = ctx[e].question
          /\ ctx'[e].question \in Nat /\ ctx'[e].status = "cancelled"
      BY Zenon, <1>c, <2>1, <3>1
    <3>3. QED
      BY <1>h, <1>f, <2>1, <2>2, <3>2
  <2>4. CASE ~run.cancel
    <3>1. UNCHANGED ctx /\ Goto(e, "advance")
      BY <1>9, <2>4 DEF CheckCancel
    <3>2. QED
      BY <2>1, <2>2, <3>1, ExecutorStays
  <2>5. QED
    BY <2>3, <2>4
<1>10. ASSUME NEW e \in Executor, Advance(e) PROVE ExecutorInv'
  <2>1. pc[e] = "advance" /\ UNCHANGED <<run, checkpoint, asked>> /\ run.status # "none"
    BY <1>10, <1>n DEF Advance
  <2>2. /\ {"checkpoint", "step_read"} \subseteq Holding \ {"create", "prepare"}
        /\ pc[e] \in Holding /\ pc[e] \in Loop /\ "step_read" \notin Leaving
        /\ asked[e] <= ctx[e].question
    BY <1>f, <2>1 DEF Holding, Loop, Leaving, Counted
  <2>3. CASE Goto(e, "step_read") /\ UNCHANGED ctx
    BY <2>1, <2>2, <2>3, ExecutorStays
  <2>4. CASE /\ ctx' = [ctx EXCEPT ![e] = [status |-> "waiting", question |-> @.question + 1]]
             /\ Goto(e, "step_read")
    <3>1. Moves(e, "step_read") /\ ctx'[e].question = ctx[e].question + 1
      BY <1>d, <2>1, <2>4 DEF Moves, Goto
    <3>2. QED
      BY <1>h, <1>f, <2>1, <2>2, <3>1
  <2>5. ASSUME NEW st \in {"completed", "failed", "limit_reached"},
               ctx' = [ctx EXCEPT ![e].status = st],
               NEW label \in {"checkpoint", "step_read"}, Goto(e, label)
        PROVE  ExecutorInv'
    <3>1. /\ Moves(e, label) /\ ctx'[e].question = ctx[e].question
          /\ ctx'[e].question \in Nat /\ ctx'[e].status # "waiting"
      BY ZenonT(30), <1>c, <2>1, <2>5
    <3>2. QED
      BY <1>h, <1>f, <2>1, <2>2, <3>1
  <2>6. QED
    BY <1>10, <2>3, <2>4, <2>5 DEF Advance
<1>11. ASSUME NEW e \in Executor, SnapshotStep(e) PROVE ExecutorInv'
  <2>1. /\ pc[e] \in {"step_read", "step_save"} /\ UNCHANGED <<ctx, asked, checkpoint>>
        /\ run.status # "none"
    BY <1>11, <1>n DEF SnapshotStep
  <2>2. PICK label \in {"step_save", "check", "checkpoint"} : Goto(e, label)
    BY <1>11, <1>l DEF SnapshotStep
  <2>3. run'.status # "none"
    BY <1>11, <1>f, <1>r, <2>1 DEF SnapshotStep, Context
  <2>4. label \notin Leaving /\ pc[e] \in Holding /\ pc[e] \in Loop
    BY <2>1 DEF Holding, Leaving, Loop
  <2>5. QED
    BY <2>1, <2>2, <2>3, <2>4, ExecutorStays
<1>12. ASSUME NEW e \in Executor, StoreCheckpoint(e) PROVE ExecutorInv'
  <2>1. /\ pc[e] = "checkpoint" /\ UNCHANGED <<run, ctx, asked>> /\ run.status # "none"
        /\ Goto(e, "turn") /\ Moves(e, "turn")
    BY <1>12, <1>n DEF StoreCheckpoint, Moves, Goto
  <2>2. pc[e] \in Holding /\ "turn" \notin Holding /\ pc[e] \in Ending /\ "turn" \in Ending
    BY <2>1 DEF Holding, Loop, Ending
  <2>3. CASE ctx[e].status = "waiting"
    <3>1. asked[e] < ctx[e].question
      BY <1>f, <2>2, <2>3 DEF Counted
    <3>2. pc'[e] = "turn"
      BY <2>1, MovesOnly
    <3>3. Holds(e) /\ ~Holds(e)' /\ Counted(e)'
      BY <1>f, <2>1, <2>2, <3>1, <3>2 DEF Holds, Counted
    <3>4. Exclusive'
      BY <1>x, <2>1, <3>3, ExclusiveGiven
    <3>5. QED
      BY <2>1, <3>3, <3>4, ExecutorStep
  <2>4. CASE ctx[e].status # "waiting"
    <3>1. checkpoint' = 0
      BY <1>12, <2>4 DEF StoreCheckpoint
    <3>2. QED
      BY <2>1, <2>2, <2>4, <3>1, ExecutorStays
  <2>5. QED
    BY <2>3, <2>4
<1>13. ASSUME NEW e \in Executor, EndTurn(e) PROVE ExecutorInv'
  <2>1. /\ pc[e] = "turn" /\ UNCHANGED <<run, checkpoint, ctx, asked>> /\ run.status # "none"
    BY <1>13, <1>n DEF EndTurn
  <2>2. PICK label \in {"final_read", "release", "restore"} :
            Goto(e, label) /\ (e = First => label # "restore")
    BY <1>13 DEF EndTurn, Outside
  <2>3. label \notin Holding /\ pc[e] \in Leaving /\ pc[e] \in Ending
    BY <2>1 DEF Holding, Leaving, Loop, Ending
  <2>4. QED
    BY <2>1, <2>2, <2>3, ExecutorStays
<1>14. ASSUME NEW e \in Executor, FinalizeRun(e) PROVE ExecutorInv'
  <2>1. /\ pc[e] \in {"final_read", "final_save", "emit"} /\ UNCHANGED <<ctx, asked, checkpoint>>
        /\ run.status # "none"
    BY <1>14, <1>n DEF FinalizeRun
  <2>2. PICK label \in {"final_save", "emit", "int_read", "returned"} : Goto(e, label)
    BY <1>14, <1>l DEF FinalizeRun
  <2>3. run'.status # "none"
    BY <1>14, <1>f, <1>r, <2>1 DEF FinalizeRun, Context
  <2>4. label \notin Holding /\ pc[e] \in Leaving /\ pc[e] \in Ending
    BY <2>1 DEF Holding, Leaving, Loop, Ending
  <2>5. QED
    BY <2>1, <2>2, <2>3, <2>4, ExecutorStays
<1>15. ASSUME NEW e \in Executor, Release(e) PROVE ExecutorInv'
  <2>1. PICK label \in {"raised", "interrupted"} : Goto(e, label)
    BY Zenon, <1>15 DEF Release, Exit
  <2>2. QED
    BY <1>15, <1>u, <2>1 DEF Release
<1>16. ASSUME NEW e \in Executor, Restore(e) PROVE ExecutorInv'
  <2>1. /\ pc[e] = "restore" /\ e # First /\ run.status # "none" /\ UNCHANGED <<run, ctx, asked>>
        /\ Moves(e, "raised")
    BY <1>16, <1>n, <1>x DEF Restore, Fresh, Moves, Goto
  <2>2. pc'[e] = "raised"
    BY <2>1, MovesOnly
  <2>3. ~Holds(e)' /\ Counted(e)'
    BY <2>2 DEF Holds, Counted, Holding, Leaving, Loop, Ending
  <2>4. Exclusive'
    <3>1. CASE ctx[e].question = asked[e]
      <4>1. Holds(e)
        BY <2>1, <3>1 DEF Holds, Leaving
      <4>2. QED
        BY <1>x, <2>1, <2>3, <4>1, ExclusiveGiven
    <3>2. CASE ctx[e].question # asked[e]
      <4>1. PutBackLate(e)'
        BY <2>1, <2>2, <3>2 DEF PutBackLate
      <4>2. QED
        BY <4>1 DEF Exclusive
    <3>3. QED
      BY <3>1, <3>2
  <2>5. QED
    BY <2>1, <2>3, <2>4, ExecutorStep
<1>17. ASSUME NEW e \in Executor, HandleCancelledError(e) PROVE ExecutorInv'
  <2>1. /\ pc[e] = "cancelled_error" /\ UNCHANGED <<run, checkpoint, asked>>
        /\ run.status # "none" /\ Goto(e, "checkpoint")
    BY <1>17, <1>n DEF HandleCancelledError
  <2>2. /\ "checkpoint" \in Holding \ {"create", "prepare"} /\ "checkpoint" \notin Leaving
        /\ pc[e] \in Holding
    BY <2>1 DEF Holding, Leaving
  <2>3. CASE UNCHANGED ctx
    BY <2>1, <2>2, <2>3, ExecutorStays
  <2>4. ASSUME NEW st \in {"cancelled", "interrupted"}, ctx' = [ctx EXCEPT ![e].status = st]
        PROVE  ExecutorInv'
    <3>1. /\ Moves(e, "checkpoint") /\ ctx'[e].question = ctx[e].question
          /\ ctx'[e].question \in Nat /\ ctx'[e].status # "waiting"
      BY Zenon, <1>c, <2>1, <2>4
    <3>2. QED
      BY <1>h, <1>f, <2>1, <2>2, <3>1
  <2>5. QED
    BY ZenonT(30), <1>17, <2>3, <2>4 DEF HandleCancelledError
<1>18. ASSUME NEW e \in Executor, FinalizeInterruption(e) PROVE ExecutorInv'
  <2>1. UNCHANGED <<ctx, asked>> /\ checkpoint' \in {checkpoint, 0}
    BY <1>18 DEF FinalizeInterruption
  <2>2. \A label \in {"interrupted", "release", "int_turn", "int_save", "int_delete", "int_emit"} :
           /\ label \notin Holding /\ label \notin Leaving
           /\ label \notin Loop \cup Ending \cup {"cancelled_error"}
    BY DEF Holding, Leaving, Loop, Ending
  <2>3. CASE pc[e] = "int_read"
    <3>0. UNCHANGED <<run, checkpoint>>
      BY <1>18, <2>3 DEF FinalizeInterruption
    <3>1. CASE run.status = "none"
      <4>1. Goto(e, Unsettled(e))
        BY <1>18, <1>s, <2>3, <3>1 DEF FinalizeInterruption, Get
      <4>2. QED
        BY <1>u, <2>1, <2>3, <3>0, <4>1 DEF Unsettled
    <3>2. CASE run.status # "none"
      <4>1. PICK label \in {"interrupted", "int_turn"} : Goto(e, label)
        BY <1>18, <1>s, <2>3, <3>2 DEF FinalizeInterruption, Get
      <4>2. QED
        BY <2>1, <2>2, <2>3, <3>0, <3>2, <4>1, ExecutorStays
    <3>3. QED
      BY <3>1, <3>2
  <2>4. CASE pc[e] # "int_read"
    <3>1. pc[e] \in {"int_turn", "int_save", "int_delete", "int_emit"} /\ run.status # "none"
      BY <1>18, <1>n, <2>4 DEF FinalizeInterruption
    <3>2. PICK label \in {"interrupted", "release", "int_save", "int_delete", "int_emit"} :
             Goto(e, label)
      BY <1>18, <2>4 DEF FinalizeInterruption, Unsettled
    <3>3. Verdict(e) \in Terminal \cup Unfinished
      BY <1>s DEF Verdict
    <3>4. run'.status # "none"
      BY <1>18, <1>r, <2>4, <3>1, <3>3 DEF FinalizeInterruption
    <3>5. QED
      BY <2>1, <2>2, <3>1, <3>2, <3>4, ExecutorStays
  <2>5. QED
    BY <2>3, <2>4
<1>19. ASSUME NEW e \in Executor, TaskCancelled(e) PROVE ExecutorInv'
  <2>1. /\ UNCHANGED <<run, checkpoint, ctx, asked>> /\ Goto(e, AfterCancelledError(e))
        /\ pc[e] \notin {"idle", "raised"}
    BY <1>19 DEF TaskCancelled, Ended
  <2>2. CASE pc[e] \in Loop
    <3>1. /\ AfterCancelledError(e) = "cancelled_error" /\ run.status # "none"
          /\ pc[e] \in Holding /\ "cancelled_error" \notin Leaving
      BY <1>n, <2>2 DEF AfterCancelledError, Loop, Holding, Leaving
    <3>2. QED
      BY <2>1, <2>2, <3>1, ExecutorStays
  <2>3. CASE pc[e] \notin Loop
    <3>1. AfterCancelledError(e) \in {"interrupted", "int_read"}
      BY <2>3 DEF AfterCancelledError
    <3>2. QED
      BY <1>u, <2>1, <3>1
  <2>4. QED
    BY <2>2, <2>3
<1>20. ASSUME NEW c \in Canceller, Cancel(c) PROVE ExecutorInv'
  <2>1. UNCHANGED <<ctx, asked>> /\ checkpoint' \in {checkpoint, 0} /\ run.status # "none"
    BY <1>20, <1>n DEF Cancel, GetForCancel, RequestCancel, FinalizeCancel
  <2>2. run'.status # "none"
    BY <1>20, <2>1 DEF Cancel, GetForCancel, RequestCancel, FinalizeCancel, TypeInv, TypeOK,
          StoredRun
  <2>3. PICK label : Goto(c, label)
    BY <1>20, <1>l DEF Cancel, GetForCancel, RequestCancel, FinalizeCancel
  <2>4. QED
    BY <2>1, <2>2, <2>3, CancelStays
<1>21. ASSUME NEW c \in Client, StoreRaises(c) PROVE ExecutorInv'
  <2>1. /\ UNCHANGED <<run, checkpoint, asked>> /\ Goto(c, AfterError(c))
        /\ pc[c] \notin {"idle", "raised", "advance", "prepare"} /\ ~Ended(c)
    BY <1>21 DEF StoreRaises, Ended
  <2>2. CASE c \in Canceller
    <3>1. pc[c] \notin Loop /\ run.status # "none"
      BY <1>n, <2>1, <2>2 DEF TypeInv, CancelLabels, Loop
    <3>2. ctx' = ctx
      BY <1>21, <3>1 DEF StoreRaises
    <3>3. QED
      BY <2>1, <2>2, <3>1, <3>2, CancelStays
  <2>3. CASE c \in Executor /\ c \notin Canceller /\ pc[c] \in Loop
    <3>1. /\ AfterError(c) = "checkpoint" /\ run.status # "none" /\ pc[c] \in Holding
          /\ "checkpoint" \in Holding \ {"create", "prepare"} /\ "checkpoint" \notin Leaving
      BY <1>n, <2>3 DEF AfterError, Loop, Shielded, Holding, Leaving
    <3>2. CASE ctx[c].status = "running"
      <4>1. ctx' = [ctx EXCEPT ![c].status = "failed"]
        BY <1>21, <2>3, <3>2 DEF StoreRaises
      <4>2. /\ Moves(c, "checkpoint") /\ ctx'[c].question = ctx[c].question
            /\ ctx'[c].question \in Nat /\ ctx'[c].status = "failed"
        BY ZenonT(30), <1>c, <2>1, <2>3, <3>1, <4>1
      <4>3. pc[c] # "create"
        BY <2>3 DEF Loop
      <4>4. QED
        BY <1>h, <1>f, <2>1, <2>3, <3>1, <4>2, <4>3
    <3>3. CASE ctx[c].status # "running"
      <4>1. ctx' = ctx
        BY <1>21, <3>3 DEF StoreRaises
      <4>2. QED
        BY Zenon, <2>1, <2>3, <3>1, <4>1, ExecutorStays
    <3>4. QED
      BY <3>2, <3>3
  <2>4. CASE c \in Executor /\ c \notin Canceller /\ pc[c] \notin Loop
    <3>0. ctx' = ctx
      BY <1>21, <2>4 DEF StoreRaises
    <3>1. AfterError(c) \in {"raised", "interrupted", "release", "restore"}
      BY <2>4 DEF AfterError, Exit, Unsettled, Outside
    <3>2. CASE AfterError(c) = "restore"
      <4>1. c # First
        BY <2>4, <3>2 DEF AfterError, Exit, Unsettled, Outside
      <4>2. pc[c] \in Holding \cup Leaving
        BY <1>x, <2>1, <2>4, <3>2, <4>1
           DEF AfterError, Exit, Unsettled, Outside, Ended, Holding, Leaving, TypeInv,
               ExecutorLabels, Labels, Shielded, Fresh
      <4>3. /\ "restore" \notin Holding /\ run.status # "none"
            /\ "restore" \notin Loop \cup Ending \cup {"cancelled_error"}
        BY <1>x, <1>n, <2>4, <4>1, <4>2 DEF Holding, Leaving, Loop, Ending, Fresh
      <4>4. QED
        BY <2>1, <2>4, <3>0, <3>2, <4>1, <4>2, <4>3, ExecutorStays
    <3>3. CASE AfterError(c) # "restore"
      BY <1>u, <2>1, <2>4, <3>0, <3>1, <3>3
    <3>4. QED
      BY <3>2, <3>3
  <2>5. QED
    BY <2>2, <2>3, <2>4, RunAssumption
<1>22. CASE UNCHANGED vars
  BY <1>22 DEF vars, ExecutorInv, Fresh, Counted, Exclusive, Holds, PutBackLate
<1>23. QED
  BY <1>1, <1>2, <1>3, <1>4, <1>5, <1>6, <1>7, <1>8, <1>9, <1>10, <1>11, <1>12, <1>13,
     <1>14, <1>15, <1>16, <1>17, <1>18, <1>19, <1>20, <1>21, <1>22 DEF Next, Proceed

LEMMA Invariance == Spec => [](TypeInv /\ ExecutorInv)
BY TypeInvInit, TypeInvNext, ExecutorInvInit, ExecutorInvNext, PTL DEF Spec

\* At most one executor is in the loop of AgentRuntime.execute, whatever resumes
\* race for the checkpoint, whatever store calls raise and whatever tasks are
\* cancelled, unless a resume failed after it had asked again.
THEOREM ExecutesOnce == Spec => []OneExecutor
<1>1. ExecutorInv => OneExecutor
  BY DEF ExecutorInv, Exclusive, Holds, Holding, OneExecutor
<1>2. QED
  BY <1>1, Invariance, PTL

\* Every save merges the cancellation that the store has, and a Run is created
\* once: a cancellation that was accepted is never lost.
THEOREM CancellationKept == Spec => CancelNeverLost
<1>1. TypeInv /\ ExecutorInv /\ [Next]_vars => [run.cancel => run'.cancel]_vars
  <2> SUFFICES ASSUME TypeInv, ExecutorInv, Next, run.cancel PROVE run'.cancel
    BY DEF vars
  <2> USE DEF store
  <2>1. ASSUME NEW c \in Client, NEW st, Save(c, st) PROVE run'.cancel
    <3>1. (run.cancel \/ seen[c].cancel) = TRUE
      OBVIOUS
    <3>2. run' = [status |-> st, cancel |-> TRUE]
      BY Zenon, <2>1, <3>1 DEF Save
    <3>3. QED
      BY <3>2
  <2>2. ASSUME NEW e \in Executor, BeginTurn(e) \/ Resume(e) \/ Proceed(e) \/ TaskCancelled(e)
        PROVE  run'.cancel
    <3>1. ~CreateRun(e)
      BY RunAssumption DEF CreateRun, ExecutorInv, Fresh
    <3>2. CASE SnapshotStart(e) \/ SnapshotStep(e) \/ FinalizeRun(e) \/ FinalizeInterruption(e)
      BY <2>1, <3>2 DEF SnapshotStart, SnapshotStep, FinalizeRun, FinalizeInterruption
    <3>3. CASE UNCHANGED run
      BY <3>3
    <3>4. QED
      BY <2>2, <3>1, <3>2, <3>3
         DEF BeginTurn, Resume, Proceed, TaskCancelled, LoadCheckpoint, ClaimCheckpoint,
             PrepareResume, EmitStarted, CheckCancel, Advance, StoreCheckpoint, EndTurn,
             Release, Restore, HandleCancelledError
  <2>3. ASSUME NEW c \in Canceller, Cancel(c) PROVE run'.cancel
    <3>1. CASE UNCHANGED run
      BY <3>1
    <3>2. CASE run' = [run EXCEPT !.cancel = TRUE]
      BY <3>2 DEF TypeInv, TypeOK, StoredRun
    <3>3. CASE run' = [status |-> "cancelled", cancel |-> TRUE]
      BY <3>3
    <3>4. QED
      BY <2>3, <3>1, <3>2, <3>3 DEF Cancel, GetForCancel, RequestCancel, FinalizeCancel
  <2>4. ASSUME NEW c \in Client, StoreRaises(c) PROVE run'.cancel
    BY <2>4 DEF StoreRaises
  <2>5. QED
    BY <2>2, <2>3, <2>4 DEF Next
<1>2. QED
  BY <1>1, Invariance, PTL DEF Spec, CancelNeverLost

-----------------------------------------------------------------------------
\* The stored status, when clients resume a Run that has told them that it waits
\* and nobody cancels it.

Active(e) == pc[e] # "idle" /\ ~Ended(e)

\* What the stored status may be while an executor with status x is at a label.
RunAt(label, x, status) ==
    /\ label = "create" => status = "none"
    /\ label \in {"load", "claim", "prepare"} => status = "waiting"
    /\ label \in {"start_read", "start_save"} => status \in {"created", "waiting"}
    /\ label \in Loop \cup {"emit_started", "cancelled_error"} => status = "running"
    /\ label \in {"checkpoint", "turn", "final_read", "final_save"} => status \in {"running", x}
    /\ label = "emit" => status = x
    /\ label \in {"int_turn", "int_save"} => status \in Unfinished

SequentialInv ==
    /\ \A d, e \in Executor : Active(d) /\ Active(e) => d = e
    /\ \A e \in Executor : RunAt(pc[e], ctx[e].status, run.status)

LifecycleStep == Lifecycle!Next \/ run'.status = run.status

\* A step of the one active executor.
LEMMA SequentialStep ==
  ASSUME TypeInv, SequentialInv, NEW e \in Executor, NEW label, Moves(e, label), Active(e),
         RunAt(label, ctx'[e].status, run'.status)
  PROVE  SequentialInv'
<1>1. pc'[e] = label /\ \A d \in Executor \ {e} : pc'[d] = pc[d] /\ ctx'[d] = ctx[d]
  BY ZenonT(30), MovesOnly DEF Moves
<1>2. \A d \in Executor \ {e} : ~Active(d) /\ ~Active(d)'
  BY Zenon, <1>1 DEF SequentialInv, Active, Ended
<1>3. \A d \in Executor \ {e} : RunAt(pc[d], ctx[d].status, run'.status)
  BY <1>2 DEF Active, Ended, RunAt, Loop
<1>4. QED
  BY <1>1, <1>2, <1>3 DEF SequentialInv

\* A step that leaves the stored status and the contexts alone.
LEMMA SequentialStays ==
  ASSUME TypeInv, SequentialInv, NEW e \in Executor, NEW label, Goto(e, label), Active(e),
         UNCHANGED <<ctx, asked>>, run'.status = run.status,
         RunAt(label, ctx[e].status, run.status)
  PROVE  SequentialInv' /\ LifecycleStep
<1>1. Moves(e, label)
  BY DEF Moves, Goto
<1>2. QED
  BY <1>1, SequentialStep DEF LifecycleStep

LEMMA SequentialInvInit == Init => SequentialInv
BY DEF Init, SequentialInv, Active, RunAt, Loop

LEMMA SequentialInvNext ==
  ASSUME Sequential, Canceller = {}
  PROVE  TypeInv /\ ExecutorInv /\ SequentialInv /\ [Next]_vars => SequentialInv' /\ LifecycleStep
<1> SUFFICES ASSUME TypeInv, ExecutorInv, SequentialInv, [Next]_vars
             PROVE  SequentialInv' /\ LifecycleStep
  OBVIOUS
<1> USE DEF store, local, bounds
<1>s. /\ Terminal = {"completed", "failed", "cancelled", "interrupted", "limit_reached"}
      /\ Unfinished = {"created", "running", "waiting"}
  BY DEF Terminal, Unfinished, Lifecycle!Terminal, Lifecycle!Unfinished
<1>f. \A e \in Executor : /\ Fits(pc[e], ctx[e]) /\ RunAt(pc[e], ctx[e].status, run.status)
                          /\ ctx[e] \in Context /\ ctx[e].status \in Terminal \cup Unfinished
  BY DEF TypeInv, TypeOK, Context, SequentialInv
<1>d. ctx \in [Executor -> Context] /\ run \in StoredRun
  BY DEF TypeInv, TypeOK, Context
<1>a. /\ "running" \in Lifecycle!Allowed["created"] /\ "running" \in Lifecycle!Allowed["waiting"]
      /\ \A st \in Terminal \cup {"waiting"} : st \in Lifecycle!Allowed["running"]
      /\ \A from \in Unfinished : \A st \in {"cancelled", "interrupted"} :
            st \in Lifecycle!Allowed[from]
  BY DEF Terminal, Unfinished, Lifecycle!Terminal, Lifecycle!Unfinished, Lifecycle!Allowed
<1>r. ASSUME NEW e \in Executor, NEW st, Save(e, st)
      PROVE  run'.status = st
  BY <1>r DEF Save
<1>g. \A c \in Client : \A label : Get(c, label) => Goto(c, label)
  BY DEF Get
<1>x. ASSUME NEW e \in Executor, NEW st, NEW label, Goto(e, label), UNCHANGED <<run, asked>>,
             ctx' = [ctx EXCEPT ![e].status = st], Active(e), RunAt(label, st, run.status)
      PROVE  SequentialInv' /\ LifecycleStep
  <2>1. Moves(e, label) /\ ctx'[e].status = st
    BY <1>x, <1>d DEF Moves, Goto, Context
  <2>2. QED
    BY <1>x, <2>1, SequentialStep DEF LifecycleStep
<1>v. ASSUME NEW e \in Executor, NEW st, NEW label, Goto(e, label), UNCHANGED <<ctx, asked>>,
             Active(e), run'.status = st, RunAt(label, ctx[e].status, st),
             \/ st = run.status
             \/ run.status # "none" /\ st \in Lifecycle!Allowed[run.status]
      PROVE  SequentialInv' /\ LifecycleStep
  <2>1. Moves(e, label)
    BY <1>v DEF Moves, Goto
  <2>2. QED
    BY <1>v, <2>1, SequentialStep DEF LifecycleStep, Lifecycle!Next, Lifecycle!TransitionTo
<1>1. ASSUME NEW e \in Executor, BeginTurn(e) \/ Resume(e)
      PROVE  SequentialInv' /\ LifecycleStep
  <2>1. \A d \in Executor \ {e} : ~Active(d)
    BY <1>1, RunAssumption DEF BeginTurn, Resume, ExecutorInv, Fresh, Active
  <2>2. PICK label : /\ Goto(e, label) /\ RunAt(label, ctx[e].status, run.status)
    <3>1. CASE BeginTurn(e)
      <4>1. RunAt("create", ctx[e].status, run.status)
        BY <3>1 DEF BeginTurn, ExecutorInv, Fresh, RunAt, Loop
      <4>2. QED
        BY <3>1, <4>1 DEF BeginTurn
    <3>2. CASE Resume(e)
      <4>1. /\ RunAt("raised", ctx[e].status, run.status)
            /\ run.status = "waiting" => RunAt("load", ctx[e].status, run.status)
        BY DEF RunAt, Loop
      <4>2. QED
        BY <3>2, <4>1 DEF Resume
    <3>3. QED
      BY <1>1, <3>1, <3>2
  <2>3. UNCHANGED <<run, ctx, asked>> /\ Moves(e, label)
    BY <1>1, <2>2 DEF BeginTurn, Resume, Moves, Goto
  <2>4. pc'[e] = label /\ \A d \in Executor \ {e} : pc'[d] = pc[d]
    BY <2>3, MovesOnly
  <2>5. \A d \in Executor \ {e} : ~Active(d)'
    BY <2>1, <2>4 DEF Active, Ended
  <2>6. QED
    BY ZenonT(30), <1>f, <2>2, <2>3, <2>4, <2>5 DEF SequentialInv, LifecycleStep
<1>3. ASSUME NEW e \in Executor, CreateRun(e) PROVE SequentialInv' /\ LifecycleStep
  <2>1. /\ pc[e] = "create" /\ run.status = "none" /\ run'.status = "created"
        /\ Moves(e, "start_read") /\ Active(e)
    BY <1>3, <1>f, <1>d DEF CreateRun, Moves, Goto, RunAt, Active, Ended
  <2>2. RunAt("start_read", ctx'[e].status, run'.status)
    BY <2>1 DEF RunAt, Loop
  <2>3. QED
    BY <2>1, <2>2, SequentialStep DEF LifecycleStep, Lifecycle!Next, Lifecycle!Create
<1>4. ASSUME NEW e \in Executor, LoadCheckpoint(e) \/ ClaimCheckpoint(e)
      PROVE  SequentialInv' /\ LifecycleStep
  <2>1. run' = run /\ run.status = "waiting" /\ Active(e)
    BY <1>4, <1>f DEF LoadCheckpoint, ClaimCheckpoint, RunAt, Active, Ended
  <2>2. PICK label \in {"claim", "prepare", "raised"} : Moves(e, label)
    BY <1>4, <1>d DEF LoadCheckpoint, ClaimCheckpoint, Moves, Goto, TypeInv, TypeOK
  <2>3. RunAt(label, ctx'[e].status, run'.status)
    BY <2>1 DEF RunAt, Loop
  <2>4. QED
    BY <2>1, <2>2, <2>3, SequentialStep DEF LifecycleStep
<1>5. ASSUME NEW e \in Executor, PrepareResume(e) PROVE SequentialInv' /\ LifecycleStep
  <2>1. pc[e] = "prepare" /\ run.status = "waiting" /\ Active(e) /\ UNCHANGED <<run, asked>>
    BY <1>5, <1>f DEF PrepareResume, RunAt, Active, Ended
  <2>2. /\ RunAt("start_read", "running", run.status)
        /\ RunAt("restore", ctx[e].status, run.status)
    BY <2>1 DEF RunAt, Loop
  <2>3. QED
    BY <1>5, <1>x, <2>1, <2>2, SequentialStays DEF PrepareResume
<1>6. ASSUME NEW e \in Executor, SnapshotStart(e) PROVE SequentialInv' /\ LifecycleStep
  <2>1. /\ run.status \in {"created", "waiting"} /\ Active(e) /\ UNCHANGED <<ctx, asked>>
        /\ ctx[e].status = "running"
    BY <1>6, <1>f DEF SnapshotStart, RunAt, Active, Ended, Fits, Beginning
  <2>2. /\ RunAt("start_save", ctx[e].status, run.status)
        /\ RunAt("emit_started", ctx[e].status, "running")
    BY <2>1 DEF RunAt, Loop
  <2>3. CASE pc[e] = "start_read"
    BY <1>6, <1>g, <2>1, <2>2, <2>3, SequentialStays DEF SnapshotStart
  <2>4. CASE pc[e] = "start_save"
    <3>1. run'.status = "running" /\ Goto(e, "emit_started")
      BY <1>6, <1>r, <2>1, <2>4 DEF SnapshotStart
    <3>2. QED
      BY <1>a, <1>v, <2>1, <2>2, <3>1
  <2>5. QED
    BY <1>6, <2>3, <2>4 DEF SnapshotStart
<1>7. ASSUME NEW e \in Executor, EmitStarted(e) PROVE SequentialInv' /\ LifecycleStep
  <2>1. RunAt("check", ctx[e].status, run.status) /\ Active(e)
    BY <1>7, <1>f DEF EmitStarted, RunAt, Loop, Active, Ended
  <2>2. QED
    BY <1>7, <2>1, SequentialStays DEF EmitStarted
<1>8. ASSUME NEW e \in Executor, CheckCancel(e) PROVE SequentialInv' /\ LifecycleStep
  <2>1. /\ pc[e] = "check" /\ run.status = "running" /\ Active(e) /\ UNCHANGED <<run, asked>>
    BY <1>8, <1>f DEF CheckCancel, RunAt, Loop, Active, Ended
  <2>2. /\ RunAt("checkpoint", "cancelled", run.status)
        /\ RunAt("advance", ctx[e].status, run.status)
    BY <2>1 DEF RunAt, Loop
  <2>3. QED
    BY <1>8, <1>x, <2>1, <2>2, SequentialStays DEF CheckCancel
<1>9. ASSUME NEW e \in Executor, Advance(e) PROVE SequentialInv' /\ LifecycleStep
  <2>1. /\ pc[e] = "advance" /\ run.status = "running" /\ Active(e) /\ UNCHANGED <<run, asked>>
    BY <1>9, <1>f DEF Advance, RunAt, Loop, Active, Ended
  <2>2. \A st : RunAt("checkpoint", st, run.status) /\ RunAt("step_read", st, run.status)
    BY <2>1 DEF RunAt, Loop
  <2>3. CASE Goto(e, "step_read") /\ UNCHANGED ctx
    BY <2>1, <2>2, <2>3, SequentialStays
  <2>4. CASE /\ ctx' = [ctx EXCEPT ![e] = [status |-> "waiting", question |-> @.question + 1]]
             /\ Goto(e, "step_read")
    <3>1. Moves(e, "step_read")
      BY <1>d, <2>1, <2>4 DEF Moves, Goto
    <3>2. QED
      BY <2>1, <2>2, <3>1, SequentialStep DEF LifecycleStep
  <2>5. ASSUME NEW st, ctx' = [ctx EXCEPT ![e].status = st],
               NEW label \in {"checkpoint", "step_read"}, Goto(e, label)
        PROVE  SequentialInv' /\ LifecycleStep
    BY ZenonT(30), <1>x, <2>1, <2>2, <2>5
  <2>6. QED
    BY <1>9, <2>3, <2>4, <2>5 DEF Advance
<1>10. ASSUME NEW e \in Executor, SnapshotStep(e) PROVE SequentialInv' /\ LifecycleStep
  <2>1. /\ run.status = "running" /\ Active(e) /\ UNCHANGED <<ctx, asked>>
        /\ ctx[e].status # "created"
    BY ZenonT(30), <1>10, <1>f DEF SnapshotStep, RunAt, Loop, Active, Ended, Fits
  <2>2. CASE pc[e] = "step_read"
    <3>1. RunAt("step_save", ctx[e].status, run.status)
      BY <2>1 DEF RunAt, Loop
    <3>2. QED
      BY ZenonT(30), <1>10, <1>g, <2>1, <2>2, <3>1, SequentialStays DEF SnapshotStep
  <2>3. CASE pc[e] = "step_save"
    <3> DEFINE label == IF ctx[e].status = "running" THEN "check" ELSE "checkpoint"
    <3>1. run'.status = ctx[e].status /\ Goto(e, label)
      BY <1>10, <1>r, <2>3 DEF SnapshotStep
    <3>2. RunAt(label, ctx[e].status, ctx[e].status)
      BY DEF RunAt, Loop
    <3>3. ctx[e].status = run.status \/ ctx[e].status \in Lifecycle!Allowed[run.status]
      BY <1>a, <1>f, <1>s, <2>1
    <3> HIDE DEF label
    <3>4. QED
      BY ZenonT(30), <1>v, <2>1, <3>1, <3>2, <3>3
  <2>4. QED
    BY <1>10, <2>2, <2>3 DEF SnapshotStep
<1>11. ASSUME NEW e \in Executor, StoreCheckpoint(e) \/ EndTurn(e)
      PROVE  SequentialInv' /\ LifecycleStep
  <2>1. /\ run.status \in {"running", ctx[e].status} /\ Active(e)
        /\ UNCHANGED <<run, ctx, asked>>
    BY ZenonT(30), <1>11, <1>f DEF StoreCheckpoint, EndTurn, RunAt, Active, Ended
  <2>2. PICK label \in {"turn", "final_read", "release", "restore"} : Goto(e, label)
    BY ZenonT(30), <1>11 DEF StoreCheckpoint, EndTurn, Outside
  <2>3. RunAt(label, ctx[e].status, run.status)
    BY <2>1 DEF RunAt, Loop
  <2>4. QED
    BY ZenonT(30), <2>1, <2>2, <2>3, SequentialStays
<1>12. ASSUME NEW e \in Executor, FinalizeRun(e) PROVE SequentialInv' /\ LifecycleStep
  <2>1. /\ run.status \in {"running", ctx[e].status} /\ Active(e) /\ UNCHANGED <<ctx, asked>>
        /\ ctx[e].status \in Terminal \cup {"waiting"}
    BY ZenonT(30), <1>12, <1>f DEF FinalizeRun, RunAt, Active, Ended, Fits, Ending
  <2>2. /\ RunAt("final_save", ctx[e].status, run.status)
        /\ RunAt("emit", ctx[e].status, ctx[e].status)
        /\ RunAt("int_read", ctx[e].status, run.status)
        /\ RunAt("returned", ctx[e].status, run.status)
    BY ZenonT(30), <2>1 DEF RunAt, Loop
  <2>3. CASE pc[e] = "final_read"
    BY ZenonT(30), <1>12, <1>g, <2>1, <2>2, <2>3, SequentialStays DEF FinalizeRun
  <2>4. CASE pc[e] = "final_save"
    <3>1. run'.status = ctx[e].status /\ Goto(e, "emit")
      BY ZenonT(30), <1>12, <1>r, <2>4 DEF FinalizeRun
    <3>2. QED
      BY <1>a, <1>v, <2>1, <2>2, <3>1
  <2>5. CASE pc[e] = "emit"
    <3>1. UNCHANGED run /\ \E label \in {"int_read", "returned"} : Goto(e, label)
      BY <1>12, <2>5 DEF FinalizeRun
    <3>2. QED
      BY <2>1, <2>2, <3>1, SequentialStays
  <2>6. QED
    BY ZenonT(30), <1>12, <2>3, <2>4, <2>5 DEF FinalizeRun
<1>13. ASSUME NEW e \in Executor, Release(e) \/ Restore(e) PROVE SequentialInv' /\ LifecycleStep
  <2>1. UNCHANGED <<run, ctx, asked>> /\ Active(e)
    BY <1>13 DEF Release, Restore, Active, Ended
  <2>2. PICK label \in {"interrupted", "raised"} : Goto(e, label)
    BY <1>13 DEF Release, Restore, Exit
  <2>3. RunAt(label, ctx[e].status, run.status)
    BY DEF RunAt, Loop
  <2>4. QED
    BY <2>1, <2>2, <2>3, SequentialStays
<1>14. ASSUME NEW e \in Executor, HandleCancelledError(e) PROVE SequentialInv' /\ LifecycleStep
  <2>1. run.status = "running" /\ Active(e) /\ UNCHANGED <<run, asked>> /\ Goto(e, "checkpoint")
    BY <1>14, <1>f DEF HandleCancelledError, RunAt, Active, Ended
  <2>2. \A st : RunAt("checkpoint", st, run.status)
    BY <2>1 DEF RunAt, Loop
  <2>3. CASE UNCHANGED ctx
    BY <2>1, <2>2, <2>3, SequentialStays
  <2>4. ASSUME NEW st, ctx' = [ctx EXCEPT ![e].status = st]
        PROVE  SequentialInv' /\ LifecycleStep
    BY Zenon, <1>x, <2>1, <2>2, <2>4
  <2>5. QED
    BY <1>14, <2>3, <2>4 DEF HandleCancelledError
<1>15. ASSUME NEW e \in Executor, FinalizeInterruption(e) PROVE SequentialInv' /\ LifecycleStep
  <2>1. UNCHANGED <<ctx, asked>> /\ Active(e)
    BY <1>15 DEF FinalizeInterruption, Active, Ended
  <2>2. \A label \in {"interrupted", "release", "int_delete", "int_emit"} :
           \A st : RunAt(label, ctx[e].status, st)
    BY DEF RunAt, Loop
  <2>3. CASE pc[e] = "int_read"
    <3>1. PICK label \in {"interrupted", "release", "int_turn"} :
             Goto(e, label) /\ (label = "int_turn" => run.status \in Unfinished)
      BY <1>15, <1>d, <1>s, <2>3 DEF FinalizeInterruption, Get, Unsettled, StoredRun
    <3>2. RunAt(label, ctx[e].status, run.status)
      BY <3>1 DEF RunAt, Loop
    <3>3. QED
      BY <1>15, <2>1, <2>3, <3>1, <3>2, SequentialStays DEF FinalizeInterruption
  <2>4. CASE pc[e] = "int_turn"
    <3>1. run.status \in Unfinished
      BY <1>f, <2>4 DEF RunAt
    <3>2. RunAt("int_save", ctx[e].status, run.status)
      BY <3>1 DEF RunAt, Loop
    <3>3. PICK label \in {"interrupted", "release", "int_save"} : Goto(e, label)
      BY <1>15, <2>4 DEF FinalizeInterruption, Unsettled
    <3>4. QED
      BY <1>15, <2>1, <2>2, <2>4, <3>2, <3>3, SequentialStays DEF FinalizeInterruption
  <2>5. CASE pc[e] = "int_save"
    <3>1. run.status \in Unfinished /\ run.status # "none"
      BY <1>f, <1>s, <2>5 DEF RunAt
    <3>2. Verdict(e) \in {"cancelled", "interrupted"}
      BY DEF Verdict
    <3>3. run'.status = Verdict(e) /\ Goto(e, "int_delete")
      BY <1>15, <1>r, <2>5 DEF FinalizeInterruption
    <3>4. QED
      BY <1>a, <1>v, <2>1, <2>2, <3>1, <3>2, <3>3
  <2>6. CASE pc[e] \in {"int_delete", "int_emit"}
    <3>1. UNCHANGED run /\ \E label \in {"int_emit", "interrupted"} : Goto(e, label)
      BY <1>15, <2>6 DEF FinalizeInterruption
    <3>2. QED
      BY <2>1, <2>2, <3>1, SequentialStays
  <2>7. QED
    BY <1>15, <2>3, <2>4, <2>5, <2>6 DEF FinalizeInterruption
<1>16. ASSUME NEW e \in Executor, TaskCancelled(e) PROVE SequentialInv' /\ LifecycleStep
  <2>1. /\ UNCHANGED <<run, ctx, asked>> /\ Active(e) /\ Goto(e, AfterCancelledError(e))
    BY <1>16 DEF TaskCancelled, Active
  <2>2. RunAt(AfterCancelledError(e), ctx[e].status, run.status)
    BY <1>f DEF AfterCancelledError, RunAt, Loop
  <2>3. QED
    BY <2>1, <2>2, SequentialStays
<1>17. ASSUME NEW e \in Executor, StoreRaises(e) PROVE SequentialInv' /\ LifecycleStep
  <2>1. UNCHANGED <<run, asked>> /\ Active(e) /\ Goto(e, AfterError(e))
    BY <1>17 DEF StoreRaises, Active
  <2>2. CASE pc[e] \in Loop
    <3>1. AfterError(e) = "checkpoint"
      BY <2>2 DEF AfterError, Loop, Shielded
    <3>2. \A st : RunAt("checkpoint", st, run.status)
      BY <1>f, <2>2 DEF RunAt, Loop
    <3>3. UNCHANGED ctx \/ ctx' = [ctx EXCEPT ![e].status = "failed"]
      BY <1>17 DEF StoreRaises
    <3>4. QED
      BY <1>x, <2>1, <3>1, <3>2, <3>3, SequentialStays
  <2>3. CASE pc[e] \notin Loop
    <3>1. AfterError(e) \in {"raised", "interrupted", "release", "restore"}
      BY <2>3 DEF AfterError, Exit, Unsettled, Outside
    <3>2. RunAt(AfterError(e), ctx[e].status, run.status)
      BY <3>1 DEF RunAt, Loop
    <3>3. UNCHANGED ctx
      BY <1>17, <2>3 DEF StoreRaises
    <3>4. QED
      BY <2>1, <3>2, <3>3, SequentialStays
  <2>4. QED
    BY <2>2, <2>3
<1>18. CASE UNCHANGED vars
  BY Zenon, <1>18 DEF vars, SequentialInv, Active, Ended, LifecycleStep
<1>19. QED
  BY <1>1, <1>3, <1>4, <1>5, <1>6, <1>7, <1>8, <1>9, <1>10, <1>11, <1>12, <1>13, <1>14,
     <1>15, <1>16, <1>17, <1>18 DEF Next, Proceed

\* The stored status implements the state machine of runtime/state_machine.py
\* for clients that resume a Run once they were told that it waits, whatever
\* store calls raise and wherever the task of an executor is cancelled.
THEOREM ImplementsLifecycle ==
  ASSUME Sequential, Canceller = {}
  PROVE  Spec => FollowsLifecycle
<1>1. Init => Lifecycle!Init
  BY DEF Init, NoRun, Lifecycle!Init
<1>2. TypeInv /\ ExecutorInv /\ SequentialInv /\ [Next]_vars =>
         SequentialInv' /\ [Lifecycle!Next]_(run.status)
  BY SequentialInvNext DEF LifecycleStep
<1>3. QED
  BY <1>1, <1>2, SequentialInvInit, Invariance, PTL DEF Spec, FollowsLifecycle, Lifecycle!Spec

-----------------------------------------------------------------------------
\* The Run at rest, before any store call raised and any task was cancelled.

NoFault == errors = 0 /\ interrupts = 0

LastEvent(event) == events # <<>> /\ events[Len(events)] = event

NoTerminalEvent == \A i \in DOMAIN events : events[i] \notin Terminal

\* Nobody executes the Run: it does not exist, or it can be resumed, or it has ended.
Rested ==
    \/ run.status = "none" /\ NoTerminalEvent /\ CanFinish
    \/ /\ run.status = "waiting" /\ checkpoint # 0 /\ CanFinish
       /\ LastEvent("waiting") /\ NoTerminalEvent
    \/ /\ run.status \in Terminal /\ LastEvent(run.status)
       /\ \A i \in DOMAIN events : events[i] \in Terminal => i = Len(events)

\* Executor e is under way: it answers a stored question or has one to store.
UnderWay(e) ==
    /\ NoTerminalEvent
    /\ pc[e] \notin Shielded \cup {"release", "cancelled_error"}
    /\ pc[e] \in {"load", "claim"} => checkpoint # 0
    /\ pc[e] \in {"load", "claim", "prepare", "restore"} =>
          LastEvent("waiting") /\ run.status = "waiting"
    /\ pc[e] \in {"prepare", "restore"} => asked[e] # 0
    /\ pc[e] \notin {"final_read", "final_save", "emit"} => CanFinish
    /\ pc[e] \in Ending \ {"checkpoint"} /\ ctx[e].status = "waiting" =>
          checkpoint # 0 /\ CanFinish

RestingInv ==
    NoFault => /\ \A e \in Executor : ~exc[e]
               /\ \A e \in Executor : Active(e) => UnderWay(e)
               /\ (\A e \in Executor : ~Active(e)) => Rested

LEMMA RestingInvInit == Init => RestingInv
BY DEF Init, RestingInv, NoFault, Active, Rested, NoRun, NoTerminalEvent, CanFinish, Terminal,
   Lifecycle!Terminal

\* A step of the one active executor: it stays under way, or leaves the Run at rest.
LEMMA RestingStep ==
  ASSUME TypeInv, SequentialInv, RestingInv, NoFault, NEW e \in Executor, NEW label,
         Moves(e, label), \A d \in Executor \ {e} : ~Active(d), exc' = exc,
         IF label \in {"idle", "returned", "finalized", "raised", "interrupted"}
         THEN Rested' ELSE UnderWay(e)'
  PROVE  RestingInv'
<1>1. pc'[e] = label /\ \A d \in Executor \ {e} : pc'[d] = pc[d]
  BY MovesOnly
<1>2. \A d \in Executor \ {e} : ~Active(d)'
  BY <1>1 DEF Active, Ended
<1>3. Active(e)' <=> label \notin {"idle", "returned", "finalized", "raised", "interrupted"}
  BY <1>1 DEF Active, Ended
<1>4. QED
  BY <1>2, <1>3 DEF RestingInv

LEMMA RestingInvNext ==
  ASSUME Sequential, Canceller = {}
  PROVE  TypeInv /\ ExecutorInv /\ SequentialInv /\ RestingInv /\ [Next]_vars => RestingInv'
<1> SUFFICES ASSUME TypeInv, ExecutorInv, SequentialInv, RestingInv, [Next]_vars, NoFault'
             PROVE  RestingInv'
  BY DEF RestingInv
<1> USE DEF store, local, bounds
<1>s. /\ Terminal = {"completed", "failed", "cancelled", "interrupted", "limit_reached"}
      /\ Unfinished = {"created", "running", "waiting"}
  BY DEF Terminal, Unfinished, Lifecycle!Terminal, Lifecycle!Unfinished
<1>d. /\ ctx \in [Executor -> Context] /\ errors \in Nat /\ interrupts \in Nat
      /\ asked \in [Executor -> 0..MaxWaits] /\ events \in Seq(Boundary)
  BY RunAssumption DEF TypeInv, TypeOK, Context, Boundary
<1>f. \A e \in Executor : /\ Fits(pc[e], ctx[e]) /\ RunAt(pc[e], ctx[e].status, run.status)
                          /\ Counted(e) /\ asked[e] \in Nat /\ ctx[e].question \in Nat
  BY RunAssumption DEF TypeInv, TypeOK, SequentialInv, ExecutorInv
<1>o. ASSUME NEW e \in Executor, Active(e), NoFault
      PROVE  UnderWay(e) /\ ~exc[e] /\ \A d \in Executor \ {e} : ~Active(d)
  BY Zenon, <1>o DEF RestingInv, SequentialInv
<1>l. \A c \in Client : \A label : Get(c, label) => Goto(c, label)
  BY DEF Get
<1>m. ASSUME NEW e \in Executor, Active(e), NoFault, NEW label, Moves(e, label), exc' = exc,
             IF label \in {"idle", "returned", "finalized", "raised", "interrupted"}
             THEN Rested' ELSE UnderWay(e)'
      PROVE  RestingInv'
  BY <1>m, <1>o, RestingStep
\* An executor before the end of the loop has nothing to show but its Turn.
<1>k. ASSUME NEW e \in Executor, Active(e), NoFault,
             NEW label \in Loop \cup {"start_read", "start_save", "emit_started", "checkpoint"},
             Moves(e, label), UNCHANGED <<exc, turn>>, NoTerminalEvent', CanFinish
      PROVE  RestingInv'
  <2>1. pc'[e] = label /\ CanFinish'
    BY <1>k, MovesOnly DEF CanFinish
  <2>2. UnderWay(e)'
    <3>1. /\ label \notin Shielded \cup {"release", "cancelled_error", "load", "claim", "prepare",
                                         "restore", "final_read", "final_save", "emit"}
          /\ label \notin Ending \ {"checkpoint"}
      BY <1>k DEF Loop, Shielded, Ending
    <3>2. QED
      BY <1>k, <2>1, <3>1 DEF UnderWay
  <2>3. label \notin {"idle", "returned", "finalized", "raised", "interrupted"}
    BY <1>k DEF Loop
  <2>4. QED
    BY <1>k, <1>m, <2>2, <2>3
<1>1. ASSUME NEW e \in Executor, BeginTurn(e) PROVE RestingInv'
  <2>1. /\ e = First /\ run.status = "none" /\ NoFault /\ \A d \in Executor \ {e} : ~Active(d)
        /\ ~Active(e)
    BY <1>1, RunAssumption DEF BeginTurn, ExecutorInv, Fresh, Active, NoFault
  <2>2. NoTerminalEvent
    BY <1>s, <2>1 DEF RestingInv, Rested
  <2>3. Moves(e, "create") /\ pc'[e] = "create"
    BY Zenon, <1>1, MovesOnly DEF BeginTurn, Moves, Goto
  <2>4. NoTerminalEvent' /\ CanFinish'
    BY <1>1, <1>s, <2>2 DEF BeginTurn, NoTerminalEvent, CanFinish
  <2>5. UnderWay(e)'
    BY <2>3, <2>4 DEF UnderWay, Shielded, Ending
  <2>6. QED
    BY <1>1, <2>1, <2>3, <2>5, RestingStep DEF BeginTurn
<1>2. ASSUME NEW e \in Executor, Resume(e) PROVE RestingInv'
  <2>1. /\ NoFault /\ UNCHANGED <<run, checkpoint, turn, events, exc>>
        /\ \A d \in Executor : ~Active(d)
    BY <1>2 DEF Resume, Active, NoFault
  <2>2. Rested /\ Rested'
    BY <2>1 DEF RestingInv, Rested, CanFinish, LastEvent, NoTerminalEvent
  <2>3. CASE run.status = "waiting"
    <3>1. Moves(e, "load") /\ pc'[e] = "load"
      BY ZenonT(30), <1>2, <2>3, MovesOnly DEF Resume, Moves, Goto
    <3>2. UnderWay(e)'
      BY <1>s, <2>1, <2>2, <2>3, <3>1
         DEF UnderWay, Rested, Shielded, Ending, CanFinish, LastEvent, NoTerminalEvent
    <3>3. QED
      BY <2>1, <3>1, <3>2, RestingStep
  <2>4. CASE run.status # "waiting"
    <3>1. Moves(e, "raised")
      BY <1>2, <2>4 DEF Resume, Moves, Goto
    <3>2. QED
      BY <2>1, <2>2, <3>1, RestingStep
  <2>5. QED
    BY <2>3, <2>4
<1>3. ASSUME NEW e \in Executor, CreateRun(e) PROVE RestingInv'
  <2>1. Active(e) /\ NoFault /\ pc[e] = "create" /\ Moves(e, "start_read")
    BY <1>3, <1>d DEF CreateRun, Active, Ended, NoFault, Moves, Goto
  <2>2. NoTerminalEvent' /\ CanFinish
    BY <1>3, <1>o, <2>1 DEF CreateRun, UnderWay, NoTerminalEvent
  <2>3. QED
    BY <1>3, <1>k, <2>1, <2>2 DEF CreateRun
<1>4. ASSUME NEW e \in Executor, LoadCheckpoint(e) PROVE RestingInv'
  <2>1. /\ Active(e) /\ NoFault /\ pc[e] = "load"
        /\ UNCHANGED <<run, checkpoint, turn, events, exc, ctx>>
    BY <1>4 DEF LoadCheckpoint, Active, Ended, NoFault
  <2>2. UnderWay(e) /\ checkpoint # 0
    BY <1>o, <2>1 DEF UnderWay
  <2>3. Moves(e, "claim") /\ pc'[e] = "claim"
    BY ZenonT(30), <1>4, <1>d, <2>2, MovesOnly DEF LoadCheckpoint, Moves, Goto
  <2>4. UnderWay(e)'
    BY <2>1, <2>2, <2>3 DEF UnderWay, Shielded, Ending, CanFinish, LastEvent, NoTerminalEvent
  <2>5. QED
    BY <1>m, <2>1, <2>3, <2>4
<1>5. ASSUME NEW e \in Executor, ClaimCheckpoint(e) PROVE RestingInv'
  <2>1. /\ Active(e) /\ NoFault /\ pc[e] = "claim"
        /\ UNCHANGED <<run, turn, events, exc>>
    BY <1>5 DEF ClaimCheckpoint, Active, Ended, NoFault
  <2>2. UnderWay(e) /\ checkpoint # 0
    BY <1>o, <2>1 DEF UnderWay
  <2>3. Moves(e, "prepare") /\ pc'[e] = "prepare" /\ asked'[e] # 0
    BY Zenon, <1>5, <1>d, <2>2, MovesOnly DEF ClaimCheckpoint, Moves, Goto
  <2>4. UnderWay(e)'
    BY Zenon, <2>1, <2>2, <2>3 DEF UnderWay, Shielded, Ending, CanFinish, LastEvent,
       NoTerminalEvent
  <2>5. QED
    BY <1>m, <2>1, <2>3, <2>4
<1>6. ASSUME NEW e \in Executor, PrepareResume(e) PROVE RestingInv'
  <2>1. /\ Active(e) /\ NoFault /\ pc[e] = "prepare"
        /\ UNCHANGED <<run, checkpoint, turn, events, exc, asked>>
    BY <1>6 DEF PrepareResume, Active, Ended, NoFault
  <2>2. UnderWay(e) /\ NoTerminalEvent' /\ CanFinish
    BY ZenonT(30), <1>o, <2>1 DEF UnderWay, NoTerminalEvent
  <2>3. CASE ctx' = [ctx EXCEPT ![e].status = "running"] /\ Goto(e, "start_read")
    <3>1. Moves(e, "start_read")
      BY <1>d, <2>1, <2>3 DEF Moves, Goto
    <3>2. QED
      BY <1>k, <2>1, <2>2, <3>1
  <2>4. CASE Goto(e, "restore") /\ UNCHANGED ctx
    <3>1. Moves(e, "restore") /\ pc'[e] = "restore"
      BY ZenonT(30), <2>1, <2>4, MovesOnly DEF Moves, Goto
    <3>2. UnderWay(e)'
      BY <2>1, <2>2, <3>1 DEF UnderWay, Shielded, Ending, CanFinish, LastEvent, NoTerminalEvent
    <3>3. QED
      BY <1>m, <2>1, <3>1, <3>2
  <2>5. QED
    BY <1>6, <2>3, <2>4 DEF PrepareResume
<1>7. ASSUME NEW e \in Executor, SnapshotStart(e) \/ SnapshotStep(e) PROVE RestingInv'
  <2>1. /\ Active(e) /\ NoFault /\ UNCHANGED <<turn, events, exc, asked, ctx>>
        /\ pc[e] \notin {"final_read", "final_save", "emit"}
    BY ZenonT(30), <1>7 DEF SnapshotStart, SnapshotStep, Active, Ended, NoFault
  <2>2. NoTerminalEvent' /\ CanFinish
    BY <1>o, <2>1 DEF UnderWay, NoTerminalEvent
  <2>3. PICK label \in {"start_save", "emit_started", "step_save", "check", "checkpoint"} :
           Goto(e, label)
    BY ZenonT(30), <1>7, <1>l DEF SnapshotStart, SnapshotStep
  <2>4. Moves(e, label) /\ label \in Loop \cup {"start_read", "start_save", "emit_started",
                                                "checkpoint"}
    BY <2>1, <2>3 DEF Moves, Goto, Loop
  <2>5. QED
    BY <1>k, <2>1, <2>2, <2>4
<1>8. ASSUME NEW e \in Executor, EmitStarted(e) PROVE RestingInv'
  <2>1. /\ Active(e) /\ NoFault /\ pc[e] = "emit_started" /\ UNCHANGED <<turn, exc>>
        /\ Moves(e, "check") /\ "check" \in Loop
    BY ZenonT(30), <1>8 DEF EmitStarted, Active, Ended, NoFault, Moves, Goto, Loop
  <2>2. NoTerminalEvent /\ CanFinish
    BY Zenon, <1>o, <2>1 DEF UnderWay
  <2>3. PICK event \in {"started", "resumed"} : events' = Append(events, event)
    BY <1>8 DEF EmitStarted, Emit
  <2>4. NoTerminalEvent'
    BY <1>d, <1>s, <2>2, <2>3 DEF NoTerminalEvent
  <2>5. QED
    BY <1>k, <2>1, <2>2, <2>4
<1>9. ASSUME NEW e \in Executor, CheckCancel(e) \/ Advance(e) PROVE RestingInv'
  <2>1. /\ Active(e) /\ NoFault /\ UNCHANGED <<turn, events, exc, asked>>
        /\ pc[e] \notin {"final_read", "final_save", "emit"}
    BY <1>9 DEF CheckCancel, Advance, Active, Ended, NoFault
  <2>2. NoTerminalEvent' /\ CanFinish
    BY <1>o, <2>1 DEF UnderWay, NoTerminalEvent
  <2>3. \A d \in Executor \ {e} : ctx'[d] = ctx[d]
    BY <1>9, <1>d DEF CheckCancel, Advance
  <2>4. PICK label \in {"checkpoint", "advance", "step_read"} : Goto(e, label)
    BY <1>9 DEF CheckCancel, Advance
  <2>5. Moves(e, label) /\ label \in Loop \cup {"start_read", "start_save", "emit_started",
                                                "checkpoint"}
    BY <2>1, <2>3, <2>4 DEF Moves, Goto, Loop
  <2>6. QED
    BY <1>k, <2>1, <2>2, <2>5
<1>10. ASSUME NEW e \in Executor, StoreCheckpoint(e) PROVE RestingInv'
  <2>1. /\ Active(e) /\ NoFault /\ pc[e] = "checkpoint"
        /\ UNCHANGED <<run, turn, events, exc, asked, ctx>> /\ Moves(e, "turn")
    BY <1>10 DEF StoreCheckpoint, Active, Ended, NoFault, Moves, Goto
  <2>2. UnderWay(e) /\ pc'[e] = "turn"
    BY <1>o, <2>1, MovesOnly
  <2>3. ctx[e].status = "waiting" => checkpoint' # 0
    <3>1. ctx[e].status = "waiting" => asked[e] < ctx[e].question
      BY ZenonT(30), <1>f, <2>1 DEF Counted, Ending
    <3>2. QED
      BY <1>10, <1>f, <3>1 DEF StoreCheckpoint, FromContext
  <2>4. UnderWay(e)'
    BY ZenonT(30), <2>1, <2>2, <2>3 DEF UnderWay, Shielded, CanFinish, NoTerminalEvent
  <2>5. QED
    BY <1>m, <2>1, <2>4
<1>11. ASSUME NEW e \in Executor, EndTurn(e) PROVE RestingInv'
  <2>1. /\ Active(e) /\ NoFault /\ pc[e] = "turn"
        /\ UNCHANGED <<run, checkpoint, events, exc, asked, ctx>>
    BY <1>11 DEF EndTurn, Active, Ended, NoFault
  <2>2. UnderWay(e) /\ CanFinish
    BY <1>o, <2>1 DEF UnderWay
  <2>3. Moves(e, "final_read") /\ pc'[e] = "final_read" /\ FinishTurn(ctx[e].status)
    BY ZenonT(30), <1>11, <2>1, <2>2, MovesOnly DEF EndTurn, Moves, Goto
  <2>4. ctx[e].status = "waiting" => checkpoint' # 0 /\ CanFinish'
    BY ZenonT(30), <1>s, <2>1, <2>2, <2>3 DEF UnderWay, Ending, FinishTurn, CanFinish
  <2>5. UnderWay(e)'
    BY ZenonT(30), <2>1, <2>2, <2>3, <2>4 DEF UnderWay, Shielded, NoTerminalEvent
  <2>6. QED
    BY ZenonT(30), <1>m, <2>1, <2>3, <2>5
<1>12. ASSUME NEW e \in Executor, FinalizeRun(e) PROVE RestingInv'
  <2>1. /\ Active(e) /\ NoFault /\ UNCHANGED <<checkpoint, turn, exc, asked, ctx>>
        /\ ctx[e].status \in Terminal \cup {"waiting"}
    BY ZenonT(30), <1>12, <1>f DEF FinalizeRun, Active, Ended, NoFault, Fits, Ending
  <2>2. UnderWay(e) /\ ~exc[e]
    BY <1>o, <2>1
  <2>3. CASE pc[e] \in {"final_read", "final_save"}
    <3>1. UNCHANGED events /\ \E label \in {"final_save", "emit"} : Goto(e, label)
      BY <1>12, <1>l, <2>3 DEF FinalizeRun
    <3>2. PICK label \in {"final_save", "emit"} : Moves(e, label)
      BY ZenonT(30), <2>1, <3>1 DEF Moves, Goto
    <3>3. pc'[e] = label
      BY Zenon, <3>2, MovesOnly
    <3>4. UnderWay(e)'
      BY <2>1, <2>2, <2>3, <3>1, <3>3 DEF UnderWay, Shielded, Ending, CanFinish, NoTerminalEvent
    <3>5. QED
      BY <1>m, <2>1, <3>2, <3>4
  <2>4. CASE pc[e] = "emit"
    <3>1. /\ events' = Append(events, ctx[e].status) /\ UNCHANGED run
          /\ Goto(e, "returned") /\ Moves(e, "returned")
      BY ZenonT(30), <1>12, <2>1, <2>2, <2>4 DEF FinalizeRun, Emit, Moves, Goto
    <3>2. run.status = ctx[e].status
      BY <1>f, <2>4 DEF RunAt
    <3>3. /\ Len(events') = Len(events) + 1 /\ events'[Len(events')] = run.status
          /\ events' # <<>> /\ DOMAIN events' = 1..Len(events') /\ Len(events) \in Nat
          /\ \A i \in 1..Len(events) : events'[i] = events[i] /\ events[i] \notin Terminal
      <4>1. \A i \in 1..Len(events) : events[i] \notin Terminal
        BY <1>d, <2>2 DEF UnderWay, NoTerminalEvent
      <4>2. PICK x : x = run.status
        OBVIOUS
      <4>3. events' = Append(events, x)
        BY <3>1, <3>2, <4>2
      <4>4. QED
        BY <1>d, <4>1, <4>2, <4>3
    <3>4. \A i \in DOMAIN events' : events'[i] \in Terminal => i = Len(events')
      BY <3>3
    <3>5. CASE run.status \in Terminal
      BY <1>m, <2>1, <3>1, <3>3, <3>4, <3>5 DEF Rested, LastEvent
    <3>6. CASE run.status = "waiting"
      <4>1. checkpoint' # 0 /\ CanFinish'
        BY <2>1, <2>2, <2>4, <3>2, <3>6 DEF UnderWay, Ending, CanFinish
      <4>2. NoTerminalEvent'
        BY <1>s, <3>3, <3>4, <3>6 DEF NoTerminalEvent
      <4>3. Rested'
        BY <3>1, <3>3, <3>6, <4>1, <4>2 DEF Rested, LastEvent
      <4>4. QED
        BY <1>m, <2>1, <3>1, <4>3
    <3>7. QED
      BY <2>1, <3>2, <3>5, <3>6
  <2>5. QED
    BY ZenonT(30), <1>12, <2>3, <2>4 DEF FinalizeRun
<1>13. ASSUME NEW e \in Executor, Restore(e) PROVE RestingInv'
  <2>1. /\ Active(e) /\ NoFault /\ pc[e] = "restore" /\ checkpoint' = asked[e]
        /\ UNCHANGED <<run, turn, events, exc, asked, ctx>> /\ Moves(e, "raised")
    BY <1>13 DEF Restore, Active, Ended, NoFault, Moves, Goto
  <2>2. Rested'
    BY <1>o, <2>1 DEF UnderWay, Rested, LastEvent, NoTerminalEvent, CanFinish
  <2>3. QED
    BY <1>m, <2>1, <2>2
<1>14. ASSUME NEW e \in Executor, Release(e) \/ HandleCancelledError(e) \/ FinalizeInterruption(e)
       PROVE  FALSE
  <2>1. /\ Active(e) /\ NoFault /\ pc[e] \in Shielded \cup {"release", "cancelled_error"}
    BY <1>14 DEF Release, HandleCancelledError, FinalizeInterruption, Active, Ended, NoFault,
                 Shielded
  <2>2. QED
    BY <1>o, <2>1 DEF UnderWay
<1>15. ASSUME NEW e \in Executor, TaskCancelled(e) \/ StoreRaises(e) PROVE FALSE
  BY <1>15, <1>d DEF TaskCancelled, StoreRaises, NoFault
<1>16. CASE UNCHANGED vars
  BY Zenon, <1>16 DEF vars, RestingInv, NoFault, Active, Ended, UnderWay, Rested, LastEvent,
               NoTerminalEvent, CanFinish
<1>17. QED
  BY <1>1, <1>2, <1>3, <1>4, <1>5, <1>6, <1>7, <1>8, <1>9, <1>10, <1>11, <1>12, <1>13, <1>14,
     <1>15, <1>16 DEF Next, Proceed

\* Before any fault a Run that nobody executes and that waits has its checkpoint,
\* the last boundary event names its status, and it ends once: the order in which
\* AgentRuntime.execute writes checkpoint, Turn, Run and event leaves no gap.
THEOREM RestsSound ==
  ASSUME Sequential, Canceller = {}
  PROVE  Spec => [](NoFault => WaitingIsResumable /\ EventsAgree)
<1>1. TypeInv /\ RestingInv => (NoFault => WaitingIsResumable /\ EventsAgree)
  <2> SUFFICES ASSUME TypeInv, RestingInv, NoFault PROVE WaitingIsResumable /\ EventsAgree
    OBVIOUS
  <2>s. Terminal = {"completed", "failed", "cancelled", "interrupted", "limit_reached"}
    BY DEF Terminal, Lifecycle!Terminal
  <2>1. Quiet => Rested
    BY DEF Quiet, RestingInv, Active
  <2>2. Quiet /\ run.status = "waiting" => checkpoint # 0 /\ LastEvent(run.status)
    BY <2>1, <2>s DEF Rested
  <2>3. Quiet /\ run.status \in Terminal => LastEvent(run.status)
    BY <2>1, <2>s DEF Rested
  <2>4. \A i \in DOMAIN events : events[i] \in Terminal => i = Len(events)
    BY DEF RestingInv, UnderWay, Rested, NoTerminalEvent
  <2>5. Cardinality({i \in DOMAIN events : events[i] \in Terminal}) <= 1
    <3> DEFINE S == {i \in DOMAIN events : events[i] \in Terminal}
    <3>1. S \subseteq {Len(events)}
      BY <2>4
    <3>2. IsFiniteSet({Len(events)}) /\ Cardinality({Len(events)}) = 1
      BY Zenon, FS_Singleton
    <3>3. QED
      BY <3>1, <3>2, FS_Subset
  <2>6. QED
    BY <2>2, <2>3, <2>5 DEF WaitingIsResumable, EventsAgree, LastEvent
<1>2. QED
  BY <1>1, SequentialInvInit, SequentialInvNext, RestingInvInit, RestingInvNext, Invariance, PTL
     DEF Spec
=============================================================================
