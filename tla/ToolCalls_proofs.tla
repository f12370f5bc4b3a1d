------------------------- MODULE ToolCalls_proofs ---------------------------
(***************************************************************************)
(* Proofs about what surrounds a Tool call: the side-effect ledger, for    *)
(* any set of calls and any number of attempts that race on them, and the  *)
(* batch a call belongs to, for any Tools, limits and strategy.            *)
(***************************************************************************)
EXTENDS SideEffects, Sequences, TLAPS

CONSTANTS
    Tool, Confirmed, BatchSize, MaxSteps, MaxToolCalls, Threshold, MaxFailures, ReAct, MaxIterations

VARIABLES
    status, cancel, at, steps, tools, iteration, calls, batch, observed, answers, requested,
    suspended, pending, decision, approved, approvals, ran, duplicate, failures

B == INSTANCE ToolBatch WITH pc <- at

\* The attempt got the permission to run its Tool.
Permitted(a) ==
    \/ pc[a] \in {"invoke", "running", "confirm", "recheck", "success", "unconfirmed"}
    \/ a \in sent[call[a]]

\* What holds of one call: nobody was permitted before the effect was STARTED,
\* and an UNSAFE call permits one attempt.
CallInv(c) ==
    /\ \A a \in sent[c] : call[a] = c
    /\ ledger[c].phase \in {"absent", "prepared", "aborted"} =>
          \A a \in Attempt : call[a] = c => ~Permitted(a)
    /\ c \notin Idempotent =>
          \A a, b \in Attempt :
             call[a] = c /\ call[b] = c /\ Permitted(a) /\ Permitted(b) => a = b
    /\ ledger[c].phase = "confirmed" => sent[c] # {}

\* What holds of one attempt: it ran its Tool before it confirms, and what it
\* saw CONFIRMED stays so.
AttemptInv(a) ==
    /\ pc[a] \in {"running", "confirm", "recheck", "success"} => a \in sent[call[a]]
    /\ seen[a].phase = "confirmed" => ledger[call[a]].phase = "confirmed"
    /\ seen[a].phase = "started" => ledger[call[a]].phase \in {"started", "confirmed"}
    /\ pc[a] = "success" => ledger[call[a]].phase = "confirmed"
    /\ pc[a] \in {"start", "reread"} => ledger[call[a]].phase # "absent"

\* The inductive invariant.
Inv == /\ TypeOK
       /\ \A c \in Call : CallInv(c)
       /\ \A a \in Attempt : AttemptInv(a)

LEMMA TypeInit == Init => TypeOK
  BY DEF Init, TypeOK, Absent, Effect, Phase

LEMMA TypeNext == TypeOK /\ [Next]_vars => TypeOK'
<1> SUFFICES ASSUME TypeOK, [Next]_vars PROVE TypeOK'
  OBVIOUS
<1>0. CASE UNCHANGED vars
  BY <1>0 DEF TypeOK, vars
<1>1. ASSUME NEW a \in Attempt, NEW to \in Phase, Moves(a, to)
      PROVE  ledger' \in [Call -> Effect] /\ ledger'[call[a]] \in Effect
  <2>1. call[a] \in Call /\ ledger[call[a]].revision + 1 \in Nat
    BY DEF TypeOK, Effect
  <2>2. [phase |-> to, revision |-> ledger[call[a]].revision + 1] \in Effect
    BY <2>1 DEF Effect
  <2>3. QED
    BY <1>1, <2>1, <2>2 DEF Moves, TypeOK
<1>2. ASSUME NEW a \in Attempt, Prepare(a) PROVE TypeOK'
  <2>1. [phase |-> "prepared", revision |-> 1] \in Effect
    BY DEF Effect, Phase
  <2>2. call[a] \in Call
    BY DEF TypeOK
  <2>3. ledger' \in [Call -> Effect]
    BY <1>2, <2>1, <2>2 DEF Prepare, TypeOK
  <2>4. ledger'[call[a]] \in Effect
    BY <2>2, <2>3
  <2>5. QED
    BY <1>2, <2>3, <2>4 DEF Prepare, See, Goto, TypeOK
<1>3. "started" \in Phase /\ "confirmed" \in Phase /\ "aborted" \in Phase
  BY DEF Phase
<1>4. ASSUME NEW a \in Attempt, MarkStarted(a) PROVE TypeOK'
  BY <1>1, <1>3, <1>4 DEF MarkStarted, See, Goto, TypeOK
<1>5. ASSUME NEW a \in Attempt, Confirm(a) PROVE TypeOK'
  BY <1>1, <1>3, <1>5 DEF Confirm, Goto, TypeOK
<1>6. ASSUME NEW a \in Attempt, Abort(a) PROVE TypeOK'
  BY <1>1, <1>3, <1>6 DEF Abort, Goto, TypeOK
<1>7. ASSUME NEW a \in Attempt, Reread(a) PROVE TypeOK'
  BY <1>7 DEF Reread, See, Goto, TypeOK
<1>8. ASSUME NEW a \in Attempt, Invoke(a) PROVE TypeOK'
  BY <1>8 DEF Invoke, Goto, TypeOK
<1>9. ASSUME NEW a \in Attempt,
             \/ StartConflict(a) \/ Replay(a) \/ ToolReturns(a) \/ ToolFails(a)
             \/ ConfirmConflict(a) \/ Recheck(a) \/ Crash(a)
      PROVE  TypeOK'
  BY <1>9 DEF StartConflict, Replay, ToolReturns, ToolFails, ConfirmConflict,
              Recheck, Crash, Goto, TypeOK
<1>10. QED
  BY <1>0, <1>2, <1>4, <1>5, <1>6, <1>7, <1>8, <1>9 DEF Next, Step

LEMMA InvInit == Init => Inv
<1> SUFFICES ASSUME Init PROVE Inv
  OBVIOUS
<1>1. TypeOK
  BY TypeInit
<1>2. \A c \in Call : CallInv(c)
  BY <1>1 DEF Init, TypeOK, CallInv, Permitted, Absent
<1>3. \A a \in Attempt : AttemptInv(a)
  BY <1>1 DEF Init, TypeOK, AttemptInv, Absent
<1>4. QED
  BY <1>1, <1>2, <1>3 DEF Inv

\* Steps that touch neither the ledger nor the set of attempts that ran a Tool,
\* and permit nothing.
LEMMA QuietStep ==
  ASSUME Inv, NEW a \in Attempt, NEW label,
         UNCHANGED <<ledger, call, sent>>,
         pc' = [pc EXCEPT ![a] = label],
         seen' = seen \/ seen' = [seen EXCEPT ![a] = ledger[call[a]]],
         Permitted(a)' => Permitted(a),
         AttemptInv(a)'
  PROVE  (\A c \in Call : CallInv(c)') /\ (\A b \in Attempt : AttemptInv(b)')
<1>1. \A b \in Attempt : b # a => pc'[b] = pc[b] /\ seen'[b] = seen[b]
  BY DEF Inv, TypeOK
<1>2. \A b \in Attempt : Permitted(b)' => Permitted(b)
  BY <1>1 DEF Permitted
<1>3. \A c \in Call : CallInv(c)'
  BY <1>2 DEF CallInv, Inv
<1>4. \A b \in Attempt : AttemptInv(b)'
  BY <1>1 DEF AttemptInv, Inv
<1>5. QED
  BY <1>3, <1>4

LEMMA InvNext == Inv /\ [Next]_vars => Inv'
<1> SUFFICES ASSUME Inv, [Next]_vars
             PROVE  (\A c \in Call : CallInv(c)') /\ (\A b \in Attempt : AttemptInv(b)')
  BY TypeNext DEF Inv
<1> DEFINE Goal == (\A c \in Call : CallInv(c)') /\ (\A b \in Attempt : AttemptInv(b)')
<1>0. CASE UNCHANGED vars
  BY <1>0 DEF Inv, CallInv, AttemptInv, Permitted, vars
<1>1. TypeOK /\ TypeOK'
  BY TypeNext DEF Inv
<1>2. ASSUME NEW a \in Attempt, StartConflict(a) PROVE Goal
  <2>1. Permitted(a)' => Permitted(a)
    BY <1>1, <1>2 DEF StartConflict, Goto, Permitted, TypeOK
  <2>2. AttemptInv(a)'
    BY <1>1, <1>2 DEF StartConflict, Goto, AttemptInv, TypeOK, Inv
  <2>3. QED
    BY <1>2, <2>1, <2>2, QuietStep DEF StartConflict, Goto
<1>3. ASSUME NEW a \in Attempt, Reread(a) PROVE Goal
  <2>1. Permitted(a)' => Permitted(a)
    BY <1>1, <1>3 DEF Reread, See, Goto, Permitted, TypeOK
  <2>2. AttemptInv(a)'
    BY <1>1, <1>3 DEF Reread, See, Goto, AttemptInv, TypeOK, Inv
  <2>3. QED
    BY <1>3, <2>1, <2>2, QuietStep DEF Reread, See, Goto
<1>4. ASSUME NEW a \in Attempt, ToolReturns(a) \/ ToolFails(a) PROVE Goal
  <2>1. Permitted(a)' => Permitted(a)
    BY <1>1, <1>4 DEF ToolReturns, ToolFails, Goto, Permitted, TypeOK
  <2>2. AttemptInv(a)'
    BY <1>1, <1>4 DEF ToolReturns, ToolFails, Goto, AttemptInv, TypeOK, Inv
  <2>3. QED
    BY <1>4, <2>1, <2>2, QuietStep DEF ToolReturns, ToolFails, Goto
<1>5. ASSUME NEW a \in Attempt, ConfirmConflict(a) \/ Recheck(a) PROVE Goal
  <2>1. Permitted(a)' => Permitted(a)
    BY <1>1, <1>5 DEF ConfirmConflict, Recheck, Goto, Permitted, TypeOK
  <2>2. AttemptInv(a)'
    BY <1>1, <1>5 DEF ConfirmConflict, Recheck, Goto, AttemptInv, TypeOK, Inv
  <2>3. QED
    BY <1>5, <2>1, <2>2, QuietStep DEF ConfirmConflict, Recheck, Goto
<1>6. ASSUME NEW a \in Attempt, Crash(a) PROVE Goal
  <2>1. Permitted(a)' => Permitted(a)
    BY <1>1, <1>6 DEF Crash, Goto, Permitted, TypeOK
  <2>2. AttemptInv(a)'
    BY <1>1, <1>6 DEF Crash, Goto, AttemptInv, TypeOK, Inv
  <2>3. QED
    BY <1>6, <2>1, <2>2, QuietStep DEF Crash, Goto
<1>m. ASSUME NEW a \in Attempt, NEW to \in Phase, Moves(a, to)
      PROVE  /\ \A c \in Call : c # call[a] => ledger'[c] = ledger[c]
             /\ ledger'[call[a]].phase = to
             /\ Allows(ledger[call[a]].phase, to)
             /\ ledger[call[a]].phase # "confirmed"
  BY <1>1, <1>m DEF Moves, TypeOK, Allows
<1>p. "started" \in Phase /\ "confirmed" \in Phase /\ "aborted" \in Phase
  BY DEF Phase
<1>7. ASSUME NEW a \in Attempt, Prepare(a) PROVE Goal
  <2>1. /\ \A c \in Call : c # call[a] => ledger'[c] = ledger[c]
        /\ call[a] \in Call
        /\ \/ ledger'[call[a]] = ledger[call[a]]
           \/ ledger[call[a]].phase = "absent" /\ ledger'[call[a]].phase = "prepared"
        /\ ledger'[call[a]].phase # "absent" \/ ledger'[call[a]] = ledger[call[a]]
    BY <1>1, <1>7 DEF Prepare, TypeOK, Absent
  <2>2. /\ \A b \in Attempt : b # a => pc'[b] = pc[b] /\ seen'[b] = seen[b]
        /\ pc[a] = "new" /\ pc'[a] = "start" /\ seen'[a] = ledger'[call[a]]
        /\ call' = call /\ sent' = sent
    BY <1>1, <1>7 DEF Prepare, Goto, See, TypeOK
  <2>3. \A b \in Attempt : Permitted(b)' <=> Permitted(b)
    BY <2>2 DEF Permitted
  <2>4. \A c \in Call : CallInv(c)'
    BY <2>1, <2>2, <2>3 DEF CallInv, Inv
  <2>5. ledger'[call[a]].phase # "absent"
    BY <1>1, <1>7 DEF Prepare, TypeOK, Absent, Effect
  <2>6. \A b \in Attempt : AttemptInv(b)'
    BY <2>1, <2>2, <2>5, <1>1 DEF AttemptInv, Inv, TypeOK
  <2>7. QED
    BY <2>4, <2>6
<1>8. ASSUME NEW a \in Attempt, MarkStarted(a) PROVE Goal
  <2>1. /\ \A c \in Call : c # call[a] => ledger'[c] = ledger[c]
        /\ call[a] \in Call
        /\ ledger[call[a]].phase \in {"prepared", "aborted"}
        /\ ledger'[call[a]].phase = "started"
    BY <1>1, <1>8, <1>m, <1>p DEF MarkStarted, Allows, TypeOK
  <2>2. /\ \A b \in Attempt : b # a => pc'[b] = pc[b] /\ seen'[b] = seen[b]
        /\ pc'[a] = "invoke" /\ seen'[a] = ledger'[call[a]]
        /\ call' = call /\ sent' = sent
    BY <1>1, <1>8 DEF MarkStarted, Goto, See, TypeOK
  <2>3. \A b \in Attempt : b # a => (Permitted(b)' <=> Permitted(b))
    BY <2>2 DEF Permitted
  <2>4. \A b \in Attempt : call[b] = call[a] => ~Permitted(b)
    BY <2>1 DEF Inv, CallInv
  <2>5. \A c \in Call : CallInv(c)'
    BY <2>1, <2>2, <2>3, <2>4 DEF CallInv, Inv
  <2>6. \A b \in Attempt : AttemptInv(b)'
    BY <2>1, <2>2, <1>1 DEF AttemptInv, Inv, TypeOK
  <2>7. QED
    BY <2>5, <2>6
<1>9. ASSUME NEW a \in Attempt, Replay(a) PROVE Goal
  <2>1. /\ \A b \in Attempt : b # a => pc'[b] = pc[b]
        /\ pc'[a] = "denied" \/ (pc'[a] = "invoke" /\ call[a] \in Idempotent)
        /\ seen' = seen /\ call' = call /\ sent' = sent /\ ledger' = ledger
        /\ seen[a].phase \in {"started", "confirmed"}
        /\ pc[a] = "start"
    BY <1>1, <1>9 DEF Replay, Goto, TypeOK
  <2>2. \A b \in Attempt : b # a => (Permitted(b)' <=> Permitted(b))
    BY <2>1 DEF Permitted
  <2>3. CASE pc'[a] = "denied"
    <3>1. Permitted(a)' => Permitted(a)
      BY <2>1, <2>3 DEF Permitted
    <3>2. AttemptInv(a)'
      BY <2>1, <2>3 DEF AttemptInv, Inv
    <3>3. pc' = [pc EXCEPT ![a] = "denied"]
      BY <1>1, <1>9, <2>3 DEF Replay, Goto, TypeOK
    <3>4. QED
      BY <2>1, <3>1, <3>2, <3>3, QuietStep
  <2>4. CASE pc'[a] = "invoke" /\ call[a] \in Idempotent
    <3>1. ledger[call[a]].phase \in {"started", "confirmed"}
      BY <2>1 DEF Inv, AttemptInv
    <3>2. \A c \in Call : CallInv(c)'
      BY <2>1, <2>2, <2>4, <3>1 DEF CallInv, Inv
    <3>3. \A b \in Attempt : AttemptInv(b)'
      BY <2>1, <2>4 DEF AttemptInv, Inv
    <3>4. QED
      BY <3>2, <3>3
  <2>5. QED
    BY <2>1, <2>3, <2>4
<1>10. ASSUME NEW a \in Attempt, Invoke(a) PROVE Goal
  <2>1. /\ \A b \in Attempt : b # a => pc'[b] = pc[b]
        /\ pc[a] = "invoke" /\ pc'[a] = "running"
        /\ seen' = seen /\ call' = call /\ ledger' = ledger
        /\ call[a] \in Call
        /\ sent'[call[a]] = sent[call[a]] \cup {a}
        /\ \A c \in Call : c # call[a] => sent'[c] = sent[c]
    BY <1>1, <1>10 DEF Invoke, Goto, TypeOK
  <2>2. \A b \in Attempt : call[b] \in Call
    BY <1>1 DEF TypeOK
  <2>3. \A b \in Attempt : Permitted(b)' <=> Permitted(b)
    BY <2>1, <2>2 DEF Permitted
  <2>4. \A c \in Call : CallInv(c)'
    BY <2>1, <2>3 DEF CallInv, Inv
  <2>5. \A b \in Attempt : AttemptInv(b)'
    BY <2>1, <2>2 DEF AttemptInv, Inv
  <2>6. QED
    BY <2>4, <2>5
<1>11. ASSUME NEW a \in Attempt, Confirm(a) PROVE Goal
  <2>1. /\ \A b \in Attempt : b # a => pc'[b] = pc[b]
        /\ pc[a] = "confirm" /\ pc'[a] = "success"
        /\ seen' = seen /\ call' = call /\ sent' = sent
        /\ call[a] \in Call
    BY <1>1, <1>11 DEF Confirm, Goto, TypeOK
  <2>2. /\ \A c \in Call : c # call[a] => ledger'[c] = ledger[c]
        /\ ledger'[call[a]].phase = "confirmed"
    BY <1>11, <1>m, <1>p DEF Confirm, Inv, AttemptInv
  <2>3. \A b \in Attempt : Permitted(b)' <=> Permitted(b)
    BY <2>1 DEF Permitted
  <2>4. sent[call[a]] # {}
    BY <2>1 DEF Inv, AttemptInv
  <2>5. \A c \in Call : CallInv(c)'
    BY <2>1, <2>2, <2>3, <2>4 DEF CallInv, Inv
  <2>6. \A b \in Attempt : call[b] \in Call
    BY <1>1 DEF TypeOK
  <2>7. \A b \in Attempt : AttemptInv(b)'
    BY <2>1, <2>2, <2>6 DEF AttemptInv, Inv
  <2>8. QED
    BY <2>5, <2>7
<1>12. ASSUME NEW a \in Attempt, Abort(a) PROVE Goal
  <2>1. /\ \A b \in Attempt : b # a => pc'[b] = pc[b]
        /\ pc[a] = "start" /\ pc'[a] = "dead"
        /\ seen' = seen /\ call' = call /\ sent' = sent
        /\ call[a] \in Call
    BY <1>1, <1>12 DEF Abort, Goto, TypeOK
  <2>2. /\ \A c \in Call : c # call[a] => ledger'[c] = ledger[c]
        /\ ledger'[call[a]].phase = "aborted"
        /\ ledger[call[a]].phase = "prepared"
    BY <1>12, <1>m, <1>p DEF Abort, Allows
  <2>3. \A b \in Attempt : Permitted(b)' => Permitted(b)
    BY <2>1 DEF Permitted
  <2>4. \A c \in Call : CallInv(c)'
    BY <2>1, <2>2, <2>3 DEF CallInv, Inv
  <2>5. \A b \in Attempt : call[b] \in Call
    BY <1>1 DEF TypeOK
  <2>6. \A b \in Attempt : AttemptInv(b)'
    BY <2>1, <2>2, <2>5 DEF AttemptInv, Inv
  <2>7. QED
    BY <2>4, <2>6
<1>13. QED
  BY <1>0, <1>2, <1>3, <1>4, <1>5, <1>6, <1>7, <1>8, <1>9, <1>10, <1>11, <1>12
     DEF Next, Step

LEMMA Invariance == Spec => []Inv
<1>1. QED
  BY InvInit, InvNext, PTL DEF Spec

\* Every variable keeps its type.
THEOREM TypeCorrect == Spec => []TypeOK
  BY Invariance, PTL DEF Inv

\* An UNSAFE Tool runs at most once for a call, for any number of attempts.
THEOREM UnsafeRunsAtMostOnce == Spec => []UnsafeAtMostOnce
<1>1. Inv => UnsafeAtMostOnce
  BY DEF Inv, TypeOK, CallInv, Permitted, UnsafeAtMostOnce
<1>2. QED
  BY <1>1, Invariance, PTL

\* PREPARED and ABORTED evidence is true: the Tool was not run and is not about
\* to be.
THEOREM EvidenceIsConservative == Spec => []EvidenceConservative
<1>1. Inv => EvidenceConservative
  BY DEF Inv, TypeOK, CallInv, Permitted, EvidenceConservative
<1>2. QED
  BY <1>1, Invariance, PTL

\* What is CONFIRMED ran, and what is reported as a success is CONFIRMED.
THEOREM SuccessfulIsConfirmed == Spec => []SuccessIsConfirmed
<1>1. Inv => SuccessIsConfirmed
  BY DEF Inv, CallInv, AttemptInv, SuccessIsConfirmed
<1>2. QED
  BY <1>1, Invariance, PTL

\* The ledger can be relied on, whatever attempts race and wherever they crash: the
\* invariants above hold together.
THEOREM EffectsReliable == Spec => []EffectsInv
  BY TypeCorrect, UnsafeRunsAtMostOnce, EvidenceIsConservative, SuccessfulIsConfirmed, PTL
     DEF EffectsInv

-----------------------------------------------------------------------------
(***************************************************************************)
(* The batch of Tool calls.  What a batch has observed, what it has still  *)
(* to execute and what it waits for are together the calls of the last     *)
(* response (SplitInv, HeldInv); a call that is still to execute has       *)
(* neither run nor an answer (WaitingInv); and what may still run has been *)
(* counted (BudgetInv).                                                    *)
(***************************************************************************)

\* The provers tried, in order; steps on several records take longer than their defaults.
USE SMTT(20), Z3T(20), ZenonT(20)

\* The calls that were answered or executed, and where the strategy is.
Touched == B!Range(answers) \cup B!Range(ran)
InBatch == at \in {"responded", "call", "execute", "after"}
Held == suspended # B!NotSuspended

\* Every call has the name of its place in the response, and none is asked twice.
NamesInv ==
    /\ \A i \in DOMAIN calls : calls[i].id[2] = i /\ calls[i].id \in requested
    /\ requested \subseteq (1..steps) \X (1..BatchSize)
    /\ at = "model" => \A id \in requested : id[1] < steps
    /\ approvals \subseteq requested

\* The batch is the calls of the response without those observed.
SplitInv ==
    InBatch =>
       /\ ~Held
       /\ Len(observed) + Len(batch) = Len(calls)
       /\ \A i \in DOMAIN observed : observed[i] = calls[i].id
       /\ \A i \in DOMAIN batch : batch[i] = calls[Len(observed) + i]
       /\ \A i \in DOMAIN batch : batch[i].id \notin Touched \cup (approvals \ {approved})
       /\ at = "execute" => batch # <<>>

\* So is the suspended batch with the waiting call.
HeldInv ==
    LET k == Len(suspended.observed) + 1 IN
    Held => /\ at \in {"wait", "check", "advance", "end"}
            /\ suspended.remaining \in Seq(B!ToolCall) /\ suspended.observed \in Seq(B!CallId)
            /\ k + Len(suspended.remaining) = Len(calls)
            /\ suspended.waiting = calls[k]
            /\ \A i \in DOMAIN suspended.observed : suspended.observed[i] = calls[i].id
            /\ \A i \in DOMAIN suspended.remaining : suspended.remaining[i] = calls[k + i]
            /\ \A i \in DOMAIN suspended.remaining :
                  suspended.remaining[i].id \notin Touched \cup approvals

\* The waiting call has not run, and has no result, when its Tool is still to run.
WaitingInv ==
    LET id == suspended.waiting.id IN
    /\ at = "wait" => /\ Held /\ pending # "none" /\ decision = "none"
                      /\ id \notin B!Range(answers)
                      /\ pending = "confirmation" => id \notin B!Range(ran) \cup approvals
    /\ decision # "none" => Held /\ at \in {"check", "advance", "end"}
    /\ decision = "approve" => id \in approvals /\ id \notin Touched
    /\ decision = "reject" => id \notin B!Range(ran) \cup approvals
    /\ approved # B!NoCall =>
          /\ approved \in approvals
          /\ at \in {"call", "execute", "end"}
          /\ at # "end" => batch # <<>> /\ batch[1].id = approved

\* The calls that were counted and may still run their Tool.
Owed == \/ at = "execute"
        \/ at = "wait" /\ pending = "confirmation"
        \/ at # "end" /\ decision = "approve"
        \/ at = "call" /\ approved # B!NoCall

\* What ran, and what may still run, was counted by ExecutionBudget.
BudgetInv ==
    /\ Len(ran) <= tools
    /\ Owed => Len(ran) + 1 <= tools
    /\ at = "advance" => steps < MaxSteps
    /\ at = "model" => steps >= 1

\* The inductive invariant.
BInv == /\ B!TypeOK /\ B!AnsweredOnce /\ B!OnlyApprovedRun
        /\ NamesInv /\ SplitInv /\ HeldInv /\ WaitingInv /\ BudgetInv


LEMMA AppendOnce ==
  ASSUME NEW S, NEW s \in Seq(S), NEW x \in S
  PROVE  /\ Append(s, x) \in Seq(S)
         /\ B!Range(Append(s, x)) = B!Range(s) \cup {x}
         /\ Len(Append(s, x)) = Len(s) + 1
         /\ B!IsInjective(s) /\ x \notin B!Range(s) => B!IsInjective(Append(s, x))
<1>1. PICK t : t = Append(s, x)
  BY Zenon
<1>2. /\ t \in Seq(S) /\ Len(t) = Len(s) + 1 /\ t[Len(s) + 1] = x
      /\ DOMAIN t = 1..Len(t) /\ DOMAIN s = 1..Len(s) /\ Len(s) \in Nat
      /\ \A i \in 1..Len(s) : t[i] = s[i]
  BY <1>1
<1>3. B!Range(t) = B!Range(s) \cup {x}
  BY <1>2 DEF B!Range
<1>4. ASSUME B!IsInjective(s), x \notin B!Range(s) PROVE B!IsInjective(t)
  BY <1>2, <1>4 DEF B!IsInjective, B!Range
<1>5. QED
  BY <1>1, <1>2, <1>3, <1>4

LEMMA AppendPlaces ==
  ASSUME NEW S, NEW s \in Seq(S), NEW x \in S
  PROVE  /\ Append(s, x) \in Seq(S) /\ Len(Append(s, x)) = Len(s) + 1 /\ Len(s) \in Nat
         /\ DOMAIN Append(s, x) = DOMAIN s \cup {Len(s) + 1}
         /\ \A i \in DOMAIN s : Append(s, x)[i] = s[i]
         /\ Append(s, x)[Len(s) + 1] = x
OBVIOUS

LEMMA ConsPlaces ==
  ASSUME NEW S, NEW s \in Seq(S), NEW x \in S
  PROVE  /\ <<x>> \o s \in Seq(S) /\ Len(<<x>> \o s) = Len(s) + 1 /\ Len(s) \in Nat
         /\ (<<x>> \o s)[1] = x /\ DOMAIN (<<x>> \o s) = 1..(Len(s) + 1)
         /\ \A i \in DOMAIN (<<x>> \o s) :
               i = 1 \/ (i - 1 \in DOMAIN s /\ (<<x>> \o s)[i] = s[i - 1])
<1>1. <<x>> \in Seq(S) /\ Len(<<x>>) = 1 /\ <<x>>[1] = x
  OBVIOUS
<1>2. PICK t : t = <<x>> \o s
  BY Zenon
<1>3. /\ t \in Seq(S) /\ Len(t) = Len(s) + 1 /\ Len(s) \in Nat /\ DOMAIN t = 1..Len(t)
      /\ DOMAIN s = 1..Len(s)
  BY <1>1, <1>2
<1>4. \A i \in 1..Len(t) : t[i] = IF i <= 1 THEN <<x>>[i] ELSE s[i - 1]
  BY <1>1, <1>2, <1>3
<1>5. QED
  BY <1>1, <1>2, <1>3, <1>4

\* Where the first call without an observation stands.
LEMMA Places ==
  ASSUME NEW o \in Nat, NEW r \in Nat, NEW n \in Nat, o + 1 + r = n
  PROVE  /\ o + 1 \in 1..n /\ o + 1 \in Nat /\ o + (r + 1) = n
         /\ \A i \in 1..r : o + 1 + i \in 1..n
OBVIOUS

LEMMA InitInv == B!BatchAssumption /\ B!Init => BInv
<1> SUFFICES ASSUME B!BatchAssumption, B!Init PROVE BInv
  OBVIOUS
<1>0. B!NoCall \in B!CallId
  BY DEF B!CallId
<1>a. 0 \in 0..MaxSteps /\ 0 \in 0..MaxToolCalls /\ 0 \in 0..MaxIterations
  BY DEF B!BatchAssumption
<1>b. <<>> \in Seq(B!ToolCall) /\ <<>> \in Seq(B!CallId)
  OBVIOUS
<1>1. B!TypeOK
  BY Zenon, <1>0, <1>a, <1>b DEF B!Init, B!TypeOK
<1>2. B!Range(<<>>) = {} /\ B!IsInjective(<<>>)
  BY DEF B!Range, B!IsInjective
<1>3. B!AnsweredOnce /\ B!OnlyApprovedRun
  BY <1>2 DEF B!Init, B!AnsweredOnce, B!OnlyApprovedRun
<1>4. NamesInv /\ SplitInv
  BY DEF B!Init, NamesInv, SplitInv, InBatch
<1>5. HeldInv
  BY Zenon DEF B!Init, HeldInv, Held
<1>6. WaitingInv /\ BudgetInv
  BY DEF B!Init, WaitingInv, BudgetInv, Owed, B!BatchAssumption
<1>7. QED
  BY <1>1, <1>3, <1>4, <1>5, <1>6 DEF BInv

\* What a step that only moves on in the loop leaves alone.
Data == <<calls, batch, observed, answers, requested, suspended, pending, decision,
          approved, approvals, ran>>

LEMMA MoveInv ==
  ASSUME BInv, B!TypeOK', UNCHANGED Data,
         steps <= steps', at' = "model" => steps < steps', at' = "advance" => steps' < MaxSteps,
         tools <= tools',
         InBatch' => InBatch,
         at' = "execute" => batch # <<>> /\ Len(ran) + 1 <= tools',
         at' = "wait" => at = "wait",
         Held => at' \in {"wait", "check", "advance", "end"},
         decision # "none" => at' \in {"check", "advance", "end"},
         approved # B!NoCall => at' = "end" \/ (at' \in {"call", "execute"} /\ at = "call"),
         at' # "end" => at # "end"
  PROVE  BInv'
<1>1. B!AnsweredOnce'
  BY DEF BInv, B!AnsweredOnce, Data
<1>2. B!OnlyApprovedRun'
  BY DEF BInv, B!OnlyApprovedRun, Data
<1>3. NamesInv'
  <2>1. (1..steps) \X (1..BatchSize) \subseteq (1..steps') \X (1..BatchSize)
    BY DEF BInv, B!TypeOK
  <2>2. at' = "model" => \A id \in requested : id[1] < steps'
    BY DEF BInv, B!TypeOK, NamesInv
  <2>3. QED
    BY <2>1, <2>2 DEF BInv, NamesInv, Data
<1>4. SplitInv'
  BY DEF BInv, SplitInv, Data, Touched, Held
<1>5. HeldInv'
  BY Zenon DEF BInv, HeldInv, Data, Touched, Held
<1>6. WaitingInv'
  BY DEF BInv, WaitingInv, Data, Touched, Held
<1>7. BudgetInv'
  BY DEF BInv, BudgetInv, WaitingInv, Owed, Data, B!TypeOK
<1>8. QED
  BY <1>1, <1>2, <1>3, <1>4, <1>5, <1>6, <1>7 DEF BInv

LEMMA EndsInv ==
  ASSUME BInv, B!TypeOK', UNCHANGED Data, UNCHANGED <<steps, tools>>, at' = "end"
  PROVE  BInv'
<1>1. steps <= steps' /\ tools <= tools'
  BY DEF BInv, B!TypeOK
<1>2. InBatch' => InBatch
  BY DEF InBatch
<1>3. /\ at' = "model" => steps < steps'
      /\ at' = "advance" => steps' < MaxSteps
      /\ at' = "execute" => batch # <<>> /\ Len(ran) + 1 <= tools'
      /\ at' = "wait" => at = "wait"
      /\ Held => at' \in {"wait", "check", "advance", "end"}
      /\ decision # "none" => at' \in {"check", "advance", "end"}
      /\ approved # B!NoCall => at' = "end" \/ (at' \in {"call", "execute"} /\ at = "call")
      /\ at' # "end" => at # "end"
  OBVIOUS
<1>4. QED
  BY Zenon, <1>1, <1>2, <1>3, MoveInv

LEMMA MoveStep ==
  ASSUME B!BatchAssumption, BInv,
         \/ B!LoopTop \/ B!RequestModel \/ B!AfterResponse \/ B!RecordBatch \/ B!CancelBatch \/ B!AfterCall
         \/ B!RequestCancel
  PROVE  BInv'
<1>1. B!TypeOK /\ HeldInv /\ WaitingInv /\ SplitInv
  BY DEF BInv
<1>2. CASE B!LoopTop
  <2>1. B!TypeOK' /\ UNCHANGED Data
    BY <1>1, <1>2 DEF B!TypeOK, B!LoopTop, B!Ends, B!counters, B!human, B!policies, Data
  <2>2. QED
    BY <1>1, <1>2, <2>1, MoveInv DEF B!LoopTop, B!Ends, B!counters, B!TypeOK, WaitingInv,
       InBatch, B!StepsUsedUp,
       B!BatchAssumption
<1>3. CASE B!RequestModel
  <2>1. steps' \in 0..MaxSteps /\ iteration' \in 0..MaxIterations /\ steps <= steps'
    BY <1>1, <1>3 DEF B!TypeOK, B!RequestModel, B!counters, B!BatchAssumption, BInv, BudgetInv
  <2>2. B!TypeOK' /\ UNCHANGED Data
    BY <1>1, <1>3, <2>1 DEF B!TypeOK, B!RequestModel, B!Ends, B!counters, B!human, B!policies,
       Data
  <2>3. QED
    BY <1>1, <1>3, <2>1, <2>2, MoveInv DEF B!RequestModel, B!Ends, B!counters, B!TypeOK,
       WaitingInv, InBatch,
       B!BatchAssumption, Held
<1>4. CASE B!AfterResponse
  <2>1. B!TypeOK' /\ UNCHANGED Data
    BY <1>1, <1>4 DEF B!TypeOK, B!AfterResponse, B!Ends, B!counters, B!human, B!policies, Data
  <2>2. QED
    BY <1>1, <1>4, <2>1, MoveInv DEF B!AfterResponse, B!Ends, B!counters, B!TypeOK, WaitingInv,
       InBatch,
       B!BatchAssumption, SplitInv, Held
<1>5. CASE B!RecordBatch
  <2>1. B!TypeOK' /\ UNCHANGED Data
    BY <1>1, <1>5 DEF B!TypeOK, B!RecordBatch, B!Ends, B!counters, B!human, B!policies, Data
  <2>2. QED
    BY <1>1, <1>5, <2>1, MoveInv DEF B!RecordBatch, B!Ends, B!counters, B!TypeOK, WaitingInv,
       InBatch,
       B!BatchAssumption, SplitInv, Held
<1>6. CASE B!CancelBatch
  <2>1. B!TypeOK' /\ UNCHANGED Data
    BY <1>1, <1>6 DEF B!TypeOK, B!CancelBatch, B!Ends, B!counters, B!human, B!policies, Data
  <2>2. QED
    BY <1>1, <1>6, <2>1, MoveInv DEF B!CancelBatch, B!Ends, B!counters, B!TypeOK, InBatch,
       B!BatchAssumption
<1>7. CASE B!AfterCall
  <2>1. B!TypeOK' /\ UNCHANGED Data
    BY <1>1, <1>7 DEF B!TypeOK, B!AfterCall, B!Ends, B!counters, B!human, B!policies, Data
  <2>2. QED
    BY <1>1, <1>7, <2>1, MoveInv DEF B!AfterCall, B!Ends, B!counters, B!TypeOK, WaitingInv,
       InBatch,
       B!BatchAssumption, SplitInv, Held
<1>8. CASE B!RequestCancel
  <2>1. B!TypeOK' /\ UNCHANGED Data
    BY <1>1, <1>8 DEF B!TypeOK, B!RequestCancel, B!Ends, B!counters, B!human, B!policies, Data
  <2>2. CASE at' = "end"
    BY Zenon, <1>8, <2>1, <2>2, EndsInv DEF B!RequestCancel, B!counters
  <2>3. CASE at' = at
    <3>1. /\ B!AnsweredOnce' /\ B!OnlyApprovedRun' /\ NamesInv' /\ SplitInv' /\ HeldInv' /\ WaitingInv'
          /\ BudgetInv'
      BY Zenon, <1>8, <2>1, <2>3 DEF BInv, B!RequestCancel, B!counters, Data, B!AnsweredOnce,
         B!OnlyApprovedRun,
         NamesInv, SplitInv, HeldInv, WaitingInv, BudgetInv, Owed, Touched, Held, InBatch
    <3>2. QED
      BY <2>1, <3>1 DEF BInv
  <2>4. QED
    BY <1>8, <2>2, <2>3 DEF B!RequestCancel, B!Ends
<1>9. QED
  BY <1>2, <1>3, <1>4, <1>5, <1>6, <1>7, <1>8

\* The calls of a new response have new names.
LEMMA ModelRespondsStep ==
  ASSUME B!BatchAssumption, BInv, B!ModelResponds PROVE BInv'
<1>1. B!TypeOK /\ HeldInv /\ WaitingInv /\ NamesInv /\ ~Held /\ decision = "none" /\ approved = B!NoCall
  BY DEF BInv, B!ModelResponds, HeldInv, WaitingInv
<1>2. CASE B!Ends("failed") /\ UNCHANGED <<calls, batch, observed, requested>>
  <2>1. B!TypeOK' /\ UNCHANGED Data
    BY <1>1, <1>2 DEF B!TypeOK, B!ModelResponds, B!Ends, B!counters, B!human, B!policies, Data
  <2>2. QED
    BY Zenon, <1>2, <2>1, EndsInv DEF B!ModelResponds, B!Ends, B!counters
<1>3. ASSUME NEW n \in 0..BatchSize, NEW chosen \in [1..n -> Tool],
             calls' = [i \in 1..n |-> [id |-> <<steps, i>>, tool |-> chosen[i]]],
             batch' = calls', observed' = <<>>,
             requested' = requested \cup {<<steps, i>> : i \in 1..n},
             at' = "responded", UNCHANGED status
      PROVE  BInv'
  <2>1. UNCHANGED <<cancel, B!counters, answers, suspended, B!human, approved, ran, B!policies>> /\ at = "model"
    BY DEF B!ModelResponds
  <2>2. /\ \A i \in 1..n : <<steps, i>> \in (1..steps) \X (1..BatchSize)
        /\ (1..steps) \X (1..BatchSize) \subseteq B!CallId
    <3>1. steps >= 1
      BY <2>1 DEF BInv, BudgetInv
    <3>2. QED
      BY <1>1, <1>3, <3>1 DEF B!TypeOK, B!CallId, B!BatchAssumption
  <2>3. \A i \in 1..n : [id |-> <<steps, i>>, tool |-> chosen[i]] \in B!ToolCall
    BY <2>2 DEF B!ToolCall
  <2>4. calls' \in Seq(B!ToolCall) /\ Len(calls') = n /\ DOMAIN calls' = 1..n
    BY <1>3, <2>3 DEF B!BatchAssumption
  <2>5. requested' \subseteq B!CallId
    BY <1>1, <1>3, <2>2 DEF B!TypeOK
  <2>6. B!TypeOK'
    BY <1>1, <1>3, <2>1, <2>4, <2>5 DEF B!TypeOK, B!counters, B!human, B!policies
  <2>7. \A i \in 1..n : <<steps, i>> \notin requested
    BY <1>1, <2>1 DEF NamesInv
  <2>8. \A i \in 1..n : calls'[i].id = <<steps, i>>
    BY <1>3
  <2>9. B!AnsweredOnce'
    BY <1>3, <2>1 DEF BInv, B!AnsweredOnce
  <2>10. B!OnlyApprovedRun'
    <3>1. B!Range(ran) \subseteq requested
      BY DEF BInv, B!AnsweredOnce
    <3>2. \A i \in DOMAIN calls' : calls'[i].id \notin B!Range(ran)
      BY Zenon, <2>4, <2>7, <2>8, <3>1
    <3>3. QED
      BY <1>1, <2>1, <3>2 DEF B!OnlyApprovedRun, B!human
  <2>11. NamesInv'
    BY <1>1, <1>3, <2>1, <2>2, <2>4, <2>8 DEF NamesInv, B!counters, B!human
  <2>12. SplitInv'
    <3>1. \A i \in DOMAIN calls' : calls'[i].id \notin Touched \cup approvals
      BY <1>1, <2>4, <2>7, <2>8 DEF Touched, BInv, B!AnsweredOnce, NamesInv
    <3>2. QED
      <4>1. Touched' = Touched /\ approvals' = approvals /\ ~Held' /\ at' # "execute"
        BY <1>1, <1>3, <2>1 DEF Touched, Held, B!human
      <4>2. \A i \in DOMAIN batch' : batch'[i] = calls'[0 + i]
        <5>1. \A i \in 1..n : 0 + i = i
          OBVIOUS
        <5>2. QED
          BY Zenon, <1>3, <2>4, <5>1
      <4>3. Len(observed') = 0 /\ DOMAIN observed' = {} /\ Len(batch') = n /\ n \in Nat
        BY <1>3, <2>4 DEF B!BatchAssumption
      <4>4. \A i \in DOMAIN batch' : batch'[i].id \notin Touched' \cup (approvals' \ {approved'})
        BY Zenon, <1>3, <3>1, <4>1
      <4>5. Len(observed') + Len(batch') = Len(calls')
        BY <1>3, <2>4, <4>3
      <4>6. \A i \in DOMAIN batch' : batch'[i] = calls'[Len(observed') + i]
        BY Zenon, <4>2, <4>3
      <4>7. QED
        BY Zenon, <4>1, <4>3, <4>4, <4>5, <4>6 DEF SplitInv
  <2>13. HeldInv' /\ WaitingInv'
    BY Zenon, <1>1, <1>3, <2>1 DEF HeldInv, WaitingInv, Held, B!human
  <2>14. BudgetInv'
    BY <1>1, <1>3, <2>1 DEF BInv, BudgetInv, Owed, B!counters, B!human
  <2>15. QED
    BY <2>6, <2>9, <2>10, <2>11, <2>12, <2>13, <2>14 DEF BInv
<1>4. QED
  BY <1>2, <1>3 DEF B!ModelResponds

LEMMA BatchFacts ==
  ASSUME BInv, InBatch, batch # <<>>
  PROVE  /\ Head(batch) = batch[1] /\ Head(batch) = calls[Len(observed) + 1]
         /\ Head(batch) \in B!ToolCall /\ Head(batch).id \in requested /\ Head(batch).id \in B!CallId
         /\ Head(batch).id \notin Touched /\ Head(batch).id # B!NoCall
         /\ Head(batch).id \in approvals => Head(batch).id = approved
         /\ Tail(batch) \in Seq(B!ToolCall) /\ Len(Tail(batch)) = Len(batch) - 1
         /\ \A i \in DOMAIN Tail(batch) : i + 1 \in DOMAIN batch /\ Tail(batch)[i] = batch[i + 1]
         /\ Len(observed) + 1 \in DOMAIN calls
         /\ \A i \in DOMAIN calls : calls[i].id = Head(batch).id => calls[i] = Head(batch)
         /\ \A i \in DOMAIN Tail(batch) : Tail(batch)[i].id # Head(batch).id
<1>1. B!TypeOK /\ SplitInv /\ NamesInv
  BY DEF BInv
<1>2. batch \in Seq(B!ToolCall) /\ Len(batch) > 0 /\ Len(observed) \in Nat /\ Len(calls) \in Nat
  BY <1>1 DEF B!TypeOK
<1>3. /\ Head(batch) = batch[1] /\ Head(batch) \in B!ToolCall /\ 1 \in DOMAIN batch
      /\ Tail(batch) \in Seq(B!ToolCall) /\ Len(Tail(batch)) = Len(batch) - 1
      /\ \A i \in DOMAIN Tail(batch) : i + 1 \in DOMAIN batch /\ Tail(batch)[i] = batch[i + 1]
  BY <1>2
<1>4. Len(observed) + 1 \in DOMAIN calls /\ Head(batch) = calls[Len(observed) + 1]
  <2>1. Len(observed) + Len(batch) = Len(calls) /\ batch[1] = calls[Len(observed) + 1]
    BY <1>1, <1>3 DEF SplitInv
  <2>2. DOMAIN calls = 1..Len(calls) /\ Len(batch) \in Nat
    BY <1>1, <1>2 DEF B!TypeOK
  <2>3. QED
    BY <1>2, <1>3, <2>1, <2>2
<1>5. Head(batch).id \in requested /\ Head(batch).id[2] = Len(observed) + 1
  BY <1>1, <1>4 DEF NamesInv
<1>6. Head(batch).id # B!NoCall
  BY <1>1, <1>2, <1>5 DEF B!NoCall
<1>7. Head(batch).id \notin Touched /\ (Head(batch).id \in approvals => Head(batch).id = approved)
  BY <1>1, <1>3 DEF SplitInv
<1>8. \A i \in DOMAIN calls : calls[i].id = Head(batch).id => calls[i] = Head(batch)
  BY <1>1, <1>4, <1>5 DEF NamesInv
<1>9. \A i \in DOMAIN Tail(batch) : Tail(batch)[i].id # Head(batch).id
  <2> TAKE i \in DOMAIN Tail(batch)
  <2>1. Tail(batch)[i] = calls[Len(observed) + (i + 1)] /\ Len(observed) + (i + 1) \in DOMAIN calls
    BY <1>1, <1>2, <1>3 DEF SplitInv, B!TypeOK
  <2>2. Tail(batch)[i].id[2] = Len(observed) + (i + 1) /\ i \in Nat /\ i >= 1
    BY <1>1, <1>3, <2>1 DEF NamesInv
  <2>3. QED
    BY <1>2, <1>5, <2>2
<1>10. Head(batch).id \in B!CallId
  BY <1>1, <1>5 DEF B!TypeOK
<1>11. QED
  BY Zenon, <1>3, <1>4, <1>5, <1>6, <1>7, <1>8, <1>9, <1>10

\* A call is counted before it is executed, and a redirect gives it its Tool message.
LEMMA BeginCallStep ==
  ASSUME B!BatchAssumption, BInv, B!BeginCall PROVE BInv'
<1> DEFINE first == Head(batch)
           verdict == B!BeforeTool(first)
<1>1. B!TypeOK /\ HeldInv /\ WaitingInv /\ SplitInv /\ InBatch /\ batch # <<>> /\ at = "call" /\ ~Held
  BY DEF BInv, B!BeginCall, InBatch, SplitInv
<1>2. /\ first \in B!ToolCall /\ first.id \in B!CallId /\ first.id \in requested /\ first.id # B!NoCall
      /\ first.id \notin Touched
  BY <1>1, BatchFacts
<1>3. /\ UNCHANGED <<cancel, steps, iteration, calls, observed, requested, suspended, B!human, approved,
                     ran, failures>>
      /\ decision = "none"
  BY <1>1 DEF B!BeginCall, WaitingInv
<1>4. CASE first.id = approved
  <2>1. at' = "execute" /\ UNCHANGED <<status, tools, batch, answers, duplicate>>
    BY <1>4 DEF B!BeginCall
  <2>2. B!TypeOK' /\ UNCHANGED Data
    BY <1>1, <1>3, <2>1 DEF B!TypeOK, B!human, Data
  <2>3. Len(ran) + 1 <= tools'
    BY <1>1, <1>2, <1>4, <2>1 DEF BInv, BudgetInv, Owed
  <2>4. QED
    BY <1>1, <1>3, <2>1, <2>2, <2>3, MoveInv DEF B!TypeOK, InBatch
<1>5. CASE first.id # approved /\ verdict = "stop"
  <2>1. B!Ends("limit_reached") /\ UNCHANGED <<tools, batch, answers, duplicate>>
    BY <1>5 DEF B!BeginCall
  <2>2. B!TypeOK' /\ UNCHANGED Data
    BY <1>1, <1>3, <2>1 DEF B!TypeOK, B!human, Data, B!Ends
  <2>3. QED
    BY Zenon, <1>3, <2>1, <2>2, EndsInv DEF B!Ends
<1>6. approved = B!NoCall \/ first.id = approved
  BY <1>1, BatchFacts DEF WaitingInv
<1>7. ASSUME first.id # approved, verdict # "stop"
      PROVE  /\ tools' = tools + 1 /\ tools' \in 0..MaxToolCalls
             /\ duplicate' = [tool |-> first.tool, count |-> B!Repeated(first)] /\ B!Repeated(first) \in Nat
             /\ verdict \in {"redirect", "continue"} /\ approved = B!NoCall
  <2>1. tools < MaxToolCalls /\ verdict \in {"redirect", "continue"}
    BY <1>1, <1>7 DEF B!BeforeTool, B!TypeOK, B!BatchAssumption
  <2>2. B!Repeated(first) \in Nat
    BY <1>1 DEF B!Repeated, B!TypeOK
  <2>3. tools' = tools + 1 /\ duplicate' = [tool |-> first.tool, count |-> B!Repeated(first)]
    BY <1>7, <2>1 DEF B!BeginCall
  <2>4. QED
    BY <1>1, <1>6, <1>7, <2>1, <2>2, <2>3 DEF B!TypeOK, B!BatchAssumption
<1>8. CASE first.id # approved /\ verdict = "continue"
  <2>1. tools' = tools + 1 /\ at' = "execute" /\ UNCHANGED <<status, batch, answers>>
    BY <1>8 DEF B!BeginCall
  <2>2. B!TypeOK' /\ UNCHANGED Data
    BY <1>1, <1>3, <1>7, <1>8, <2>1 DEF B!TypeOK, B!human, Data
  <2>3. Len(ran) + 1 <= tools' /\ tools <= tools'
    BY <1>1, <2>1 DEF BInv, BudgetInv, B!TypeOK
  <2>4. QED
    BY <1>1, <1>3, <2>1, <2>2, <2>3, MoveInv DEF B!TypeOK, InBatch
<1>9. CASE first.id # approved /\ verdict = "redirect"
  <2>1. /\ tools' = tools + 1 /\ answers' = Append(answers, first.id) /\ batch' = <<>>
        /\ at' = "check" /\ UNCHANGED status /\ approved = B!NoCall
    BY <1>7, <1>9 DEF B!BeginCall
  <2>2. /\ answers' \in Seq(B!CallId) /\ B!Range(answers') = B!Range(answers) \cup {first.id}
        /\ B!IsInjective(answers')
    <3>1. answers \in Seq(B!CallId) /\ B!IsInjective(answers) /\ first.id \notin B!Range(answers)
      BY <1>1, <1>2 DEF BInv, B!TypeOK, B!AnsweredOnce, Touched
    <3>2. QED
      BY <1>2, <2>1, <3>1, AppendOnce
  <2>3. B!TypeOK'
    BY <1>1, <1>3, <1>7, <1>9, <2>1, <2>2 DEF B!TypeOK, B!human
  <2>4. B!AnsweredOnce'
    BY <1>2, <1>3, <2>2 DEF BInv, B!AnsweredOnce
  <2>5. B!OnlyApprovedRun' /\ NamesInv'
    BY <1>3, <2>1 DEF BInv, B!OnlyApprovedRun, NamesInv, B!human
  <2>6. SplitInv' /\ HeldInv'
    BY <1>1, <1>3, <2>1 DEF SplitInv, HeldInv, InBatch, Held
  <2>7. WaitingInv' /\ BudgetInv'
    BY <1>1, <1>3, <2>1 DEF BInv, WaitingInv, BudgetInv, Owed, B!human, B!TypeOK
  <2>8. QED
    BY <2>3, <2>4, <2>5, <2>6, <2>7 DEF BInv
<1>10. QED
  BY <1>4, <1>5, <1>7, <1>8, <1>9

\* What executing the first call of the batch starts from.
LEMMA ExecuteFacts ==
  ASSUME BInv, at = "execute"
  PROVE  /\ B!TypeOK /\ InBatch /\ batch # <<>> /\ ~Held /\ decision = "none"
         /\ Len(ran) + 1 <= tools
         /\ ~B!NeedsConfirmation(Head(batch)) /\ Head(batch).tool \in Confirmed
               => Head(batch).id \in approvals
         /\ B!NeedsConfirmation(Head(batch)) => Head(batch).id \notin approvals
         /\ \A i \in DOMAIN Tail(batch) : Tail(batch)[i].id \notin approvals
<1>1. B!TypeOK /\ InBatch /\ batch # <<>> /\ ~Held /\ decision = "none" /\ Len(ran) + 1 <= tools
  BY DEF BInv, InBatch, SplitInv, WaitingInv, BudgetInv, Owed
<1>2. approved = B!NoCall \/ (Head(batch).id = approved /\ approved \in approvals)
  BY Zenon, <1>1, BatchFacts DEF BInv, WaitingInv
<1>3. /\ ~B!NeedsConfirmation(Head(batch)) /\ Head(batch).tool \in Confirmed
            => Head(batch).id \in approvals
      /\ B!NeedsConfirmation(Head(batch)) => Head(batch).id \notin approvals
  BY <1>1, <1>2, BatchFacts DEF B!NeedsConfirmation
<1>4. \A i \in DOMAIN Tail(batch) : Tail(batch)[i].id \notin approvals
  <2> TAKE i \in DOMAIN Tail(batch)
  <2>1. /\ i + 1 \in DOMAIN batch /\ Tail(batch)[i] = batch[i + 1] /\ Tail(batch)[i].id # Head(batch).id
        /\ Head(batch).id # B!NoCall
    BY <1>1, BatchFacts
  <2>2. batch[i + 1].id \notin approvals \ {approved}
    BY <1>1, <2>1 DEF BInv, SplitInv
  <2>3. approved = B!NoCall => B!NoCall \notin approvals
    BY DEF BInv, NamesInv, B!NoCall
  <2>4. QED
    BY <1>2, <2>1, <2>2, <2>3
<1>5. QED
  BY <1>1, <1>3, <1>4

\* Running the Tool of the first call adds it to those that ran.
LEMMA RanFacts ==
  ASSUME BInv, at = "execute", ~B!NeedsConfirmation(Head(batch)), UNCHANGED <<calls, approvals>>,
         ran' = Append(ran, Head(batch).id)
  PROVE  /\ ran' \in Seq(B!CallId) /\ B!Range(ran') = B!Range(ran) \cup {Head(batch).id}
         /\ B!IsInjective(ran') /\ Len(ran') = Len(ran) + 1
         /\ B!Range(ran') \subseteq requested
         /\ \A i \in DOMAIN calls :
               calls[i].tool \in Confirmed /\ calls[i].id \in B!Range(ran') => calls[i].id \in approvals
<1>1. /\ ran \in Seq(B!CallId) /\ B!IsInjective(ran) /\ B!Range(ran) \subseteq requested
      /\ \A i \in DOMAIN calls :
            calls[i].tool \in Confirmed /\ calls[i].id \in B!Range(ran) => calls[i].id \in approvals
  BY DEF BInv, B!TypeOK, B!AnsweredOnce, B!OnlyApprovedRun
<1>2. InBatch /\ batch # <<>> /\ (Head(batch).tool \in Confirmed => Head(batch).id \in approvals)
  BY ExecuteFacts
<1>3. /\ Head(batch).id \in B!CallId /\ Head(batch).id \in requested /\ Head(batch).id \notin B!Range(ran)
      /\ \A i \in DOMAIN calls : calls[i].id = Head(batch).id => calls[i] = Head(batch)
  BY <1>2, BatchFacts DEF Touched
<1>4. /\ ran' \in Seq(B!CallId) /\ B!Range(ran') = B!Range(ran) \cup {Head(batch).id}
      /\ B!IsInjective(ran') /\ Len(ran') = Len(ran) + 1
  BY <1>1, <1>3, AppendOnce
<1>5. QED
  BY <1>1, <1>2, <1>3, <1>4

\* The batch is stored with its first call as the waiting one.
LEMMA SuspendedFacts ==
  ASSUME BInv, at = "execute", B!TypeOK', UNCHANGED <<calls, answers, approvals>>, at' = "wait",
         suspended' = [waiting |-> Head(batch), remaining |-> Tail(batch), observed |-> observed],
         B!Range(ran') \subseteq B!Range(ran) \cup {Head(batch).id}
  PROVE  HeldInv' /\ Held' /\ suspended'.waiting.id \notin B!Range(answers')
<1>1. B!TypeOK /\ InBatch /\ batch # <<>>
  BY ExecuteFacts
<1>2. suspended'.waiting = Head(batch) /\ suspended'.remaining = Tail(batch) /\ suspended'.observed = observed
  OBVIOUS
<1>3. Held' /\ suspended'.waiting.id \notin B!Range(answers')
  <2>1. Head(batch).id # B!NoCall /\ Head(batch).id \notin B!Range(answers)
    BY <1>1, BatchFacts DEF Touched
  <2>2. B!NotSuspended.waiting.id = B!NoCall
    BY DEF B!NotSuspended
  <2>3. QED
    BY <1>2, <2>1, <2>2 DEF Held
<1>4. /\ Len(observed) + Len(batch) = Len(calls)
      /\ \A i \in DOMAIN observed : observed[i] = calls[i].id
      /\ \A i \in DOMAIN batch : batch[i] = calls[Len(observed) + i]
      /\ \A i \in DOMAIN batch : batch[i].id \notin Touched
      /\ Len(observed) \in Nat /\ Len(batch) \in Nat
  BY <1>1 DEF BInv, SplitInv, B!TypeOK
<1>5. /\ Tail(batch) \in Seq(B!ToolCall) /\ Len(Tail(batch)) = Len(batch) - 1
      /\ Head(batch) = calls[Len(observed) + 1]
      /\ \A i \in DOMAIN Tail(batch) : /\ i + 1 \in DOMAIN batch /\ Tail(batch)[i] = batch[i + 1]
                                       /\ Tail(batch)[i].id # Head(batch).id
  BY <1>1, BatchFacts
<1>6. \A i \in DOMAIN Tail(batch) : Tail(batch)[i] = calls[Len(observed) + 1 + i]
  <2> TAKE i \in DOMAIN Tail(batch)
  <2>1. i \in Nat /\ Len(observed) + (i + 1) = Len(observed) + 1 + i
    BY <1>4, <1>5
  <2>2. QED
    BY Zenon, <1>4, <1>5, <2>1
<1>7. \A i \in DOMAIN Tail(batch) : Tail(batch)[i].id \notin Touched' \cup approvals
  <2>1. \A i \in DOMAIN Tail(batch) : Tail(batch)[i].id \notin approvals
    BY ExecuteFacts
  <2>2. Touched' \subseteq Touched \cup {Head(batch).id}
    BY DEF Touched
  <2>3. QED
    BY <1>4, <1>5, <2>1, <2>2
<1>8. (Len(observed) + 1) + Len(Tail(batch)) = Len(calls)
  BY <1>4, <1>5
<1>9. QED
  BY <1>1, <1>2, <1>3, <1>4, <1>5, <1>6, <1>7, <1>8 DEF HeldInv, B!TypeOK

LEMMA ExecuteWaitingStep ==
  ASSUME B!BatchAssumption, BInv, B!ExecuteWaiting PROVE BInv'
<1>1. /\ B!TypeOK /\ InBatch /\ batch # <<>> /\ ~Held /\ decision = "none" /\ Len(ran) + 1 <= tools
      /\ B!NeedsConfirmation(Head(batch)) => Head(batch).id \notin approvals
      /\ at = "execute"
  BY ExecuteFacts DEF B!ExecuteWaiting
<1>2. /\ approved' = B!NoCall
      /\ UNCHANGED <<cancel, B!counters, calls, batch, observed, answers, requested, decision, approvals,
                     B!policies>>
  BY DEF B!ExecuteWaiting
<1>3. B!NoCall \in B!CallId
  BY DEF B!CallId
<1>4. /\ ran' \in Seq(B!CallId) /\ B!IsInjective(ran') /\ B!Range(ran') \subseteq requested
      /\ B!Range(ran') \subseteq B!Range(ran) \cup {Head(batch).id}
      /\ \A i \in DOMAIN calls :
            calls[i].tool \in Confirmed /\ calls[i].id \in B!Range(ran') => calls[i].id \in approvals
      /\ Len(ran') <= tools
  <2>1. CASE B!NeedsConfirmation(Head(batch))
    <3>1. ran' = ran
      BY <2>1 DEF B!ExecuteWaiting
    <3>2. QED
      BY <3>1 DEF BInv, B!TypeOK, B!AnsweredOnce, B!OnlyApprovedRun, BudgetInv
  <2>2. CASE ~B!NeedsConfirmation(Head(batch))
    BY <1>1, <1>2, <2>2, RanFacts DEF B!ExecuteWaiting
  <2>3. QED
    BY <2>1, <2>2
<1>5. B!TypeOK'
  BY <1>1, <1>2, <1>3, <1>4 DEF B!TypeOK, B!ExecuteWaiting, B!Suspend, B!Ends, B!counters,
     B!policies
<1>6. B!AnsweredOnce' /\ B!OnlyApprovedRun'
  BY <1>1, <1>2, <1>4 DEF BInv, B!AnsweredOnce, B!OnlyApprovedRun
<1>7. at' \in {"wait", "end"}
  BY DEF B!ExecuteWaiting, B!Suspend, B!Ends
<1>8. NamesInv' /\ SplitInv'
  BY <1>2, <1>7 DEF BInv, NamesInv, SplitInv, InBatch, B!counters
<1>9. CASE at' = "end"
  <2>1. UNCHANGED suspended
    BY <1>9 DEF B!ExecuteWaiting, B!Suspend
  <2>2. HeldInv' /\ WaitingInv' /\ BudgetInv'
    BY <1>1, <1>2, <1>4, <1>9, <2>1 DEF HeldInv, WaitingInv, BudgetInv, Owed, Held, B!counters
  <2>3. QED
    BY <1>5, <1>6, <1>8, <2>2 DEF BInv
<1>10. CASE at' = "wait"
  <2>1. /\ suspended' = [waiting |-> Head(batch), remaining |-> Tail(batch), observed |-> observed]
        /\ pending' # "none"
        /\ pending' = "confirmation" => B!NeedsConfirmation(Head(batch)) /\ ran' = ran
    BY <1>10 DEF B!ExecuteWaiting, B!Suspend, B!Ends
  <2>2. HeldInv' /\ Held' /\ suspended'.waiting.id \notin B!Range(answers')
    BY Zenon, <1>1, <1>2, <1>4, <1>5, <1>10, <2>1, SuspendedFacts
  <2>3. pending' = "confirmation" => suspended'.waiting.id \notin B!Range(ran') \cup approvals'
    BY <1>1, <1>2, <2>1, BatchFacts DEF Touched
  <2>4. WaitingInv'
    BY <1>1, <1>2, <1>10, <2>1, <2>2, <2>3 DEF WaitingInv
  <2>5. BudgetInv'
    BY <1>1, <1>2, <1>4, <1>10, <2>1 DEF BudgetInv, Owed, B!counters
  <2>6. QED
    BY <1>5, <1>6, <1>8, <2>2, <2>4, <2>5 DEF BInv
<1>11. QED
  BY <1>7, <1>9, <1>10

\* A call that is over is observed, and the rest of the batch is left as it was.
LEMMA ExecuteStep ==
  ASSUME B!BatchAssumption, BInv, NEW result \in {"success", "error", "refused"}, B!Execute(result)
  PROVE  BInv'
<1>1. /\ B!TypeOK /\ InBatch /\ batch # <<>> /\ ~Held /\ decision = "none" /\ Len(ran) + 1 <= tools
      /\ at = "execute" /\ \A i \in DOMAIN Tail(batch) : Tail(batch)[i].id \notin approvals
  BY ExecuteFacts DEF B!Execute
<1>2. /\ answers' = Append(answers, Head(batch).id) /\ observed' = Append(observed, Head(batch).id)
      /\ approved' = B!NoCall
      /\ UNCHANGED <<status, cancel, B!counters, calls, requested, suspended, B!human, duplicate>>
  BY DEF B!Execute
<1>3. B!NoCall \in B!CallId
  BY DEF B!CallId
<1>4. /\ ran' \in Seq(B!CallId) /\ B!IsInjective(ran') /\ B!Range(ran') \subseteq requested
      /\ B!Range(ran') \subseteq B!Range(ran) \cup {Head(batch).id}
      /\ \A i \in DOMAIN calls :
            calls[i].tool \in Confirmed /\ calls[i].id \in B!Range(ran') => calls[i].id \in approvals
      /\ Len(ran') <= tools
  <2>1. CASE result = "refused"
    <3>1. ran' = ran
      BY <2>1 DEF B!Execute
    <3>2. QED
      BY <3>1 DEF BInv, B!TypeOK, B!AnsweredOnce, B!OnlyApprovedRun, BudgetInv
  <2>2. CASE result # "refused"
    BY <1>1, <1>2, <2>2, RanFacts DEF B!Execute, B!human
  <2>3. QED
    BY <2>1, <2>2
<1>5. /\ Head(batch).id \in B!CallId /\ Head(batch).id \in requested /\ Head(batch).id \notin Touched
      /\ Head(batch) = calls[Len(observed) + 1]
      /\ Tail(batch) \in Seq(B!ToolCall) /\ Len(Tail(batch)) = Len(batch) - 1
      /\ \A i \in DOMAIN Tail(batch) : /\ i + 1 \in DOMAIN batch /\ Tail(batch)[i] = batch[i + 1]
                                       /\ Tail(batch)[i].id # Head(batch).id
  BY <1>1, BatchFacts
<1>6. /\ answers' \in Seq(B!CallId) /\ B!Range(answers') = B!Range(answers) \cup {Head(batch).id}
      /\ B!IsInjective(answers') /\ B!Range(answers') \subseteq requested
  <2>1. /\ answers \in Seq(B!CallId) /\ B!IsInjective(answers) /\ B!Range(answers) \subseteq requested
        /\ Head(batch).id \notin B!Range(answers)
    BY <1>1, <1>5 DEF BInv, B!TypeOK, B!AnsweredOnce, Touched
  <2>2. QED
    BY <1>2, <1>5, <2>1, AppendOnce
<1>7. /\ observed' \in Seq(B!CallId) /\ Len(observed') = Len(observed) + 1 /\ Len(observed) \in Nat
      /\ \A i \in DOMAIN observed : observed'[i] = observed[i]
      /\ observed'[Len(observed) + 1] = Head(batch).id
  BY <1>1, <1>2, <1>5 DEF B!TypeOK
<1>8. /\ failures' \in Nat
      /\ \/ batch' = <<>> /\ at' = "check"
         \/ batch' = Tail(batch) /\ at' = "after"
  BY <1>1 DEF B!Execute, B!Failures, B!TypeOK
<1>9. B!TypeOK'
  <2>1. batch' \in Seq(B!ToolCall) /\ at' \in {"check", "after"}
    <3>1. <<>> \in Seq(B!ToolCall)
      OBVIOUS
    <3>2. Tail(batch) \in Seq(B!ToolCall)
      BY <1>5
    <3>3. QED
      BY Zenon, <1>8, <3>1, <3>2
  <2>2. ran' \in Seq(B!CallId) /\ answers' \in Seq(B!CallId) /\ observed' \in Seq(B!CallId) /\ failures' \in Nat
    BY <1>4, <1>6, <1>7, <1>8
  <2>3. QED
    BY <1>1, <1>2, <1>3, <2>1, <2>2 DEF B!TypeOK, B!counters, B!human
<1>10. B!AnsweredOnce' /\ B!OnlyApprovedRun'
  BY <1>1, <1>2, <1>4, <1>6 DEF B!AnsweredOnce, B!OnlyApprovedRun, B!human
<1>11. NamesInv' /\ HeldInv' /\ WaitingInv' /\ BudgetInv'
  BY <1>1, <1>2, <1>4, <1>8 DEF BInv, NamesInv, HeldInv, WaitingInv, BudgetInv, Owed, Held,
     B!counters,
     B!human
<1>12. CASE batch' = <<>> /\ at' = "check"
  <2>1. SplitInv'
    BY <1>12 DEF SplitInv, InBatch
  <2>2. QED
    BY <1>9, <1>10, <1>11, <2>1 DEF BInv
<1>13. CASE batch' = Tail(batch) /\ at' = "after"
  <2>1. /\ Len(observed) + Len(batch) = Len(calls)
        /\ \A i \in DOMAIN observed : observed[i] = calls[i].id
        /\ \A i \in DOMAIN batch : batch[i] = calls[Len(observed) + i]
        /\ \A i \in DOMAIN batch : batch[i].id \notin Touched
        /\ Len(batch) \in Nat
    BY <1>1 DEF BInv, SplitInv, B!TypeOK
  <2>2. Len(observed') + Len(batch') = Len(calls')
    BY <1>2, <1>5, <1>7, <1>13, <2>1
  <2>3. \A i \in DOMAIN observed' : observed'[i] = calls'[i].id
    <3>1. DOMAIN observed' = DOMAIN observed \cup {Len(observed) + 1}
      BY <1>1, <1>7 DEF B!TypeOK
    <3>2. QED
      BY <1>2, <1>5, <1>7, <2>1, <3>1
  <2>4. \A i \in DOMAIN batch' : batch'[i] = calls'[Len(observed') + i]
    <3> TAKE i \in DOMAIN batch'
    <3>1. i \in DOMAIN Tail(batch) /\ i \in Nat
      BY <1>5, <1>13
    <3>2. Len(observed) + (i + 1) = Len(observed') + i
      BY <1>7, <3>1
    <3>3. QED
      BY <1>2, <1>5, <1>13, <2>1, <3>1, <3>2
  <2>5. \A i \in DOMAIN batch' : batch'[i].id \notin Touched' \cup approvals'
    <3>1. Touched' \subseteq Touched \cup {Head(batch).id}
      BY <1>4, <1>6 DEF Touched
    <3>2. QED
      BY <1>1, <1>2, <1>5, <1>13, <2>1, <3>1 DEF B!human
  <2>6. SplitInv'
    BY <1>1, <1>2, <1>13, <2>2, <2>3, <2>4, <2>5 DEF SplitInv, Held
  <2>7. QED
    BY <1>9, <1>10, <1>11, <2>6 DEF BInv
<1>14. QED
  BY <1>8, <1>12, <1>13

\* The waiting call is a call of the last response, and none of the remaining ones.
LEMMA WaitingFacts ==
  ASSUME BInv, Held
  PROVE  /\ B!TypeOK /\ suspended.waiting \in B!ToolCall /\ suspended.waiting.id \in B!CallId
         /\ suspended.waiting.id \in requested /\ suspended.waiting.id # B!NoCall
         /\ Len(suspended.observed) \in Nat /\ Len(suspended.observed) + 1 \in DOMAIN calls
         /\ \A i \in DOMAIN suspended.remaining : suspended.remaining[i].id # suspended.waiting.id
<1>0. PICK k : k = Len(suspended.observed) + 1
  OBVIOUS
<1>1. B!TypeOK /\ HeldInv /\ NamesInv
  BY DEF BInv
<1>2. /\ suspended.remaining \in Seq(B!ToolCall) /\ suspended.observed \in Seq(B!CallId)
      /\ k + Len(suspended.remaining) = Len(calls) /\ suspended.waiting = calls[k]
      /\ \A i \in DOMAIN suspended.remaining : suspended.remaining[i] = calls[k + i]
  BY Zenon, <1>0, <1>1 DEF HeldInv
<1>3. /\ Len(suspended.observed) \in Nat /\ Len(suspended.remaining) \in Nat /\ Len(calls) \in Nat
      /\ DOMAIN suspended.remaining = 1..Len(suspended.remaining) /\ DOMAIN calls = 1..Len(calls)
  <2>1. calls \in Seq(B!ToolCall)
    BY <1>1 DEF B!TypeOK
  <2>2. QED
    BY <1>2, <2>1
<1>a. k \in DOMAIN calls /\ k \in Nat
  BY Zenon, <1>0, <1>2, <1>3, Places
<1>4. suspended.waiting \in B!ToolCall /\ suspended.waiting.id \in requested /\ suspended.waiting.id[2] = k
  BY <1>1, <1>2, <1>a DEF NamesInv, B!TypeOK
<1>5. suspended.waiting.id \in B!CallId /\ suspended.waiting.id # B!NoCall
  BY <1>1, <1>0, <1>3, <1>4 DEF B!NoCall, B!TypeOK
<1>6. \A i \in DOMAIN suspended.remaining : suspended.remaining[i].id # suspended.waiting.id
  <2> TAKE i \in DOMAIN suspended.remaining
  <2>1. i \in 1..Len(suspended.remaining)
    BY Zenon, <1>3
  <2>a. i \in Nat /\ i >= 1 /\ k + Len(suspended.remaining) = Len(calls)
    BY <1>2, <1>3, <2>1
  <2>b. k + i \in DOMAIN calls
    BY Zenon, <1>0, <1>3, <2>1, <2>a, Places
  <2>2. suspended.remaining[i].id[2] = k + i
    BY <1>1, <1>2, <2>b DEF NamesInv
  <2>3. QED
    <3>1. k + i # k
      BY <1>a, <2>a
    <3>2. suspended.waiting.id[2] = k
      BY <1>4
    <3>3. QED
      BY Zenon, <2>2, <3>1, <3>2
<1>7. QED
  BY <1>0, <1>1, <1>3, <1>a, <1>4, <1>5, <1>6

\* Input and a rejection are the result of the waiting call; an approval is none.
LEMMA ResumeStep ==
  ASSUME B!BatchAssumption, BInv, NEW answer \in {"input", "approve", "reject"}, B!Resume(answer)
  PROVE  BInv'
<1>0. PICK id : id = suspended.waiting.id
  OBVIOUS
<1>1. at = "wait" /\ Held /\ decision = "none" /\ pending # "none" /\ id \notin B!Range(answers)
  BY <1>0 DEF B!Resume, BInv, WaitingInv
<1>2. B!TypeOK /\ id \in B!CallId /\ id \in requested
  BY <1>0, <1>1, WaitingFacts
<1>3. /\ decision' = (IF answer = "input" THEN "none" ELSE answer) /\ pending' = "none"
      /\ status' = "running" /\ at' = "check"
      /\ UNCHANGED <<cancel, B!counters, calls, batch, observed, requested, suspended, approved, ran,
                     B!policies>>
  BY DEF B!Resume
<1>4. answer # "input" => id \notin B!Range(ran) \cup approvals /\ Len(ran) + 1 <= tools
  <2>1. answer # "input" => pending = "confirmation"
    BY <1>1, <1>2 DEF B!Resume, B!TypeOK
  <2>2. QED
    BY <1>0, <1>1, <2>1 DEF BInv, WaitingInv, BudgetInv, Owed
<1>5. approved = B!NoCall
  BY <1>1 DEF BInv, WaitingInv
<1>6. /\ answers' \in Seq(B!CallId) /\ B!IsInjective(answers') /\ B!Range(answers') \subseteq requested
      /\ B!Range(answers') \subseteq B!Range(answers) \cup {id}
      /\ answer = "approve" => id \notin B!Range(answers')
  <2>1. answers \in Seq(B!CallId) /\ B!IsInjective(answers) /\ B!Range(answers) \subseteq requested
    BY DEF BInv, B!TypeOK, B!AnsweredOnce
  <2>2. answers' = answers \/ (answer # "approve" /\ answers' = Append(answers, id))
    BY <1>0 DEF B!Resume
  <2>3. QED
    <3>1. CASE answers' = answers
      BY <1>1, <2>1, <3>1
    <3>2. CASE answer # "approve" /\ answers' = Append(answers, id)
      <4>1. id \in B!CallId /\ id \notin B!Range(answers)
        BY <1>1, <1>2
      <4>2. /\ answers' \in Seq(B!CallId) /\ B!Range(answers') = B!Range(answers) \cup {id}
            /\ B!IsInjective(answers')
        BY <2>1, <3>2, <4>1, AppendOnce
      <4>3. QED
        BY <1>2, <2>1, <3>2, <4>2
    <3>3. QED
      BY <2>2, <3>1, <3>2
<1>7. /\ approvals' = (IF answer = "approve" THEN approvals \cup {id} ELSE approvals)
      /\ approvals' \subseteq B!CallId
  BY <1>0, <1>2 DEF B!Resume, B!TypeOK
<1>8. B!TypeOK'
  BY <1>2, <1>3, <1>6, <1>7 DEF B!TypeOK, B!counters, B!policies
<1>9. B!AnsweredOnce'
  BY <1>3, <1>6 DEF BInv, B!AnsweredOnce
<1>10. B!OnlyApprovedRun'
  BY <1>0, <1>3, <1>4, <1>7 DEF BInv, B!OnlyApprovedRun
<1>11. NamesInv' /\ SplitInv'
  BY <1>2, <1>3, <1>7 DEF BInv, NamesInv, SplitInv, InBatch, B!counters
<1>12. HeldInv'
  <2>1. \A i \in DOMAIN suspended.remaining :
           suspended.remaining[i].id \notin Touched \cup approvals \cup {id}
    BY Zenon, <1>0, <1>1, WaitingFacts DEF BInv, HeldInv
  <2>2. Touched' \cup approvals' \subseteq Touched \cup approvals \cup {id}
    BY <1>3, <1>6, <1>7 DEF Touched
  <2>3. QED
    BY Zenon, <1>1, <1>3, <2>1, <2>2 DEF BInv, HeldInv, Held
<1>13. WaitingInv'
  BY <1>0, <1>1, <1>3, <1>4, <1>5, <1>6, <1>7 DEF WaitingInv, Held, Touched
<1>14. BudgetInv'
  BY <1>3, <1>4, <1>5 DEF BInv, BudgetInv, Owed, B!counters
<1>15. QED
  BY <1>8, <1>9, <1>10, <1>11, <1>12, <1>13, <1>14 DEF BInv

\* The batch that was suspended goes on where it was, with the approved call first.
LEMMA ResumeBatchStep ==
  ASSUME B!BatchAssumption, BInv, B!ResumeBatch PROVE BInv'
<1>0. PICK w, rem, obs : /\ w = suspended.waiting /\ rem = suspended.remaining
                         /\ obs = suspended.observed
  OBVIOUS
<1>1. at = "advance" /\ Held /\ B!TypeOK /\ WaitingInv /\ approved = B!NoCall
  BY DEF B!ResumeBatch, Held, BInv, WaitingInv
<1>2. /\ suspended' = B!NotSuspended /\ decision' = "none" /\ at' = "call"
      /\ UNCHANGED <<status, cancel, B!counters, calls, answers, requested, pending, approvals, ran, B!policies>>
  BY DEF B!ResumeBatch
<1>3. /\ w \in B!ToolCall /\ w.id \in B!CallId /\ w.id \in requested /\ w.id # B!NoCall
      /\ \A i \in DOMAIN rem : rem[i].id # w.id
  BY <1>0, <1>1, WaitingFacts
<1>4. /\ rem \in Seq(B!ToolCall) /\ obs \in Seq(B!CallId) /\ (Len(obs) + 1) + Len(rem) = Len(calls)
      /\ w = calls[Len(obs) + 1]
      /\ \A i \in DOMAIN obs : obs[i] = calls[i].id
      /\ \A i \in DOMAIN rem : rem[i] = calls[(Len(obs) + 1) + i]
      /\ \A i \in DOMAIN rem : rem[i].id \notin Touched \cup approvals
  BY Zenon, <1>0, <1>1 DEF BInv, HeldInv
<1>5. /\ Len(obs) \in Nat /\ Len(rem) \in Nat /\ Len(calls) \in Nat
      /\ DOMAIN obs = 1..Len(obs) /\ DOMAIN rem = 1..Len(rem)
  BY <1>1, <1>4 DEF B!TypeOK
<1>6. Touched' = Touched /\ ~Held' /\ at' # "execute" /\ InBatch'
  BY <1>2 DEF Touched, Held, InBatch
<1>7. ASSUME batch' \in Seq(B!ToolCall), observed' \in Seq(B!CallId), approved' \in B!CallId
      PROVE  B!TypeOK' /\ B!AnsweredOnce' /\ B!OnlyApprovedRun' /\ NamesInv' /\ HeldInv'
  <2>1. B!TypeOK'
    BY <1>1, <1>2, <1>7 DEF B!TypeOK, B!counters, B!policies
  <2>2. B!AnsweredOnce' /\ B!OnlyApprovedRun' /\ NamesInv'
    BY <1>2 DEF BInv, B!AnsweredOnce, B!OnlyApprovedRun, NamesInv, B!counters
  <2>3. HeldInv'
    BY Zenon, <1>6 DEF HeldInv
  <2>4. QED
    BY <2>1, <2>2, <2>3
<1>8. CASE decision = "approve"
  <2>1. batch' = <<w>> \o rem /\ observed' = obs /\ approved' = w.id
    BY <1>0, <1>8 DEF B!ResumeBatch
  <2>2. /\ batch' \in Seq(B!ToolCall) /\ Len(batch') = Len(rem) + 1 /\ batch'[1] = w
        /\ \A i \in DOMAIN batch' : i = 1 \/ (i - 1 \in DOMAIN rem /\ batch'[i] = rem[i - 1])
        /\ DOMAIN batch' = 1..(Len(rem) + 1)
    <3>1. w \in B!ToolCall /\ rem \in Seq(B!ToolCall)
      BY <1>3, <1>4
    <3>2. QED
      BY <2>1, <3>1, ConsPlaces
  <2>3. w.id \in approvals /\ w.id \notin Touched /\ Len(ran) + 1 <= tools
    BY <1>0, <1>1, <1>8 DEF WaitingInv, BInv, BudgetInv, Owed
  <2>4. B!TypeOK' /\ B!AnsweredOnce' /\ B!OnlyApprovedRun' /\ NamesInv' /\ HeldInv'
    BY <1>3, <1>4, <1>7, <2>1, <2>2
  <2>5. \A i \in DOMAIN batch' : batch'[i] = calls[Len(obs) + i]
    <3> TAKE i \in DOMAIN batch'
    <3>1. CASE i = 1
      BY <1>4, <2>2, <3>1
    <3>2. CASE i # 1
      <4>1. i - 1 \in DOMAIN rem /\ batch'[i] = rem[i - 1] /\ (Len(obs) + 1) + (i - 1) = Len(obs) + i
        BY <1>5, <2>2, <3>2
      <4>2. QED
        BY <1>4, <4>1
    <3>3. QED
      BY <3>1, <3>2
  <2>6. \A i \in DOMAIN batch' : batch'[i].id \notin Touched \cup (approvals \ {w.id})
    BY <1>4, <2>2, <2>3
  <2>7. Len(obs) + Len(batch') = Len(calls)
    <3>1. (Len(obs) + 1) + Len(rem) = Len(calls)
      BY <1>4
    <3>2. Len(obs) + (Len(rem) + 1) = Len(calls)
      BY <1>5, <3>1
    <3>3. QED
      BY Zenon, <2>2, <3>2
  <2>8. SplitInv'
    BY <1>2, <1>4, <1>6, <2>1, <2>5, <2>6, <2>7 DEF SplitInv
  <2>9. batch' # <<>>
    BY <1>5, <2>2
  <2>10. WaitingInv'
    BY <1>2, <2>1, <2>2, <2>3, <2>9 DEF WaitingInv
  <2>11. BudgetInv'
    BY <1>2, <2>3 DEF BInv, BudgetInv, B!counters
  <2>12. QED
    BY <2>4, <2>8, <2>10, <2>11 DEF BInv
<1>9. CASE decision # "approve"
  <2>1. batch' = rem /\ observed' = Append(obs, w.id) /\ approved' = B!NoCall
    BY <1>0, <1>1, <1>9 DEF B!ResumeBatch
  <2>2. /\ observed' \in Seq(B!CallId) /\ Len(observed') = Len(obs) + 1
        /\ DOMAIN observed' = DOMAIN obs \cup {Len(obs) + 1}
        /\ \A i \in DOMAIN obs : observed'[i] = obs[i]
        /\ observed'[Len(obs) + 1] = w.id
    <3>1. w.id \in B!CallId /\ obs \in Seq(B!CallId)
      BY <1>3, <1>4
    <3>2. QED
      BY <2>1, <3>1, AppendPlaces
  <2>3. B!TypeOK' /\ B!AnsweredOnce' /\ B!OnlyApprovedRun' /\ NamesInv' /\ HeldInv'
    BY <1>4, <1>7, <2>1, <2>2 DEF B!CallId
  <2>4. \A i \in DOMAIN observed' : observed'[i] = calls[i].id
    BY <1>4, <2>2
  <2>5. SplitInv'
    BY <1>2, <1>4, <1>5, <1>6, <2>1, <2>2, <2>4 DEF SplitInv
  <2>6. WaitingInv' /\ BudgetInv'
    BY <1>1, <1>2, <2>1 DEF BInv, WaitingInv, BudgetInv, Owed, B!counters
  <2>7. QED
    BY <2>3, <2>5, <2>6 DEF BInv
<1>10. QED
  BY <1>8, <1>9

LEMMA StutterInv == ASSUME BInv, UNCHANGED B!vars PROVE BInv'
<1>0. B!TypeOK'
  BY Zenon DEF BInv, B!TypeOK, B!vars
<1>1. B!AnsweredOnce' /\ B!OnlyApprovedRun'
  BY Zenon DEF BInv, B!AnsweredOnce, B!OnlyApprovedRun, B!vars
<1>2. NamesInv' /\ SplitInv' /\ HeldInv' /\ WaitingInv' /\ BudgetInv'
  BY Zenon DEF BInv, NamesInv, SplitInv, HeldInv, WaitingInv, BudgetInv, Owed, Touched, Held,
     InBatch, B!vars
<1>3. QED
  BY Zenon, <1>0, <1>1, <1>2 DEF BInv

LEMMA NextInv == ASSUME B!BatchAssumption, BInv, [B!Next]_B!vars PROVE BInv'
BY MoveStep, ModelRespondsStep, BeginCallStep, ExecuteWaitingStep, ExecuteStep, ResumeStep,
   ResumeBatchStep, StutterInv DEF B!Next, B!Advance

LEMMA InvImplies == ASSUME B!BatchAssumption, BInv PROVE B!BatchInv
<1>1. B!TypeOK /\ B!AnsweredOnce /\ B!OnlyApprovedRun
  BY DEF BInv
<1>2. B!WithinBudget
  BY <1>1 DEF BInv, BudgetInv, B!WithinBudget, B!TypeOK, B!BatchAssumption
<1>3. B!ObservationsComplete
  <2> SUFFICES ASSUME at = "call", batch = <<>> PROVE observed = B!Ids(calls)
    BY DEF B!ObservationsComplete
  <2>1. Len(observed) + 0 = Len(calls) /\ \A i \in DOMAIN observed : observed[i] = calls[i].id
    BY DEF BInv, SplitInv, InBatch
  <2>2. observed \in Seq(B!CallId) /\ calls \in Seq(B!ToolCall)
    BY <1>1 DEF B!TypeOK
  <2>3. DOMAIN observed = DOMAIN calls
    BY <2>1, <2>2
  <2>4. observed = [i \in DOMAIN observed |-> observed[i]]
    BY <2>2
  <2>5. QED
    BY <2>1, <2>3, <2>4 DEF B!Ids
<1>4. QED
  BY <1>1, <1>2, <1>3 DEF B!BatchInv

\* execute_tool_batch and _resume_action_batch, for every profile and whatever the model
\* asks for: however often a batch is suspended, confirmed, rejected, redirected or
\* cancelled, a call is answered and executed at most once, runs only with the approval
\* it needs and within max_tool_calls, and a finished batch is observed completely.
THEOREM BatchCorrect == B!BatchAssumption => (B!Spec => []B!BatchInv)
<1> SUFFICES ASSUME B!BatchAssumption PROVE B!Spec => []B!BatchInv
  OBVIOUS
<1>1. B!Init => BInv
  BY InitInv
<1>2. BInv /\ [B!Next]_B!vars => BInv'
  BY NextInv
<1>3. BInv => B!BatchInv
  BY InvImplies
<1>4. QED
  BY <1>1, <1>2, <1>3, PTL DEF B!Spec
=============================================================================
