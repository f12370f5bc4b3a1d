----------------------------- MODULE SideEffects -----------------------------
(***************************************************************************)
(* The side-effect ledger (flows/side_effects.py) and the recorder through *)
(* which ToolExecutor uses it (flows/tool_effects.py, tools/executor.py).  *)
(*                                                                         *)
(* Several attempts may execute the same Tool call of the same invocation: *)
(* a redelivered command, or an old worker that is still running.  Each    *)
(* call on the ledger is one critical section or transaction; everything   *)
(* between two calls may be interleaved with other attempts, and an attempt*)
(* may crash at any point.                                                 *)
(***************************************************************************)
EXTENDS Integers, FiniteSets

CONSTANTS
    Call,          \* Tool calls (operation keys) of one invocation
    Idempotent,    \* the calls whose Tool is IDEMPOTENT; the others are UNSAFE
    Attempt,       \* executions of a call
    MaxRevision    \* bound on the transitions of one effect

ASSUME CallAssumption == Idempotent \subseteq Call /\ MaxRevision \in Nat

VARIABLES
    ledger,   \* the stored effect of each call
    pc,       \* where each attempt is
    call,     \* the call it executes
    seen,     \* the effect as it last read it
    sent      \* the attempts that ran the Tool, for each call

vars == <<ledger, pc, call, seen, sent>>

Phase == {"absent", "prepared", "started", "confirmed", "aborted"}

Effect == [phase : Phase, revision : Nat]

Absent == [phase |-> "absent", revision |-> 0]

Init == /\ ledger = [c \in Call |-> Absent]
        /\ pc = [a \in Attempt |-> "new"]
        /\ call \in [Attempt -> Call]
        /\ seen = [a \in Attempt |-> Absent]
        /\ sent = [c \in Call |-> {}]

-----------------------------------------------------------------------------
Goto(a, label) == pc' = [pc EXCEPT ![a] = label]

See(a, effect) == seen' = [seen EXCEPT ![a] = effect]

\* prepare: the first call stores the intent, every later one reads it.
Prepare(a) == LET c == call[a] IN
    /\ pc[a] = "new"
    /\ ledger' = [ledger EXCEPT ![c] =
                     IF ledger[c].phase = "absent" THEN [phase |-> "prepared", revision |-> 1]
                     ELSE ledger[c]]
    /\ See(a, ledger'[c])
    /\ Goto(a, "start")
    /\ UNCHANGED <<call, sent>>

\* _validate_transition
Allows(from, to) ==
    \/ from \in {"prepared", "aborted"} /\ to = "started"
    \/ from = "prepared" /\ to = "aborted"
    \/ from = "started" /\ to = "confirmed"

\* _transition, when it succeeds.
Moves(a, to) == LET c == call[a] IN
    /\ ledger[c].revision = seen[a].revision
    /\ Allows(ledger[c].phase, to)
    /\ ledger[c].revision < MaxRevision
    /\ ledger' = [ledger EXCEPT ![c] = [phase |-> to, revision |-> ledger[c].revision + 1]]

\* _start_or_replay: mark_started, or on a revision conflict read again.
MarkStarted(a) ==
    /\ pc[a] = "start"
    /\ seen[a].phase \in {"prepared", "aborted"}
    /\ Moves(a, "started")
    /\ See(a, ledger'[call[a]])
    /\ Goto(a, "invoke")
    /\ UNCHANGED <<call, sent>>

StartConflict(a) ==
    /\ pc[a] = "start"
    /\ seen[a].phase \in {"prepared", "aborted"}
    /\ ledger[call[a]].revision # seen[a].revision
    /\ Goto(a, "reread")
    /\ UNCHANGED <<ledger, call, seen, sent>>

Reread(a) ==
    /\ pc[a] = "reread"
    /\ See(a, ledger[call[a]])
    /\ Goto(a, "start")
    /\ UNCHANGED <<ledger, call, sent>>

\* Faulty variant: an effect that is only STARTED may be replayed.
ReplayStarted(a) ==
    /\ pc[a] = "start"
    /\ seen[a].phase \in {"started", "confirmed"}
    /\ Goto(a, IF call[a] \in Idempotent \/ seen[a].phase = "started" THEN "invoke"
               ELSE "denied")
    /\ UNCHANGED <<ledger, call, seen, sent>>

\* An effect that may have executed: only an IDEMPOTENT Tool runs again.
Replay(a) ==
    /\ pc[a] = "start"
    /\ seen[a].phase \in {"started", "confirmed"}
    /\ Goto(a, IF call[a] \in Idempotent THEN "invoke" ELSE "denied")
    /\ UNCHANGED <<ledger, call, seen, sent>>

Invoke(a) ==
    /\ pc[a] = "invoke"
    /\ sent' = [sent EXCEPT ![call[a]] = @ \cup {a}]
    /\ Goto(a, "running")
    /\ UNCHANGED <<ledger, call, seen>>

\* The Tool returns; or it raises, times out or waits for input, and the
\* evidence stays as it is.
ToolReturns(a) ==
    /\ pc[a] = "running"
    /\ Goto(a, "confirm")
    /\ UNCHANGED <<ledger, call, seen, sent>>

ToolFails(a) ==
    /\ pc[a] = "running"
    /\ Goto(a, "unconfirmed")
    /\ UNCHANGED <<ledger, call, seen, sent>>

\* recorder.confirm: nothing to do for an effect that was CONFIRMED when the
\* attempt started; else the ledger is asked, with a second look on a conflict.
Confirm(a) ==
    /\ pc[a] = "confirm"
    /\ IF seen[a].phase = "confirmed" THEN UNCHANGED ledger ELSE Moves(a, "confirmed")
    /\ Goto(a, "success")
    /\ UNCHANGED <<call, seen, sent>>

ConfirmConflict(a) ==
    /\ pc[a] = "confirm"
    /\ seen[a].phase # "confirmed"
    /\ ledger[call[a]].revision # seen[a].revision
    /\ Goto(a, "recheck")
    /\ UNCHANGED <<ledger, call, seen, sent>>

Recheck(a) ==
    /\ pc[a] = "recheck"
    /\ Goto(a, IF ledger[call[a]].phase = "confirmed" THEN "success" ELSE "unconfirmed")
    /\ UNCHANGED <<ledger, call, seen, sent>>

\* Ledger.abort, by a host that decides not to run what it prepared.  The
\* recorder never calls it.
Abort(a) ==
    /\ pc[a] = "start"
    /\ Moves(a, "aborted")
    /\ Goto(a, "dead")
    /\ UNCHANGED <<call, seen, sent>>

Crash(a) ==
    /\ pc[a] \notin {"dead", "denied", "success", "unconfirmed"}
    /\ Goto(a, "dead")
    /\ UNCHANGED <<ledger, call, seen, sent>>

\* What an attempt that is scheduled does; nothing makes it crash or abort.
Step(a) ==
    \/ Prepare(a) \/ MarkStarted(a) \/ StartConflict(a) \/ Reread(a) \/ Replay(a)
    \/ Invoke(a) \/ ToolReturns(a) \/ ToolFails(a)
    \/ Confirm(a) \/ ConfirmConflict(a) \/ Recheck(a)

Next == \E a \in Attempt : Step(a) \/ Abort(a) \/ Crash(a)

Spec == Init /\ [][Next]_vars

FairSpec == Spec /\ \A a \in Attempt : WF_vars(Step(a))

-----------------------------------------------------------------------------
\* Every variable keeps its type.
TypeOK == /\ ledger \in [Call -> Effect]
          /\ pc \in [Attempt -> {"new", "start", "reread", "invoke", "running",
                                 "confirm", "recheck", "success", "unconfirmed",
                                 "denied", "dead"}]
          /\ call \in [Attempt -> Call]
          /\ seen \in [Attempt -> Effect]
          /\ sent \in [Call -> SUBSET Attempt]

\* The Tool of an UNSAFE call runs at most once, however many attempts race and
\* wherever they crash.
UnsafeAtMostOnce ==
    \A c \in Call \ Idempotent : \A a, b \in sent[c] : a = b

\* retry_safe evidence is true: an effect that is PREPARED or ABORTED was not
\* run, and no attempt is past the point where it decides to run it.
EvidenceConservative ==
    \A c \in Call : ledger[c].phase \in {"absent", "prepared", "aborted"} =>
        /\ sent[c] = {}
        /\ \A a \in Attempt : call[a] = c => pc[a] \notin
                             {"invoke", "running", "confirm", "recheck"}

\* CONFIRMED means that the Tool ran, and an attempt reports success only for a
\* confirmed effect.
SuccessIsConfirmed ==
    /\ \A c \in Call : ledger[c].phase = "confirmed" => sent[c] # {}
    /\ \A a \in Attempt : pc[a] = "success" => ledger[call[a]].phase = "confirmed"

\* The loop of _start_or_replay ends: an attempt is either over or dead in the
\* end, whatever the others do to the revision it read.
AttemptsEnd ==
    \A a \in Attempt : <>(pc[a] \in {"success", "unconfirmed", "denied", "dead"})

\* The ledger can be relied on: an UNSAFE Tool runs at most once, PREPARED evidence
\* is never an understatement, and what is reported as success is CONFIRMED.
EffectsInv == TypeOK /\ UnsafeAtMostOnce /\ EvidenceConservative /\ SuccessIsConfirmed
=============================================================================
