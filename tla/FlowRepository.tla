--------------------------- MODULE FlowRepository ---------------------------
(***************************************************************************)
(* One Flow Run in the repository (flows/repository.py), written by        *)
(* FlowLifecycle (flows/service.py) under execution leases.                *)
(*                                                                         *)
(* A method of FlowLifecycle reads the Flow, computes the next state from  *)
(* what it read and commits it together with its events.  Between the read *)
(* and the commit other clients run: Read and the commits are separate     *)
(* actions.  The commit itself is one critical section in memory and one   *)
(* transaction on the locked row in PostgreSQL.  A client may stop between *)
(* the two, because it crashed or because the call raised.                 *)
(*                                                                         *)
(* A client keeps the execution token it acquired last and may use it      *)
(* after the lease expired, was released or was taken over; 0 stands for a *)
(* FlowLifecycle built without a lease.  Tokens are numbered as minted.    *)
(***************************************************************************)
EXTENDS FlowRun

CONSTANTS
    Client,        \* coordinators and workers
    Results,       \* the results Agent invocations return
    Ends,          \* the ways clients terminate the Flow
    Ttl,           \* ttl_seconds of an execution lease
    Lag,           \* how stale the clock reading of acquire and renew may be
    MaxTime,       \* bound on the clock
    MaxToken,      \* bound on the number of leases
    MaxRevision,   \* bound on the number of commits
    MaxLog         \* bound on the number of events

ASSUME InputAssumption == Results \subseteq ResultStatus /\ Ends \subseteq ErrorStatus

ASSUME LeaseAssumption == /\ Ttl \in Nat \ {0}
                          /\ Lag \in Nat
                          /\ MaxTime \in Nat
                          /\ MaxToken \in Nat

VARIABLES
    flow,     \* _states: the stored Flow
    log,      \* _events: its lifecycle facts, in sequence order
    lease,    \* _leases: the last lease and whether it is active
    snap,     \* what each client read, NoFlow outside a call
    held,     \* the execution token of each client
    minted,   \* how many execution tokens exist
    now       \* the clock

vars == <<flow, log, lease, snap, held, minted, now>>

NoLease == [token |-> 0, active |-> FALSE, expires |-> 0]

FactName == RunStatus \cup {"started", "resumed", "propagation_failed"}

\* A fact about the Flow (of = 0) or about one of its invocations; stored, it
\* carries its revision and the token of the client that wrote it.
Draft == [of : Nat, fact : FactName]

Event == [of : Nat, fact : FactName, revision : Nat, by : 0..MaxToken]

Init == /\ flow = NoFlow
        /\ log = <<>>
        /\ lease = NoLease
        /\ snap = [c \in Client |-> NoFlow]
        /\ held = [c \in Client |-> 0]
        /\ minted = 0
        /\ now = 0

-----------------------------------------------------------------------------
Tick == /\ now < MaxTime
        /\ now' = now + 1
        /\ UNCHANGED <<flow, log, lease, snap, held, minted>>

ClockReadings == {at \in 0..now : now <= at + Lag}

Fact(of, fact) == [of |-> of, fact |-> fact]

\* _materialize_events: the drafts go to the end of the log, in order.
Recorded(drafts, revision, token) ==
    [i \in 1..Len(drafts) |-> [of |-> drafts[i].of, fact |-> drafts[i].fact,
                               revision |-> revision, by |-> token]]

CreateFlow(c) ==
    /\ flow = NoFlow
    /\ flow' = Created
    /\ log' = Recorded(<<Fact(0, "created")>>, 1, held[c])
    /\ UNCHANGED <<lease, snap, held, minted, now>>

Read(c) ==
    /\ snap[c] = NoFlow
    /\ flow # NoFlow
    /\ snap' = [snap EXCEPT ![c] = flow]
    /\ UNCHANGED <<flow, log, lease, held, minted, now>>

\* The call raises, or the process dies, before the commit.
Abandon(c) ==
    /\ snap[c] # NoFlow
    /\ snap' = [snap EXCEPT ![c] = NoFlow]
    /\ UNCHANGED <<flow, log, lease, held, minted, now>>

\* Faulty variant: whether the lease still belongs to the writer is not asked.
AnyTokenValid(c) == held[c] # 0 \/ lease.token = 0

\* _validate_execution_token, in the commit's own critical section.
TokenValid(c) ==
    IF lease.token = 0 THEN held[c] = 0
    ELSE lease.active /\ held[c] = lease.token /\ now < lease.expires

\* Faulty variant: the last writer wins.
CommitWithoutCAS(c, state, drafts) ==
    /\ snap[c] # NoFlow
    /\ TokenValid(c)
    /\ state.revision <= MaxRevision
    /\ flow' = state
    /\ log' = log \o Recorded(drafts, state.revision, held[c])
    /\ snap' = [snap EXCEPT ![c] = NoFlow]
    /\ UNCHANGED <<lease, held, minted, now>>

\* commit: the token is checked, then the revision the client read.
Commit(c, state, drafts) ==
    /\ snap[c] # NoFlow
    /\ TokenValid(c)
    /\ flow.revision = snap[c].revision
    /\ state.revision <= MaxRevision
    /\ flow' = state
    /\ log' = log \o Recorded(drafts, state.revision, held[c])
    /\ snap' = [snap EXCEPT ![c] = NoFlow]
    /\ UNCHANGED <<lease, held, minted, now>>

StartFlow(c) ==
    /\ CanStart(snap[c])
    /\ Commit(c, Started(snap[c]), <<Fact(0, "started")>>)

BeginInvocation(c) ==
    /\ CanBegin(snap[c])
    /\ Commit(c, Begun(snap[c]), <<Fact(Len(snap[c].inv) + 1, "started")>>)

SettleInvocation(c, result) ==
    LET i == snap[c].active IN
    /\ CanSettle(snap[c], i)
    /\ Commit(c, Settled(snap[c], i, result),
              <<Fact(i, result)>> \o
                 (IF result = "waiting" THEN <<Fact(0, "waiting")>> ELSE <<>>))

ResumeInvocation(c) ==
    LET i == snap[c].active IN
    /\ CanResume(snap[c], i)
    /\ Commit(c, Resumed(snap[c], i), <<Fact(i, "resumed"), Fact(0, "resumed")>>)

CompleteFlow(c) ==
    /\ CanComplete(snap[c])
    /\ Commit(c, Completed(snap[c]), <<Fact(0, "completed")>>)

\* Faulty variant: no fact records that the active invocation ended.
TerminateFlowSilently(c, status) ==
    /\ CanTerminate(snap[c])
    /\ Commit(c, Terminated(snap[c], status), <<Fact(0, status)>>)

TerminateFlow(c, status) ==
    LET i == snap[c].active IN
    /\ CanTerminate(snap[c])
    /\ Commit(c, Terminated(snap[c], status),
              (IF i = 0 THEN <<>> ELSE <<Fact(i, status)>>) \o <<Fact(0, status)>>)

\* record_cancellation_propagation_failure: append_events leaves the snapshot
\* and its revision as they are.
RecordPropagationFailure(c, i) ==
    /\ snap[c] # NoFlow
    /\ i \in 1..Len(snap[c].inv)
    /\ TokenValid(c)
    /\ flow.revision = snap[c].revision
    /\ Len(log) < MaxLog
    /\ log' = log \o Recorded(<<Fact(i, "propagation_failed")>>,
                              flow.revision, held[c])
    /\ snap' = [snap EXCEPT ![c] = NoFlow]
    /\ UNCHANGED <<flow, lease, held, minted, now>>

\* Faulty variant: a released or running lease does not matter.
AcquireAnyway(c, at) ==
    /\ minted < MaxToken
    /\ flow # NoFlow
    /\ flow.status \notin Terminal
    /\ minted' = minted + 1
    /\ lease' = [token |-> minted + 1, active |-> TRUE, expires |-> at + Ttl]
    /\ held' = [held EXCEPT ![c] = minted + 1]
    /\ UNCHANGED <<flow, log, snap, now>>

Acquire(c, at) ==
    /\ minted < MaxToken
    /\ flow # NoFlow
    /\ flow.status \notin Terminal
    /\ ~(lease.active /\ at < lease.expires)
    /\ minted' = minted + 1
    /\ lease' = [token |-> minted + 1, active |-> TRUE, expires |-> at + Ttl]
    /\ held' = [held EXCEPT ![c] = minted + 1]
    /\ UNCHANGED <<flow, log, snap, now>>

Renew(c, at) ==
    /\ lease.active
    /\ held[c] = lease.token
    /\ at < lease.expires
    /\ lease' = [lease EXCEPT !.expires = at + Ttl]
    /\ UNCHANGED <<flow, log, snap, held, minted, now>>

\* release_execution asks for the token only: an expired lease can be released.
Release(c) ==
    /\ held[c] # 0
    /\ held[c] = lease.token
    /\ lease.active
    /\ lease' = [lease EXCEPT !.active = FALSE]
    /\ UNCHANGED <<flow, log, snap, held, minted, now>>

Next ==
    \/ Tick
    \/ \E c \in Client :
          \/ CreateFlow(c)
          \/ Read(c)
          \/ Abandon(c)
          \/ StartFlow(c)
          \/ BeginInvocation(c)
          \/ \E r \in Results : SettleInvocation(c, r)
          \/ ResumeInvocation(c)
          \/ CompleteFlow(c)
          \/ \E e \in Ends : TerminateFlow(c, e)
          \/ \E i \in 1..MaxInvocations : RecordPropagationFailure(c, i)
          \/ \E at \in ClockReadings : Acquire(c, at) \/ Renew(c, at)
          \/ Release(c)

Spec == Init /\ [][Next]_vars

-----------------------------------------------------------------------------
\* Every variable keeps its type.
TypeOK == /\ flow \in FlowState
          /\ log \in Seq(Event)
          /\ lease \in [token : 0..MaxToken, active : BOOLEAN, expires : Nat]
          /\ snap \in [Client -> FlowState]
          /\ held \in [Client -> 0..MaxToken]
          /\ minted \in 0..MaxToken
          /\ now \in 0..MaxTime

\* The stored Flow, and with it every snapshot a client read, satisfies
\* FlowRunState.validate_state: the next read does not raise.
StoredFlowValid == ValidState(flow) /\ \A c \in Client : ValidState(snap[c])

\* The reason a commit that passes the revision check cannot lose an update: a
\* snapshot with the stored revision is the stored Flow.
SnapshotsCurrentOrOld ==
    \A c \in Client : /\ snap[c].revision <= flow.revision
                      /\ snap[c].revision = flow.revision => snap[c] = flow

Aggregate == INSTANCE FlowAggregate

\* Reading, computing and committing implements the atomic aggregate: however
\* calls of several clients overlap, each takes effect on the current Flow.
\* In particular a terminal Flow never changes again.
LinearizableLifecycle == Aggregate!Spec

\* Exactly the newest execution lease writes: once a token was minted no event
\* of an older holder, or of a client without a lease, enters the log.
NewestTokenWrites ==
    [][Len(log') > Len(log) => log'[Len(log')].by = minted]_vars

\* While its lease runs, the holder is not replaced.
LeaseExclusive ==
    [][lease.active /\ now < lease.expires => lease'.token = lease.token]_vars

\* The last lifecycle fact the log holds about the Flow (0) or an invocation.
LastFact(of) ==
    LET facts == {i \in DOMAIN log : log[i].of = of /\
                                     log[i].fact # "propagation_failed"}
    IN  log[CHOOSE i \in facts : \A j \in facts : j <= i].fact

StatusOf(fact) == IF fact \in {"started", "resumed"} THEN "running" ELSE fact

\* The log alone rebuilds the stored Flow: what a subscriber sees, a lost or
\* reordered event would contradict.  (A waiting Flow whose invocation settles
\* without a resume leaves no fact about the Flow itself, hence the last case.)
LogRebuildsFlow ==
    flow # NoFlow =>
       /\ \A i \in 1..Len(flow.inv) : flow.inv[i] = StatusOf(LastFact(i))
       /\ \A e \in DOMAIN log : log[e].of <= Len(flow.inv)
       /\ log[Len(log)].revision = flow.revision
       /\ flow.status = IF LastFact(0) \in Terminal \cup {"created"}
                        THEN LastFact(0)
                        ELSE IF flow.active # 0
                             THEN StatusOf(LastFact(flow.active))
                             ELSE "running"

\* What is stored of a Flow is sound: validate_state accepts it, a snapshot with its
\* revision is the Flow itself, and its events tell its status and invocations.
RepositoryInv == TypeOK /\ StoredFlowValid /\ SnapshotsCurrentOrOld /\ LogRebuildsFlow
=============================================================================
