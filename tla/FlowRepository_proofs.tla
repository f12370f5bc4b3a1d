------------------------ MODULE FlowRepository_proofs ------------------------
(***************************************************************************)
(* Proofs about the Flow repository, for any set of clients, any budget,   *)
(* any lease length and any number of leases and commits.                  *)
(***************************************************************************)
EXTENDS FlowRepository, SequenceTheorems, TLAPS

\* The provers tried, in order; steps on several records take longer than their defaults.
USE SMTT(20), Z3T(20), ZenonT(20)

\* A state that passes validate_state stays valid under every lifecycle method,
\* although _evolve does not validate the copy it makes, and the revision grows
\* by one.
LEMMA TransitionSound ==
  ASSUME NEW s \in FlowState, ValidState(s), NEW t, Transition(s, t)
  PROVE  t \in FlowState /\ ValidState(t) /\ t.revision = s.revision + 1
<1>0. /\ s.status \in RunStatus
      /\ s.revision \in Nat
      /\ s.active \in Nat
      /\ s.inv \in Seq(InvocationStatus)
      /\ Len(s.inv) \in Nat
      /\ s = [status |-> s.status, revision |-> s.revision,
              inv |-> s.inv, active |-> s.active]
  BY DEF FlowState
<1>f. ASSUME NEW st \in RunStatus, NEW q \in Seq(InvocationStatus), NEW a \in Nat,
             t = [status |-> st, revision |-> s.revision + 1,
                  inv |-> q, active |-> a]
      PROVE  /\ t \in FlowState
             /\ t.revision = s.revision + 1
             /\ t.status = st /\ t.inv = q /\ t.active = a
  BY <1>0, <1>f DEF FlowState
<1>s. /\ RunStatus = {"created", "running", "waiting"} \cup Terminal
      /\ Terminal = ErrorStatus \cup {"completed"}
      /\ InvocationStatus = {"running", "waiting"} \cup Terminal
      /\ ResultStatus = {"waiting"} \cup Terminal
      /\ "running" \notin Terminal /\ "waiting" \notin Terminal
      /\ "created" \notin Terminal
  BY DEF RunStatus, Terminal, ErrorStatus, InvocationStatus, ResultStatus
<1>1. CASE CanStart(s) /\ t = Started(s)
  <2>1. t = [status |-> "running", revision |-> s.revision + 1,
             inv |-> s.inv, active |-> s.active]
    BY Zenon, <1>0, <1>1 DEF Started
  <2>2. s.inv = <<>> /\ s.active = 0
    BY <1>0, <1>1 DEF CanStart, ValidState
  <2>3. QED
    BY Zenon, <1>0, <1>f, <1>s, <2>1, <2>2 DEF ValidState
<1>2. CASE CanBegin(s) /\ t = Begun(s)
  <2> DEFINE q == Append(s.inv, "running")
  <2>1. "running" \in InvocationStatus
    BY <1>s
  <2>2. /\ q \in Seq(InvocationStatus)
        /\ Len(q) = Len(s.inv) + 1
        /\ q[Len(s.inv) + 1] = "running"
    BY <1>0, <2>1
  <2>3. t = [status |-> "running", revision |-> s.revision + 1,
             inv |-> q, active |-> Len(s.inv) + 1]
    BY Zenon, <1>0, <1>2 DEF Begun, CanBegin
  <2>4. Len(s.inv) + 1 <= MaxInvocations
    BY <1>0, <1>2, MaxInvocationsAssumption DEF CanBegin
  <2> HIDE DEF q
  <2>5. QED
    BY <1>0, <1>f, <1>s, <2>2, <2>3, <2>4 DEF ValidState
<1>3. ASSUME NEW i \in 1..Len(s.inv), NEW st \in InvocationStatus
      PROVE  /\ [s.inv EXCEPT ![i] = st] \in Seq(InvocationStatus)
             /\ Len([s.inv EXCEPT ![i] = st]) = Len(s.inv)
             /\ [s.inv EXCEPT ![i] = st][i] = st
  BY <1>0
<1>4. s.active # 0 => s.active \in 1..Len(s.inv)
  BY <1>0 DEF ValidState
<1>5. ASSUME NEW r \in ResultStatus, CanSettle(s, s.active),
             t = Settled(s, s.active, r)
      PROVE  t \in FlowState /\ ValidState(t) /\ t.revision = s.revision + 1
  <2> DEFINE q == [s.inv EXCEPT ![s.active] = r]
             st == IF r = "waiting" THEN "waiting" ELSE "running"
             a == IF r = "waiting" THEN s.active ELSE 0
  <2>1. q \in Seq(InvocationStatus) /\ Len(q) = Len(s.inv) /\ q[s.active] = r
    BY <1>3, <1>4, <1>5, <1>s DEF CanSettle
  <2>2. t = [status |-> st, revision |-> s.revision + 1, inv |-> q, active |-> a]
    BY Zenon, <1>0, <1>5 DEF Settled
  <2>3. st \in RunStatus /\ a \in Nat /\ s.active # 0 /\ s.active <= Len(s.inv)
    BY <1>0, <1>4, <1>5, <1>s DEF CanSettle
  <2>4. Len(s.inv) <= MaxInvocations
    BY DEF ValidState
  <2> HIDE DEF q
  <2>5. CASE r = "waiting"
    BY <1>0, <1>f, <1>s, <2>1, <2>2, <2>3, <2>4, <2>5 DEF ValidState
  <2>6. CASE r # "waiting"
    BY <1>0, <1>f, <1>s, <2>1, <2>2, <2>3, <2>4, <2>6 DEF ValidState
  <2>7. QED
    BY <2>5, <2>6
<1>6. CASE CanResume(s, s.active) /\ t = Resumed(s, s.active)
  <2> DEFINE q == [s.inv EXCEPT ![s.active] = "running"]
  <2>1. /\ q \in Seq(InvocationStatus)
        /\ Len(q) = Len(s.inv)
        /\ q[s.active] = "running"
    BY <1>3, <1>4, <1>6, <1>s DEF CanResume
  <2>2. t = [status |-> "running", revision |-> s.revision + 1,
             inv |-> q, active |-> s.active]
    BY Zenon, <1>0, <1>6 DEF Resumed
  <2> HIDE DEF q
  <2>3. QED
    BY <1>0, <1>f, <1>s, <2>1, <2>2 DEF ValidState
<1>7. CASE CanComplete(s) /\ t = Completed(s)
  <2>1. t = [status |-> "completed", revision |-> s.revision + 1,
             inv |-> s.inv, active |-> s.active]
    BY Zenon, <1>0, <1>7 DEF Completed
  <2>2. s.active = 0
    BY <1>7 DEF CanComplete
  <2>3. QED
    BY <1>0, <1>f, <1>s, <2>1, <2>2 DEF ValidState
<1>8. ASSUME NEW e \in ErrorStatus, CanTerminate(s), t = Terminated(s, e)
      PROVE  t \in FlowState /\ ValidState(t) /\ t.revision = s.revision + 1
  <2> DEFINE q == IF s.active = 0 THEN s.inv ELSE [s.inv EXCEPT ![s.active] = e]
  <2>1. q \in Seq(InvocationStatus) /\ Len(q) = Len(s.inv)
    BY <1>0, <1>3, <1>4, <1>s
  <2>2. t = [status |-> e, revision |-> s.revision + 1, inv |-> q, active |-> 0]
    BY Zenon, <1>0, <1>8 DEF Terminated
  <2> HIDE DEF q
  <2>3. e \in Terminal /\ e \in RunStatus
    BY <1>s
  <2>4. QED
    BY <1>0, <1>f, <1>s, <2>1, <2>2, <2>3 DEF ValidState
<1>9. QED
  BY <1>1, <1>2, <1>5, <1>6, <1>7, <1>8 DEF Transition

\* A call of FlowLifecycle that succeeds: the method applied to the snapshot,
\* committed with at least one event.
LifecycleStep(c) ==
    \E t : \E drafts \in Seq(Draft) :
       drafts # <<>> /\ Transition(snap[c], t) /\ Commit(c, t, drafts)

\* The steps of the repository, with the lifecycle methods taken together.
Step(c) ==
    \/ CreateFlow(c)
    \/ Read(c)
    \/ Abandon(c)
    \/ LifecycleStep(c)
    \/ \E i \in 1..MaxInvocations : RecordPropagationFailure(c, i)
    \/ \E at \in ClockReadings : Acquire(c, at) \/ Renew(c, at)
    \/ Release(c)

LEMMA StepCases ==
  ASSUME TypeOK, Next
  PROVE  Tick \/ \E c \in Client : Step(c)
<1> SUFFICES ASSUME NEW c \in Client,
                    \/ StartFlow(c)
                    \/ BeginInvocation(c)
                    \/ \E r \in Results : SettleInvocation(c, r)
                    \/ ResumeInvocation(c)
                    \/ CompleteFlow(c)
                    \/ \E e \in Ends : TerminateFlow(c, e)
             PROVE  LifecycleStep(c)
  BY DEF Next, Step
<1>0. /\ snap[c] \in FlowState
      /\ snap[c].active \in Nat
      /\ Len(snap[c].inv) + 1 \in Nat
  BY DEF TypeOK, FlowState
<1>1. ASSUME NEW i \in Nat, NEW f \in FactName
      PROVE  Fact(i, f) \in Draft
  BY DEF Fact, Draft
<1>n. /\ RunStatus \subseteq FactName
      /\ ResultStatus \subseteq FactName
      /\ ErrorStatus \subseteq FactName
      /\ {"started", "resumed", "waiting", "completed"} \subseteq FactName
  BY DEF FactName, RunStatus, ResultStatus, Terminal, ErrorStatus
<1>2. CASE StartFlow(c)
  <2> DEFINE d == <<Fact(0, "started")>>
  <2>1. d \in Seq(Draft) /\ d # <<>>
    BY <1>0, <1>1, <1>n
  <2>2. CanStart(snap[c]) /\ Commit(c, Started(snap[c]), d)
    BY <1>2 DEF StartFlow
  <2>3. Transition(snap[c], Started(snap[c]))
    BY <2>2 DEF Transition
  <2> HIDE DEF d
  <2>4. QED
    BY <2>1, <2>2, <2>3 DEF LifecycleStep
<1>3. CASE BeginInvocation(c)
  <2> DEFINE d == <<Fact(Len(snap[c].inv) + 1, "started")>>
  <2>1. d \in Seq(Draft) /\ d # <<>>
    BY <1>0, <1>1, <1>n
  <2>2. CanBegin(snap[c]) /\ Commit(c, Begun(snap[c]), d)
    BY <1>3 DEF BeginInvocation
  <2>3. Transition(snap[c], Begun(snap[c]))
    BY <2>2 DEF Transition
  <2> HIDE DEF d
  <2>4. QED
    BY <2>1, <2>2, <2>3 DEF LifecycleStep
<1>4. ASSUME NEW r \in Results, SettleInvocation(c, r)
      PROVE  LifecycleStep(c)
  <2> DEFINE d == <<Fact(snap[c].active, r)>> \o
                    (IF r = "waiting" THEN <<Fact(0, "waiting")>> ELSE <<>>)
  <2>0. r \in ResultStatus /\ r \in FactName
    BY <1>n, InputAssumption
  <2>1. Fact(snap[c].active, r) \in Draft /\ Fact(0, "waiting") \in Draft
    BY <1>0, <1>1, <1>n, <2>0
  <2>2. d \in Seq(Draft) /\ d # <<>>
    <3>1. CASE r = "waiting"
      BY <2>1, <3>1
    <3>2. CASE r # "waiting"
      BY <2>1, <3>2
    <3>3. QED
      BY <3>1, <3>2
  <2>3. /\ CanSettle(snap[c], snap[c].active)
        /\ Commit(c, Settled(snap[c], snap[c].active, r), d)
    BY <1>4 DEF SettleInvocation
  <2>4. Transition(snap[c], Settled(snap[c], snap[c].active, r))
    BY <2>0, <2>3 DEF Transition
  <2> HIDE DEF d
  <2>5. QED
    BY <2>2, <2>3, <2>4 DEF LifecycleStep
<1>5. CASE ResumeInvocation(c)
  <2> DEFINE d == <<Fact(snap[c].active, "resumed"), Fact(0, "resumed")>>
  <2>1. d \in Seq(Draft) /\ d # <<>>
    BY <1>0, <1>1, <1>n
  <2>2. CanResume(snap[c], snap[c].active) /\ Commit(c, Resumed(snap[c], snap[c].active), d)
    BY <1>5 DEF ResumeInvocation
  <2>3. Transition(snap[c], Resumed(snap[c], snap[c].active))
    BY <2>2 DEF Transition
  <2> HIDE DEF d
  <2>4. QED
    BY <2>1, <2>2, <2>3 DEF LifecycleStep
<1>6. CASE CompleteFlow(c)
  <2> DEFINE d == <<Fact(0, "completed")>>
  <2>1. d \in Seq(Draft) /\ d # <<>>
    BY <1>0, <1>1, <1>n
  <2>2. CanComplete(snap[c]) /\ Commit(c, Completed(snap[c]), d)
    BY <1>6 DEF CompleteFlow
  <2>3. Transition(snap[c], Completed(snap[c]))
    BY <2>2 DEF Transition
  <2> HIDE DEF d
  <2>4. QED
    BY <2>1, <2>2, <2>3 DEF LifecycleStep
<1>7. ASSUME NEW e \in Ends, TerminateFlow(c, e)
      PROVE  LifecycleStep(c)
  <2> DEFINE d == (IF snap[c].active = 0 THEN <<>>
                   ELSE <<Fact(snap[c].active, e)>>) \o <<Fact(0, e)>>
  <2>0. e \in ErrorStatus /\ e \in FactName
    BY <1>n, InputAssumption
  <2>1. Fact(snap[c].active, e) \in Draft /\ Fact(0, e) \in Draft
    BY <1>0, <1>1, <1>n, <2>0
  <2>2. d \in Seq(Draft) /\ d # <<>>
    <3>1. CASE snap[c].active = 0
      BY <2>1, <3>1
    <3>2. CASE snap[c].active # 0
      BY <2>1, <3>2
    <3>3. QED
      BY <3>1, <3>2
  <2>3. /\ CanTerminate(snap[c])
        /\ Commit(c, Terminated(snap[c], e), d)
    BY <1>7 DEF TerminateFlow
  <2>4. Transition(snap[c], Terminated(snap[c], e))
    BY <2>0, <2>3 DEF Transition
  <2> HIDE DEF d
  <2>5. QED
    BY <2>2, <2>3, <2>4 DEF LifecycleStep
<1>8. QED
  BY <1>2, <1>3, <1>4, <1>5, <1>6, <1>7

\* Appending the stored form of some drafts keeps the log a sequence of events,
\* and the last of them carries the writer's token.
LEMMA RecordedLog ==
  ASSUME NEW q \in Seq(Event), NEW drafts \in Seq(Draft), drafts # <<>>,
         NEW revision \in Nat, NEW token \in 0..MaxToken
  PROVE  LET q2 == q \o Recorded(drafts, revision, token)
         IN  q2 \in Seq(Event) /\ q2[Len(q2)].by = token
<1> DEFINE r == Recorded(drafts, revision, token)
<1>1. \A i \in 1..Len(drafts) :
         /\ r[i] \in Event
         /\ r[i].by = token
  <2> SUFFICES ASSUME NEW i \in 1..Len(drafts)
               PROVE  r[i] \in Event /\ r[i].by = token
    OBVIOUS
  <2>1. drafts[i] \in Draft
    OBVIOUS
  <2>2. r[i] = [of |-> drafts[i].of, fact |-> drafts[i].fact,
                revision |-> revision, by |-> token]
    BY DEF Recorded
  <2> HIDE DEF r
  <2>3. QED
    BY <2>1, <2>2 DEF Draft, Event
<1>2. r \in Seq(Event) /\ Len(r) = Len(drafts) /\ Len(drafts) \in Nat \ {0}
  <2>1. Len(drafts) \in Nat /\ Len(drafts) # 0
    OBVIOUS
  <2>2. r = [i \in 1..Len(drafts) |-> r[i]]
    BY DEF Recorded
  <2> HIDE DEF r
  <2>3. QED
    BY <1>1, <2>1, <2>2
<1> HIDE DEF r
<1>3. /\ q \o r \in Seq(Event)
      /\ Len(q \o r) = Len(q) + Len(r)
      /\ (q \o r)[Len(q) + Len(r)] = r[Len(r)]
  BY <1>2
<1>4. QED
  BY <1>1, <1>2, <1>3 DEF r

-----------------------------------------------------------------------------
\* What a stored Flow, its lease and the clients' tokens have to do with each
\* other: the lease on record is the newest token, tokens are minted only for a
\* stored Flow, and revision 0 means that there is none.
LeaseNewest ==
    /\ lease.token = minted
    /\ \A c \in Client : held[c] <= minted
    /\ flow = NoFlow => minted = 0
    /\ flow # NoFlow => flow.revision > 0
    /\ \A c \in Client : snap[c] # NoFlow => snap[c].revision > 0

\* The inductive invariant.
Inv == TypeOK /\ StoredFlowValid /\ SnapshotsCurrentOrOld /\ LeaseNewest

LEMMA NoFlowSound == NoFlow \in FlowState /\ ValidState(NoFlow) /\ NoFlow.revision = 0
  BY MaxInvocationsAssumption
     DEF NoFlow, FlowState, ValidState, RunStatus, Terminal, ErrorStatus

LEMMA CreatedSound ==
  /\ Created \in FlowState /\ ValidState(Created)
  /\ Created.revision = 1 /\ Created # NoFlow
<1>1. Created = [status |-> "created", revision |-> 1, inv |-> <<>>, active |-> 0]
  BY DEF Created, NoFlow
<1>2. Created.revision = 1 /\ NoFlow.revision = 0
  BY <1>1 DEF NoFlow
<1>3. QED
  BY <1>1, <1>2, MaxInvocationsAssumption
     DEF FlowState, ValidState, RunStatus, Terminal, ErrorStatus

LEMMA InvInit == Init => Inv
<1> SUFFICES ASSUME Init PROVE Inv
  OBVIOUS
<1>1. 0 \in 0..MaxToken /\ 0 \in 0..MaxTime
  BY LeaseAssumption
<1>2. TypeOK
  BY <1>1, NoFlowSound DEF Init, TypeOK, NoLease
<1>3. StoredFlowValid /\ SnapshotsCurrentOrOld
  BY NoFlowSound DEF Init, StoredFlowValid, SnapshotsCurrentOrOld
<1>4. LeaseNewest
  BY DEF Init, LeaseNewest, NoLease
<1>5. QED
  BY <1>2, <1>3, <1>4 DEF Inv

\* A commit that passes the revision check was computed from the stored Flow.
LEMMA CommitReadsCurrent ==
  ASSUME Inv, NEW c \in Client, LifecycleStep(c)
  PROVE  /\ flow # NoFlow
         /\ snap[c] = flow
         /\ Transition(flow, flow')
         /\ flow' \in FlowState /\ ValidState(flow')
         /\ flow'.revision = flow.revision + 1
         /\ log' \in Seq(Event) /\ log'[Len(log')].by = held[c]
         /\ TokenValid(c)
         /\ snap' = [snap EXCEPT ![c] = NoFlow]
         /\ UNCHANGED <<lease, held, minted, now>>
<1>0. PICK t : \E drafts \in Seq(Draft) :
         drafts # <<>> /\ Transition(snap[c], t) /\ Commit(c, t, drafts)
  BY DEF LifecycleStep
<1>1. PICK drafts \in Seq(Draft) :
         drafts # <<>> /\ Transition(snap[c], t) /\ Commit(c, t, drafts)
  BY <1>0
<1>2. snap[c] = flow /\ flow # NoFlow /\ flow' = t
  BY <1>1 DEF Commit, Inv, SnapshotsCurrentOrOld
<1>3. flow \in FlowState /\ ValidState(flow)
  BY DEF Inv, TypeOK, StoredFlowValid
<1>4. t \in FlowState /\ ValidState(t) /\ t.revision = flow.revision + 1
  BY <1>1, <1>2, <1>3, TransitionSound
<1>5. t.revision \in Nat /\ held[c] \in 0..MaxToken /\ log \in Seq(Event)
  BY <1>4 DEF FlowState, Inv, TypeOK
<1>6. log' \in Seq(Event) /\ log'[Len(log')].by = held[c]
  BY Zenon, <1>1, <1>5, RecordedLog DEF Commit
<1>7. QED
  BY Zenon, <1>1, <1>2, <1>4, <1>6 DEF Commit

\* The only other writer of the log.
LEMMA PropagationLogged ==
  ASSUME Inv, NEW c \in Client, NEW i \in 1..MaxInvocations,
         RecordPropagationFailure(c, i)
  PROVE  log' \in Seq(Event) /\ log'[Len(log')].by = held[c]
<1>1. "propagation_failed" \in FactName
  BY DEF FactName
<1>2. i \in Nat
  BY MaxInvocationsAssumption
<1>3. Fact(i, "propagation_failed") \in Draft
  BY <1>1, <1>2 DEF Fact, Draft
<1> DEFINE d == <<Fact(i, "propagation_failed")>>
<1>4. d \in Seq(Draft) /\ d # <<>>
  BY <1>3
<1>5. flow.revision \in Nat /\ held[c] \in 0..MaxToken /\ log \in Seq(Event)
  BY DEF Inv, TypeOK, FlowState
<1>6. log' = log \o Recorded(d, flow.revision, held[c])
  BY DEF RecordPropagationFailure
<1> HIDE DEF d
<1>7. QED
  BY Zenon, <1>4, <1>5, <1>6, RecordedLog

LEMMA CreateLogged ==
  ASSUME Inv, NEW c \in Client, CreateFlow(c)
  PROVE  log' \in Seq(Event) /\ log'[Len(log')].by = held[c]
<1>1. "created" \in FactName
  BY DEF FactName, RunStatus
<1>2. Fact(0, "created") \in Draft
  BY <1>1 DEF Fact, Draft
<1> DEFINE d == <<Fact(0, "created")>>
           r == Recorded(d, 1, held[c])
<1>3. d \in Seq(Draft) /\ d # <<>>
  BY <1>2
<1>4. held[c] \in 0..MaxToken
  BY DEF Inv, TypeOK
<1>5. log' = r
  BY DEF CreateFlow
<1>6. d[1] \in Draft /\ Len(d) = 1
  BY <1>2
<1>7. r = <<[of |-> d[1].of, fact |-> d[1].fact, revision |-> 1, by |-> held[c]]>>
  BY <1>6 DEF Recorded
<1> HIDE DEF d, r
<1>8. [of |-> d[1].of, fact |-> d[1].fact, revision |-> 1, by |-> held[c]] \in Event
  BY <1>4, <1>6 DEF Draft, Event
<1>9. QED
  BY <1>5, <1>7, <1>8

LEMMA InvNext == Inv /\ [Next]_vars => Inv'
<1> SUFFICES ASSUME Inv, [Next]_vars PROVE Inv'
  OBVIOUS
<1> USE DEF Inv
<1>0. 0 \in 0..MaxToken /\ 0 \in 0..MaxTime
  BY LeaseAssumption
<1>1. CASE UNCHANGED vars
  <2>1. TypeOK'
    BY <1>1 DEF vars, TypeOK
  <2>2. StoredFlowValid' /\ SnapshotsCurrentOrOld'
    BY <1>1 DEF vars, StoredFlowValid, SnapshotsCurrentOrOld
  <2>3. LeaseNewest'
    BY <1>1 DEF vars, LeaseNewest
  <2>4. QED
    BY <2>1, <2>2, <2>3
<1>2. CASE Tick
  <2>1. TypeOK'
    BY <1>2, LeaseAssumption DEF Tick, TypeOK
  <2>2. StoredFlowValid' /\ SnapshotsCurrentOrOld'
    BY <1>2 DEF Tick, StoredFlowValid, SnapshotsCurrentOrOld
  <2>3. LeaseNewest'
    BY <1>2 DEF Tick, LeaseNewest
  <2>4. QED
    BY <2>1, <2>2, <2>3
<1>3. ASSUME NEW c \in Client, CreateFlow(c) PROVE Inv'
  <2>1. /\ Created \in FlowState /\ ValidState(Created)
        /\ Created.revision = 1 /\ Created # NoFlow
    BY CreatedSound
  <2>2. TypeOK'
    BY Zenon, <1>3, <2>1, CreateLogged DEF CreateFlow, TypeOK
  <2>3. \A d \in Client : snap[d].revision = 0
    BY <1>3, NoFlowSound DEF CreateFlow, SnapshotsCurrentOrOld, TypeOK, FlowState
  <2>4. StoredFlowValid' /\ SnapshotsCurrentOrOld'
    BY <1>3, <2>1, <2>3 DEF CreateFlow, StoredFlowValid, SnapshotsCurrentOrOld
  <2>5. LeaseNewest'
    BY <1>3, <2>1 DEF CreateFlow, LeaseNewest
  <2>6. QED
    BY <2>2, <2>4, <2>5
<1>4. ASSUME NEW c \in Client, Read(c) PROVE Inv'
  <2>1. TypeOK'
    BY <1>4 DEF Read, TypeOK
  <2>2. \A d \in Client : snap'[d] = snap[d] \/ snap'[d] = flow
    BY <1>4 DEF Read, TypeOK
  <2>3. flow' = flow /\ flow # NoFlow /\ flow.revision \in Nat
    BY <1>4 DEF Read, TypeOK, FlowState
  <2>4. StoredFlowValid' /\ SnapshotsCurrentOrOld'
    BY <2>2, <2>3 DEF StoredFlowValid, SnapshotsCurrentOrOld
  <2>5. LeaseNewest'
    BY <1>4, <2>2, <2>3 DEF Read, LeaseNewest
  <2>6. QED
    BY <2>1, <2>4, <2>5
<1>5. ASSUME NEW c \in Client, Abandon(c) PROVE Inv'
  <2>1. TypeOK'
    BY <1>5, NoFlowSound DEF Abandon, TypeOK
  <2>2. \A d \in Client : snap'[d] = snap[d] \/ snap'[d] = NoFlow
    BY <1>5 DEF Abandon, TypeOK
  <2>3. flow' = flow /\ flow.revision \in Nat
    BY <1>5 DEF Abandon, TypeOK, FlowState
  <2>4. StoredFlowValid' /\ SnapshotsCurrentOrOld'
    BY <2>2, <2>3, NoFlowSound
       DEF StoredFlowValid, SnapshotsCurrentOrOld, LeaseNewest
  <2>5. LeaseNewest'
    BY <1>5, <2>2, <2>3 DEF Abandon, LeaseNewest
  <2>6. QED
    BY <2>1, <2>4, <2>5
<1>6. ASSUME NEW c \in Client, LifecycleStep(c) PROVE Inv'
  <2> DEFINE after == /\ flow # NoFlow
                      /\ flow' \in FlowState /\ ValidState(flow')
                      /\ flow'.revision = flow.revision + 1
                      /\ log' \in Seq(Event)
                      /\ snap' = [snap EXCEPT ![c] = NoFlow]
                      /\ UNCHANGED <<lease, held, minted, now>>
  <2>1. after
    BY <1>6, CommitReadsCurrent
  <2>2. TypeOK'
    BY <2>1, NoFlowSound DEF TypeOK
  <2>3. \A d \in Client : snap'[d] = snap[d] \/ snap'[d] = NoFlow
    BY <2>1 DEF TypeOK
  <2>4. /\ flow.revision \in Nat
        /\ \A d \in Client : snap[d].revision \in Nat
    BY DEF TypeOK, FlowState
  <2>5. \A d \in Client : snap'[d].revision < flow'.revision
    BY <2>1, <2>3, <2>4, NoFlowSound DEF SnapshotsCurrentOrOld
  <2>6. flow'.revision \in Nat /\ \A d \in Client : snap'[d].revision \in Nat
    BY <2>1, <2>3, <2>4, NoFlowSound
  <2>7. StoredFlowValid' /\ SnapshotsCurrentOrOld'
    BY <2>1, <2>3, <2>5, <2>6, NoFlowSound
       DEF StoredFlowValid, SnapshotsCurrentOrOld
  <2>8. LeaseNewest'
    BY <2>1, <2>3, <2>4, NoFlowSound DEF LeaseNewest
  <2>9. QED
    BY <2>2, <2>7, <2>8
<1>7. ASSUME NEW c \in Client, NEW i \in 1..MaxInvocations,
             RecordPropagationFailure(c, i)
      PROVE  Inv'
  <2>1. TypeOK'
    BY Zenon, <1>7, NoFlowSound, PropagationLogged DEF RecordPropagationFailure, TypeOK
  <2>2. \A d \in Client : snap'[d] = snap[d] \/ snap'[d] = NoFlow
    BY <1>7 DEF RecordPropagationFailure, TypeOK
  <2>3. flow' = flow /\ flow.revision \in Nat
    BY <1>7 DEF RecordPropagationFailure, TypeOK, FlowState
  <2>4. StoredFlowValid' /\ SnapshotsCurrentOrOld'
    BY <2>2, <2>3, NoFlowSound
       DEF StoredFlowValid, SnapshotsCurrentOrOld, LeaseNewest
  <2>5. LeaseNewest'
    BY <1>7, <2>2, <2>3 DEF RecordPropagationFailure, LeaseNewest
  <2>6. QED
    BY <2>1, <2>4, <2>5
<1>8. ASSUME NEW c \in Client, NEW at \in ClockReadings, Acquire(c, at)
      PROVE  Inv'
  <2>1. at + Ttl \in Nat /\ minted + 1 \in 0..MaxToken
    BY <1>8, LeaseAssumption DEF ClockReadings, Acquire, TypeOK
  <2>2. TypeOK'
    BY <1>8, <2>1 DEF Acquire, TypeOK
  <2>3. StoredFlowValid' /\ SnapshotsCurrentOrOld'
    BY <1>8 DEF Acquire, StoredFlowValid, SnapshotsCurrentOrOld
  <2>4. \A d \in Client : held'[d] <= minted + 1
    BY <1>8 DEF Acquire, LeaseNewest, TypeOK
  <2>5. LeaseNewest'
    BY <1>8, <2>4 DEF Acquire, LeaseNewest
  <2>6. QED
    BY <2>2, <2>3, <2>5
<1>9. ASSUME NEW c \in Client, NEW at \in ClockReadings, Renew(c, at)
      PROVE  Inv'
  <2>1. at + Ttl \in Nat
    BY LeaseAssumption DEF ClockReadings, TypeOK
  <2>2. TypeOK'
    BY <1>9, <2>1 DEF Renew, TypeOK
  <2>3. StoredFlowValid' /\ SnapshotsCurrentOrOld'
    BY <1>9 DEF Renew, StoredFlowValid, SnapshotsCurrentOrOld
  <2>4. lease'.token = lease.token
    BY <1>9 DEF Renew, TypeOK
  <2>5. LeaseNewest'
    BY <1>9, <2>4 DEF Renew, LeaseNewest
  <2>6. QED
    BY <2>2, <2>3, <2>5
<1>10. ASSUME NEW c \in Client, Release(c) PROVE Inv'
  <2>2. TypeOK'
    BY Zenon, <1>10 DEF Release, TypeOK
  <2>3. StoredFlowValid' /\ SnapshotsCurrentOrOld'
    BY <1>10 DEF Release, StoredFlowValid, SnapshotsCurrentOrOld
  <2>4. lease'.token = lease.token
    BY <1>10 DEF Release, TypeOK
  <2>5. LeaseNewest'
    BY <1>10, <2>4 DEF Release, LeaseNewest
  <2>6. QED
    BY <2>2, <2>3, <2>5
<1>11. QED
  BY <1>1, <1>2, <1>3, <1>4, <1>5, <1>6, <1>7, <1>8, <1>9, <1>10, StepCases
     DEF Step

LEMMA Invariance == Spec => []Inv
<1>1. QED
  BY InvInit, InvNext, PTL DEF Spec

\* Every variable of the repository keeps its type.
THEOREM TypeCorrect == Spec => []TypeOK
  BY Invariance, PTL DEF Inv

\* Every Flow the repository stores passes validate_state, and so does every
\* snapshot read from it.
THEOREM StoredFlowsValid == Spec => []StoredFlowValid
  BY Invariance, PTL DEF Inv

\* No snapshot is newer than the stored Flow, and one with its revision is it:
\* what makes the revision check of commit sufficient.
THEOREM RevisionIdentifiesFlow == Spec => []SnapshotsCurrentOrOld
  BY Invariance, PTL DEF Inv

\* Only the newest execution lease writes events: an expired, released or
\* replaced holder, and a client without a lease, are fenced.
THEOREM OnlyNewestTokenWrites == Spec => NewestTokenWrites
<1> DEFINE A == Len(log') > Len(log) => log'[Len(log')].by = minted
<1>1. Inv /\ [Next]_vars => [A]_vars
  <2> SUFFICES ASSUME Inv, Next PROVE A
    BY DEF vars
  <2>0. ASSUME NEW c \in Client, TokenValid(c) PROVE held[c] = minted
    <3>1. held[c] \in Nat /\ minted \in Nat
      BY DEF Inv, TypeOK
    <3>2. QED
      BY <2>0, <3>1 DEF TokenValid, Inv, LeaseNewest
  <2>1. ASSUME NEW c \in Client, CreateFlow(c) PROVE A
    <3>1. held[c] \in Nat /\ held[c] <= minted /\ minted = 0
      BY <2>1 DEF CreateFlow, Inv, TypeOK, LeaseNewest
    <3>2. QED
      BY <2>1, <3>1, CreateLogged
  <2>2. ASSUME NEW c \in Client, LifecycleStep(c) PROVE A
    BY <2>0, <2>2, CommitReadsCurrent
  <2>3. ASSUME NEW c \in Client, NEW i \in 1..MaxInvocations,
               RecordPropagationFailure(c, i)
        PROVE  A
    <3>1. TokenValid(c)
      BY <2>3 DEF RecordPropagationFailure
    <3>2. QED
      BY <2>0, <2>3, <3>1, PropagationLogged
  <2>4. Len(log) \in Nat
    BY DEF Inv, TypeOK
  <2>5. CASE log' = log
    BY <2>4, <2>5
  <2>6. QED
    BY <2>1, <2>2, <2>3, <2>5, StepCases
       DEF Step, Tick, Read, Abandon, Acquire, Renew, Release, Inv
<1>2. QED
  BY <1>1, Invariance, PTL DEF Spec, NewestTokenWrites

\* A running execution lease is not taken over: acquire_execution compares a
\* possibly stale clock reading with the expiry, and a stale reading is earlier.
THEOREM RunningLeaseExclusive == Spec => LeaseExclusive
<1> DEFINE A == lease.active /\ now < lease.expires => lease'.token = lease.token
<1>1. Inv /\ [Next]_vars => [A]_vars
  <2> SUFFICES ASSUME Inv, Next, lease.active, now < lease.expires
               PROVE  lease'.token = lease.token
    BY DEF vars
  <2>0. lease \in [token : 0..MaxToken, active : BOOLEAN, expires : Nat]
        /\ now \in Nat
    BY DEF Inv, TypeOK
  <2>1. ASSUME NEW c \in Client, NEW at \in ClockReadings, Acquire(c, at)
        PROVE  FALSE
    <3>1. at \in Nat /\ at <= now
      BY <2>0 DEF ClockReadings
    <3>2. QED
      BY <2>0, <2>1, <3>1 DEF Acquire
  <2>2. ASSUME NEW c \in Client, NEW at \in ClockReadings, Renew(c, at)
        PROVE  lease'.token = lease.token
    BY <2>0, <2>2 DEF Renew
  <2>3. ASSUME NEW c \in Client, Release(c)
        PROVE  lease'.token = lease.token
    BY <2>0, <2>3 DEF Release
  <2>4. ASSUME NEW c \in Client, LifecycleStep(c)
        PROVE  lease'.token = lease.token
    BY <2>4, CommitReadsCurrent
  <2>5. QED
    BY Zenon, <2>1, <2>2, <2>3, <2>4, StepCases
       DEF Step, Tick, CreateFlow, Read, Abandon, RecordPropagationFailure, Inv
<1>2. QED
  BY <1>1, Invariance, PTL DEF Spec, LeaseExclusive

-----------------------------------------------------------------------------
\* The transitions of FlowAggregate, which the instance renames, are those of
\* FlowRun.
LEMMA SameTransitions ==
  ASSUME NEW s, NEW t, Transition(s, t)
  PROVE  Aggregate!Transition(s, t)
  BY DEF Transition, CanStart, Started, CanBegin, Begun, CanSettle, Settled,
         CanResume, Resumed, CanComplete, Completed, CanTerminate, Terminated,
         ResultStatus, ErrorStatus, Terminal,
         Aggregate!Transition, Aggregate!CanStart, Aggregate!Started,
         Aggregate!CanBegin, Aggregate!Begun, Aggregate!CanSettle,
         Aggregate!Settled, Aggregate!CanResume, Aggregate!Resumed,
         Aggregate!CanComplete, Aggregate!Completed, Aggregate!CanTerminate,
         Aggregate!Terminated, Aggregate!ResultStatus, Aggregate!ErrorStatus,
         Aggregate!Terminal

\* Reading, computing and committing implements the atomic aggregate: every
\* commit applies its lifecycle method to the Flow stored at that moment.
THEOREM Linearizable == Spec => LinearizableLifecycle
<1>1. Init => Aggregate!Init
  BY DEF Init, Aggregate!Init, NoFlow, Aggregate!NoFlow
<1>2. Inv /\ [Next]_vars => [Aggregate!Next]_flow
  <2> SUFFICES ASSUME Inv, [Next]_vars, flow' # flow PROVE Aggregate!Next
    OBVIOUS
  <2>1. ASSUME NEW c \in Client, CreateFlow(c) PROVE Aggregate!Next
    BY <2>1 DEF CreateFlow, Created, NoFlow, Aggregate!Next, Aggregate!Create,
                Aggregate!Created, Aggregate!NoFlow
  <2>2. ASSUME NEW c \in Client, LifecycleStep(c) PROVE Aggregate!Next
    <3>1. flow.revision > 0
      BY <2>2, CommitReadsCurrent DEF Inv, LeaseNewest
    <3>2. Aggregate!Transition(flow, flow')
      BY <2>2, CommitReadsCurrent, SameTransitions
    <3>3. QED
      BY <3>1, <3>2 DEF Aggregate!Next, Aggregate!Apply
  <2>3. QED
    BY Zenon, <2>1, <2>2, StepCases
       DEF Step, Tick, Read, Abandon, RecordPropagationFailure, Acquire, Renew,
           Release, Inv, vars
<1>3. QED
  BY <1>1, <1>2, Invariance, PTL
     DEF Spec, LinearizableLifecycle, Aggregate!Spec

-----------------------------------------------------------------------------
\* What the log tells about the Flow.  LastFact chooses; here the choice is a
\* position, so that it can be followed while the log grows.
LifecycleFact(q, of, i) == q[i].of = of /\ q[i].fact # "propagation_failed"

LastAt(q, of, i) ==
    /\ i \in 1..Len(q)
    /\ LifecycleFact(q, of, i)
    /\ \A j \in 1..Len(q) : LifecycleFact(q, of, j) => j <= i

\* The last fact of log q about the Flow (0) or an invocation is f.
Told(q, of, f) == \E i \in 1..Len(q) : LastAt(q, of, i) /\ q[i].fact = f

\* The last fact about the Flow gives its status, except that the settlement of
\* a waiting invocation leaves none.
StatusTold(f, status) ==
    IF f \in Terminal \cup {"created"} THEN status = f
    ELSE status \in {"running", "waiting"}

\* The log q tells the state s.
LogTells(q, s) ==
    /\ q # <<>> /\ q[Len(q)].revision = s.revision
    /\ \A e \in 1..Len(q) : q[e].of <= Len(s.inv)
    /\ \E f \in FactName : Told(q, 0, f) /\ StatusTold(f, s.status)
    /\ \A i \in 1..Len(s.inv) : \E f \in FactName : Told(q, i, f) /\ s.inv[i] = StatusOf(f)

LogInv == flow # NoFlow => LogTells(log, flow)

LEMMA LastFactTold ==
  ASSUME log \in Seq(Event), NEW of \in Nat, NEW f, Told(log, of, f)
  PROVE  LastFact(of) = f
<1> DEFINE facts == {i \in DOMAIN log : log[i].of = of /\ log[i].fact # "propagation_failed"}
<1>1. DOMAIN log = 1..Len(log) /\ Len(log) \in Nat
  OBVIOUS
<1>2. PICK i \in 1..Len(log) : LastAt(log, of, i) /\ log[i].fact = f
  BY DEF Told
<1>3. i \in facts /\ \A j \in facts : j <= i
  BY <1>1, <1>2 DEF LastAt, LifecycleFact
<1>4. \A k \in facts : (\A j \in facts : j <= k) => k = i
  BY <1>1, <1>3
<1>5. (CHOOSE k \in facts : \A j \in facts : j <= k) = i
  BY <1>3, <1>4
<1>6. LastFact(of) = log[CHOOSE k \in facts : \A j \in facts : j <= k].fact
  BY DEF LastFact
<1> HIDE DEF facts
<1>7. QED
  BY Zenon, <1>2, <1>5, <1>6

\* A new fact is the last one about what it is about, and no other changes.
LEMMA ToldAppend ==
  ASSUME NEW q \in Seq(Event), NEW e \in Event, NEW of \in Nat, NEW f
  PROVE  /\ e.of = of /\ e.fact # "propagation_failed" /\ f = e.fact =>
               Told(Append(q, e), of, f)
         /\ (e.of # of \/ e.fact = "propagation_failed") /\ Told(q, of, f) =>
               Told(Append(q, e), of, f)
<1> DEFINE r == Append(q, e)
<1>1. /\ Len(q) \in Nat /\ Len(r) = Len(q) + 1 /\ r[Len(q) + 1] = e
      /\ \A i \in 1..Len(q) : r[i] = q[i]
      /\ Len(q) + 1 \in 1..Len(r)
  OBVIOUS
<1> HIDE DEF r
<1>2. ASSUME e.of = of, e.fact # "propagation_failed", f = e.fact PROVE Told(r, of, f)
  <2>1. LastAt(r, of, Len(q) + 1)
    BY <1>1, <1>2 DEF LastAt, LifecycleFact
  <2>2. QED
    BY <1>1, <1>2, <2>1 DEF Told
<1>3. ASSUME e.of # of \/ e.fact = "propagation_failed", Told(q, of, f) PROVE Told(r, of, f)
  <2>1. PICK i \in 1..Len(q) : LastAt(q, of, i) /\ q[i].fact = f
    BY <1>3 DEF Told
  <2>2. i \in 1..Len(r) /\ r[i] = q[i]
    BY <1>1
  <2>3. LastAt(r, of, i)
    BY <1>1, <1>3, <2>1, <2>2 DEF LastAt, LifecycleFact
  <2>4. QED
    BY <2>1, <2>2, <2>3 DEF Told
<1>4. QED
  BY <1>2, <1>3 DEF r

\* The stored form of a draft.
Stored(d, revision, token) ==
    [of |-> d.of, fact |-> d.fact, revision |-> revision, by |-> token]

LEMMA StoredEvent ==
  ASSUME NEW i \in Nat, NEW f \in FactName, NEW revision \in Nat, NEW token \in 0..MaxToken,
         NEW e, e = Stored(Fact(i, f), revision, token)
  PROVE  e \in Event /\ e.of = i /\ e.fact = f /\ e.revision = revision /\ Fact(i, f) \in Draft
BY DEF Stored, Fact, Event, Draft

LEMMA RecordedOne ==
  ASSUME NEW q \in Seq(Event), NEW d \in Draft, NEW revision \in Nat, NEW token \in 0..MaxToken
  PROVE  q \o Recorded(<<d>>, revision, token) = Append(q, Stored(d, revision, token))
<1>1. Stored(d, revision, token) \in Event
  BY DEF Stored, Draft, Event
<1>2. Recorded(<<d>>, revision, token) = <<Stored(d, revision, token)>>
  BY DEF Recorded, Stored
<1> DEFINE e == Stored(d, revision, token)
<1> HIDE DEF e
<1>3. q \o <<e>> = Append(q, e)
  BY <1>1 DEF e
<1>4. QED
  BY Zenon, <1>2, <1>3 DEF e

LEMMA RecordedTwo ==
  ASSUME NEW q \in Seq(Event), NEW c \in Draft, NEW d \in Draft, NEW revision \in Nat,
         NEW token \in 0..MaxToken
  PROVE  q \o Recorded(<<c, d>>, revision, token) =
            Append(Append(q, Stored(c, revision, token)), Stored(d, revision, token))
<1> DEFINE a == Stored(c, revision, token)
           b == Stored(d, revision, token)
<1>1. a \in Event /\ b \in Event
  BY DEF Stored, Draft, Event
<1>2. Recorded(<<c, d>>, revision, token) = <<a, b>>
  BY DEF Recorded, Stored
<1> HIDE DEF a, b
<1>3. q \o <<a, b>> = Append(Append(q, a), b)
  BY <1>1
<1>4. QED
  BY Zenon, <1>2, <1>3 DEF a, b

\* One fact is enough for a change of the Flow's status, or of one invocation.
LEMMA TellsOne ==
  ASSUME NEW q \in Seq(Event), NEW s \in FlowState, NEW t \in FlowState, LogTells(q, s),
         NEW i \in 0..Len(t.inv), NEW f \in FactName \ {"propagation_failed"},
         NEW token \in 0..MaxToken,
         Len(s.inv) <= Len(t.inv),
         \A j \in 1..Len(t.inv) : j # i => j <= Len(s.inv) /\ t.inv[j] = s.inv[j],
         i # 0 => t.inv[i] = StatusOf(f),
         i # 0 => \A g \in FactName : StatusTold(g, s.status) => StatusTold(g, t.status),
         i = 0 => StatusTold(f, t.status)
  PROVE  LogTells(Append(q, Stored(Fact(i, f), t.revision, token)), t)
<1> DEFINE e == Stored(Fact(i, f), t.revision, token)
           r == Append(q, e)
<1>0. Len(s.inv) \in Nat /\ Len(t.inv) \in Nat /\ t.revision \in Nat
  BY DEF FlowState
<1>1. e \in Event /\ e.of = i /\ e.fact = f /\ e.revision = t.revision
  BY <1>0, StoredEvent
<1> HIDE DEF e
<1>2. ASSUME NEW of \in Nat, NEW g
      PROVE  /\ of = i /\ g = f => Told(r, of, g)
             /\ of # i /\ Told(q, of, g) => Told(r, of, g)
  BY <1>1, ToldAppend
<1>3. /\ r # <<>> /\ r[Len(r)].revision = t.revision
      /\ \A k \in 1..Len(r) : r[k].of <= Len(t.inv)
  <2>1. /\ Len(q) \in Nat /\ Len(r) = Len(q) + 1 /\ r[Len(q) + 1] = e
        /\ \A k \in 1..Len(q) : r[k] = q[k] /\ q[k] \in Event
    BY <1>1
  <2>2. \A k \in 1..Len(q) : q[k].of \in Nat /\ q[k].of <= Len(s.inv)
    BY <2>1 DEF LogTells, Event
  <2>3. r # <<>>
    BY <2>1
  <2> HIDE DEF r
  <2>4. ASSUME NEW k \in 1..Len(r) PROVE r[k].of <= Len(t.inv)
    <3>1. CASE k \in 1..Len(q)
      BY <1>0, <2>1, <2>2, <3>1
    <3>2. CASE k = Len(q) + 1
      BY <1>0, <1>1, <2>1, <3>2
    <3>3. QED
      BY <2>1, <3>1, <3>2
  <2>5. QED
    BY <1>1, <2>1, <2>3, <2>4
<1> HIDE DEF r
<1>4. \E g \in FactName : Told(r, 0, g) /\ StatusTold(g, t.status)
  <2>1. CASE i = 0
    BY <1>2, <2>1
  <2>2. CASE i # 0
    BY <1>2, <2>2 DEF LogTells
  <2>3. QED
    BY <2>1, <2>2
<1>5. ASSUME NEW j \in 1..Len(t.inv)
      PROVE  \E g \in FactName : Told(r, j, g) /\ t.inv[j] = StatusOf(g)
  <2>1. CASE j = i
    BY <1>0, <1>2, <2>1
  <2>2. CASE j # i
    <3>1. j \in 1..Len(s.inv) /\ t.inv[j] = s.inv[j] /\ j \in Nat
      BY <1>0, <2>2
    <3>2. QED
      BY <1>2, <2>2, <3>1 DEF LogTells
  <2>3. QED
    BY <2>1, <2>2
<1>6. QED
  BY <1>3, <1>4, <1>5 DEF LogTells, r, e

\* An invocation and the Flow change together: first the fact about the former.
LEMMA TellsTwo ==
  ASSUME NEW q \in Seq(Event), NEW s \in FlowState, NEW t \in FlowState, LogTells(q, s),
         NEW i \in 1..Len(t.inv), NEW f \in FactName \ {"propagation_failed"},
         NEW h \in FactName \ {"propagation_failed"}, NEW token \in 0..MaxToken,
         Len(s.inv) = Len(t.inv),
         \A j \in 1..Len(t.inv) : j # i => t.inv[j] = s.inv[j],
         t.inv[i] = StatusOf(f),
         StatusTold(h, t.status)
  PROVE  LogTells(Append(Append(q, Stored(Fact(i, f), t.revision, token)),
                         Stored(Fact(0, h), t.revision, token)), t)
<1> DEFINE u == [status |-> s.status, revision |-> t.revision, inv |-> t.inv,
                 active |-> t.active]
           r == Append(q, Stored(Fact(i, f), t.revision, token))
<1>0. Len(s.inv) \in Nat /\ Len(t.inv) \in Nat /\ t.revision \in Nat /\ i \in Nat
  BY DEF FlowState
<1>1. u \in FlowState /\ u.status = s.status /\ u.revision = t.revision /\ u.inv = t.inv
  BY DEF FlowState
<1> HIDE DEF u
<1>2. i \in 0..Len(u.inv) /\ Len(s.inv) <= Len(u.inv)
  BY <1>0, <1>1
<1>3. /\ \A j \in 1..Len(u.inv) : j # i => j <= Len(s.inv) /\ u.inv[j] = s.inv[j]
      /\ i # 0 => u.inv[i] = StatusOf(f)
      /\ i # 0 => \A g \in FactName : StatusTold(g, s.status) => StatusTold(g, u.status)
      /\ i = 0 => StatusTold(f, u.status)
  BY <1>0, <1>1
<1>4. LogTells(r, u)
  BY <1>1, <1>2, <1>3, TellsOne
<1>5. r \in Seq(Event)
  BY <1>0, StoredEvent
<1> HIDE DEF r
<1>6. 0 \in 0..Len(t.inv) /\ Len(u.inv) <= Len(t.inv)
  BY <1>0, <1>1
<1>7. \A j \in 1..Len(t.inv) : j # 0 => j <= Len(u.inv) /\ t.inv[j] = u.inv[j]
  BY <1>0, <1>1
<1>8. LogTells(Append(r, Stored(Fact(0, h), t.revision, token)), t)
  BY <1>1, <1>4, <1>5, <1>6, <1>7, TellsOne
<1>9. QED
  BY <1>8 DEF r

\* A fact that is no lifecycle fact leaves what the log tells.
LEMMA TellsSame ==
  ASSUME NEW q \in Seq(Event), NEW s \in FlowState, LogTells(q, s),
         NEW i \in 0..Len(s.inv), NEW token \in 0..MaxToken
  PROVE  LogTells(Append(q, Stored(Fact(i, "propagation_failed"), s.revision, token)), s)
<1> DEFINE e == Stored(Fact(i, "propagation_failed"), s.revision, token)
           r == Append(q, e)
<1>0. Len(s.inv) \in Nat /\ s.revision \in Nat /\ "propagation_failed" \in FactName
  BY DEF FlowState, FactName
<1>1. e \in Event /\ e.of = i /\ e.fact = "propagation_failed" /\ e.revision = s.revision
  BY <1>0, StoredEvent
<1> HIDE DEF e
<1>2. ASSUME NEW of \in Nat, NEW g, Told(q, of, g) PROVE Told(r, of, g)
  BY <1>1, <1>2, ToldAppend
<1>3. /\ r # <<>> /\ r[Len(r)].revision = s.revision
      /\ \A k \in 1..Len(r) : r[k].of <= Len(s.inv)
  <2>1. /\ Len(q) \in Nat /\ Len(r) = Len(q) + 1 /\ r[Len(q) + 1] = e
        /\ \A k \in 1..Len(q) : r[k] = q[k]
    BY <1>1
  <2>2. \A k \in 1..Len(q) : q[k].of <= Len(s.inv)
    BY DEF LogTells
  <2>3. r # <<>>
    BY <2>1
  <2> HIDE DEF r
  <2>4. QED
    BY <1>0, <1>1, <2>1, <2>2, <2>3
<1> HIDE DEF r
<1>4. \A j \in 1..Len(s.inv) : j \in Nat
  BY <1>0
<1>5. QED
  BY <1>2, <1>3, <1>4 DEF LogTells, r, e

LEMMA PairJoined ==
  ASSUME NEW a, NEW b
  PROVE  <<a>> \o <<b>> = <<a, b>>
<1>1. <<a>> \in Seq({a, b}) /\ <<b>> \in Seq({a, b}) /\ <<a, b>> \in Seq({a, b})
  OBVIOUS
<1>2. Len(<<a>> \o <<b>>) = 2 /\ Len(<<a, b>>) = 2 /\ <<a>> \o <<b>> \in Seq({a, b})
  BY <1>1
<1>3. (<<a>> \o <<b>>)[1] = a /\ (<<a>> \o <<b>>)[2] = b
  BY <1>1
<1>4. \A i \in 1..Len(<<a>> \o <<b>>) : (<<a>> \o <<b>>)[i] = <<a, b>>[i]
  BY <1>2, <1>3
<1>5. QED
  BY Zenon, <1>1, <1>2, <1>4, SeqEqual

\* A commit of FlowLifecycle, on the Flow it has read, keeps the log telling it.
LEMMA CommitTells ==
  ASSUME Inv, LogInv, NEW c \in Client,
         \/ StartFlow(c)
         \/ BeginInvocation(c)
         \/ \E r \in Results : SettleInvocation(c, r)
         \/ ResumeInvocation(c)
         \/ CompleteFlow(c)
         \/ \E e \in Ends : TerminateFlow(c, e)
  PROVE  LogTells(log', flow')
<1>0. /\ flow \in FlowState /\ ValidState(flow) /\ log \in Seq(Event)
      /\ held[c] \in 0..MaxToken
  BY DEF Inv, TypeOK, StoredFlowValid
<1>1. ASSUME NEW t, NEW drafts, Commit(c, t, drafts)
      PROVE  /\ snap[c] = flow /\ LogTells(log, flow) /\ flow' = t
             /\ log' = log \o Recorded(drafts, t.revision, held[c])
  BY <1>1 DEF Commit, Inv, SnapshotsCurrentOrOld, LogInv
<1>2. ASSUME NEW t, Transition(flow, t)
      PROVE  t \in FlowState /\ t.revision \in Nat
  <2>1. t \in FlowState
    BY <1>0, <1>2, TransitionSound
  <2>2. QED
    BY <2>1 DEF FlowState
<1>3. /\ Len(flow.inv) \in Nat /\ flow.active \in Nat /\ flow.inv \in Seq(InvocationStatus)
      /\ flow = [status |-> flow.status, revision |-> flow.revision, inv |-> flow.inv,
                 active |-> flow.active]
      /\ flow.active # 0 => flow.active \in 1..Len(flow.inv)
  BY <1>0 DEF FlowState, ValidState
<1>4. /\ {"started", "resumed", "waiting", "completed"} \subseteq FactName \ {"propagation_failed"}
      /\ ResultStatus \subseteq FactName \ {"propagation_failed"}
      /\ ErrorStatus \subseteq FactName \ {"propagation_failed"}
      /\ ErrorStatus \subseteq Terminal /\ "completed" \in Terminal
      /\ {"started", "resumed", "running", "waiting"} \cap (Terminal \cup {"created"}) = {}
      /\ {"started", "resumed"} \cap (ResultStatus \cup ErrorStatus) = {}
  BY DEF FactName, RunStatus, ResultStatus, Terminal, ErrorStatus
<1>5. ASSUME NEW i \in Nat, NEW f \in FactName PROVE Fact(i, f) \in Draft
  BY DEF Fact, Draft
\* one draft
<1>6. ASSUME NEW t, Transition(flow, t), NEW i \in 0..Len(t.inv),
             NEW f \in FactName \ {"propagation_failed"},
             Commit(c, t, <<Fact(i, f)>>),
             Len(flow.inv) <= Len(t.inv),
             \A j \in 1..Len(t.inv) : j # i => j <= Len(flow.inv) /\ t.inv[j] = flow.inv[j],
             i # 0 => t.inv[i] = StatusOf(f),
             i # 0 => \A g \in FactName : StatusTold(g, flow.status) => StatusTold(g, t.status),
             i = 0 => StatusTold(f, t.status)
      PROVE  LogTells(log', flow')
  <2>1. t \in FlowState /\ t.revision \in Nat /\ i \in Nat
    BY <1>2, <1>6 DEF FlowState
  <2>2. /\ LogTells(log, flow) /\ flow' = t /\ Fact(i, f) \in Draft
        /\ log' = log \o Recorded(<<Fact(i, f)>>, t.revision, held[c])
    BY Zenon, <1>1, <1>5, <1>6, <2>1
  <2>3. log' = Append(log, Stored(Fact(i, f), t.revision, held[c]))
    BY Zenon, <1>0, <2>1, <2>2, RecordedOne
  <2>4. LogTells(Append(log, Stored(Fact(i, f), t.revision, held[c])), t)
    BY Zenon, <1>0, <1>6, <2>1, <2>2, TellsOne
  <2>5. QED
    BY Zenon, <2>2, <2>3, <2>4
\* two drafts
<1>7. ASSUME NEW t, Transition(flow, t), NEW i \in 1..Len(t.inv),
             NEW f \in FactName \ {"propagation_failed"},
             NEW h \in FactName \ {"propagation_failed"},
             Commit(c, t, <<Fact(i, f), Fact(0, h)>>),
             Len(flow.inv) = Len(t.inv),
             \A j \in 1..Len(t.inv) : j # i => t.inv[j] = flow.inv[j],
             t.inv[i] = StatusOf(f),
             StatusTold(h, t.status)
      PROVE  LogTells(log', flow')
  <2>0. t \in FlowState
    BY <1>2, <1>7
  <2>1. t \in FlowState /\ t.revision \in Nat /\ i \in Nat
    BY <2>0 DEF FlowState
  <2>2. /\ LogTells(log, flow) /\ flow' = t /\ Fact(i, f) \in Draft /\ Fact(0, h) \in Draft
        /\ log' = log \o Recorded(<<Fact(i, f), Fact(0, h)>>, t.revision, held[c])
    BY Zenon, <1>1, <1>5, <1>7, <2>1
  <2>3. log' = Append(Append(log, Stored(Fact(i, f), t.revision, held[c])),
                      Stored(Fact(0, h), t.revision, held[c]))
    BY ZenonT(30), <1>0, <2>1, <2>2, RecordedTwo
  <2>4. LogTells(Append(Append(log, Stored(Fact(i, f), t.revision, held[c])),
                        Stored(Fact(0, h), t.revision, held[c])), t)
    BY Zenon, <1>0, <1>7, <2>1, <2>2, TellsTwo
  <2>5. QED
    BY Zenon, <2>2, <2>3, <2>4
<1>8. CASE StartFlow(c)
  <2>1. PICK t : t = Started(snap[c])
    OBVIOUS
  <2>2. CanStart(snap[c]) /\ Commit(c, t, <<Fact(0, "started")>>) /\ snap[c] = flow
    BY <1>1, <1>8, <2>1 DEF StartFlow
  <2>3. t.inv = flow.inv /\ t.status = "running" /\ Transition(flow, t)
    BY <1>3, <2>1, <2>2 DEF Started, Transition
  <2>4. StatusTold("started", t.status)
    BY <1>4, <2>3 DEF StatusTold
  <2>5. /\ 0 \in 0..Len(t.inv) /\ Len(flow.inv) <= Len(t.inv)
        /\ \A j \in 1..Len(t.inv) : j # 0 => j <= Len(flow.inv) /\ t.inv[j] = flow.inv[j]
        /\ "started" \in FactName \ {"propagation_failed"}
    BY <1>3, <1>4, <2>3
  <2>6. QED
    BY Zenon, <1>6, <2>2, <2>3, <2>4, <2>5
<1>9. CASE BeginInvocation(c)
  <2>1. PICK t : t = Begun(snap[c])
    OBVIOUS
  <2>2. /\ CanBegin(snap[c]) /\ snap[c] = flow
        /\ Commit(c, t, <<Fact(Len(flow.inv) + 1, "started")>>)
    BY <1>1, <1>9, <2>1 DEF BeginInvocation
  <2>3. t.inv = Append(flow.inv, "running") /\ t.status = flow.status /\ Transition(flow, t)
    BY <1>3, <2>1, <2>2 DEF Begun, Transition
  <2>4. /\ Len(t.inv) = Len(flow.inv) + 1 /\ t.inv[Len(flow.inv) + 1] = "running"
        /\ \A j \in 1..Len(flow.inv) : t.inv[j] = flow.inv[j]
    BY <1>3, <2>3
  <2>5. StatusOf("started") = "running"
    BY DEF StatusOf
  <2>6. /\ Len(flow.inv) + 1 \in 0..Len(t.inv) /\ Len(flow.inv) <= Len(t.inv)
        /\ \A j \in 1..Len(t.inv) : j # Len(flow.inv) + 1 =>
              j <= Len(flow.inv) /\ t.inv[j] = flow.inv[j]
        /\ Len(flow.inv) + 1 # 0
    BY <1>3, <2>4
  <2>7. QED
    BY Zenon, <1>4, <1>6, <2>2, <2>3, <2>4, <2>5, <2>6
<1>u. ASSUME NEW i \in 1..Len(flow.inv), NEW st, NEW q, q = [flow.inv EXCEPT ![i] = st]
      PROVE  /\ Len(q) = Len(flow.inv) /\ i \in 1..Len(q) /\ q[i] = st
             /\ \A j \in 1..Len(q) : j # i => q[j] = flow.inv[j]
  BY <1>3, <1>u
<1>10. ASSUME NEW r \in Results, SettleInvocation(c, r) PROVE LogTells(log', flow')
  <2>1. PICK t : t = Settled(snap[c], snap[c].active, r)
    OBVIOUS
  <2> DEFINE i == flow.active
  <2>2. /\ CanSettle(snap[c], snap[c].active) /\ snap[c] = flow
        /\ Commit(c, t, <<Fact(i, r)>> \o
                        (IF r = "waiting" THEN <<Fact(0, "waiting")>> ELSE <<>>))
    BY <1>1, <1>10, <2>1 DEF SettleInvocation
  <2>3. r \in ResultStatus /\ r \in FactName \ {"propagation_failed"} /\ StatusOf(r) = r
    BY <1>4, InputAssumption DEF StatusOf
  <2>4. /\ t.inv = [flow.inv EXCEPT ![i] = r] /\ Transition(flow, t)
        /\ t.status = IF r = "waiting" THEN "waiting" ELSE "running"
    BY Zenon, <1>3, <2>1, <2>2, <2>3 DEF Settled, Transition
  <2>5. i \in 1..Len(flow.inv) /\ i # 0 /\ flow.status \in {"running", "waiting"}
    BY <1>3, <2>2 DEF CanSettle
  <2>6. /\ Len(t.inv) = Len(flow.inv) /\ i \in 1..Len(t.inv) /\ t.inv[i] = r
        /\ \A j \in 1..Len(t.inv) : j # i => t.inv[j] = flow.inv[j]
    BY <1>u, <2>4, <2>5
  <2> HIDE DEF i
  <2>7. CASE r = "waiting"
    <3>0. <<Fact(i, r)>> \o <<Fact(0, "waiting")>> = <<Fact(i, r), Fact(0, "waiting")>>
      BY PairJoined
    <3>1. Commit(c, t, <<Fact(i, r), Fact(0, "waiting")>>)
      BY Zenon, <2>2, <2>7, <3>0
    <3>2. StatusTold("waiting", t.status)
      BY <1>4, <2>4, <2>7 DEF StatusTold
    <3>3. QED
      BY Zenon, <1>4, <1>7, <2>3, <2>4, <2>6, <3>1, <3>2
  <2>8. CASE r # "waiting"
    <3>1. Commit(c, t, <<Fact(i, r)>>)
      BY <2>2, <2>8
    <3>2. \A g \in FactName : StatusTold(g, flow.status) => StatusTold(g, t.status)
      BY <1>4, <2>4, <2>5, <2>8 DEF StatusTold
    <3>3. /\ i \in 0..Len(t.inv) /\ Len(flow.inv) <= Len(t.inv)
          /\ \A j \in 1..Len(t.inv) : j # i => j <= Len(flow.inv) /\ t.inv[j] = flow.inv[j]
      BY <1>3, <2>6
    <3>4. QED
      BY <1>6, <2>3, <2>4, <2>5, <2>6, <3>1, <3>2, <3>3
  <2>9. QED
    BY <2>7, <2>8
<1>11. CASE ResumeInvocation(c)
  <2>1. PICK t : t = Resumed(snap[c], snap[c].active)
    OBVIOUS
  <2> DEFINE i == flow.active
  <2>2. /\ CanResume(snap[c], snap[c].active) /\ snap[c] = flow
        /\ Commit(c, t, <<Fact(i, "resumed"), Fact(0, "resumed")>>)
    BY Zenon, <1>1, <1>11, <2>1 DEF ResumeInvocation
  <2>3. /\ t.inv = [flow.inv EXCEPT ![i] = "running"] /\ Transition(flow, t)
        /\ t.status = "running"
    BY <1>3, <2>1, <2>2 DEF Resumed, Transition
  <2>4. i \in 1..Len(flow.inv)
    BY <1>3, <2>2 DEF CanResume
  <2>5. /\ Len(t.inv) = Len(flow.inv) /\ i \in 1..Len(t.inv) /\ t.inv[i] = "running"
        /\ \A j \in 1..Len(t.inv) : j # i => t.inv[j] = flow.inv[j]
    BY <1>u, <2>3, <2>4
  <2>6. StatusTold("resumed", t.status) /\ StatusOf("resumed") = "running"
    BY <1>4, <2>3 DEF StatusTold, StatusOf
  <2> HIDE DEF i
  <2>7. PICK f \in FactName \ {"propagation_failed"} : f = "resumed"
    BY <1>4
  <2>8. /\ Commit(c, t, <<Fact(i, f), Fact(0, f)>>) /\ Transition(flow, t)
        /\ i \in 1..Len(t.inv) /\ t.inv[i] = StatusOf(f) /\ StatusTold(f, t.status)
    BY <2>2, <2>3, <2>5, <2>6, <2>7
  <2>9. Len(flow.inv) = Len(t.inv) /\ \A j \in 1..Len(t.inv) : j # i => t.inv[j] = flow.inv[j]
    BY <2>5
  <2>10. QED
    BY Zenon, <1>7, <2>8, <2>9
<1>12. CASE CompleteFlow(c)
  <2>1. PICK t : t = Completed(snap[c])
    OBVIOUS
  <2>2. CanComplete(snap[c]) /\ Commit(c, t, <<Fact(0, "completed")>>) /\ snap[c] = flow
    BY <1>1, <1>12, <2>1 DEF CompleteFlow
  <2>3. t.inv = flow.inv /\ t.status = "completed" /\ Transition(flow, t)
    BY <1>3, <2>1, <2>2 DEF Completed, Transition
  <2>4. StatusTold("completed", t.status)
    BY <1>4, <2>3 DEF StatusTold
  <2>5. /\ 0 \in 0..Len(t.inv) /\ Len(flow.inv) <= Len(t.inv)
        /\ \A j \in 1..Len(t.inv) : j # 0 => j <= Len(flow.inv) /\ t.inv[j] = flow.inv[j]
        /\ "completed" \in FactName \ {"propagation_failed"}
    BY <1>3, <1>4, <2>3
  <2>6. QED
    BY Zenon, <1>6, <2>2, <2>3, <2>4, <2>5
<1>13. ASSUME NEW e \in Ends, TerminateFlow(c, e) PROVE LogTells(log', flow')
  <2>1. PICK t : t = Terminated(snap[c], e)
    OBVIOUS
  <2> DEFINE i == flow.active
  <2>2. /\ CanTerminate(snap[c]) /\ snap[c] = flow
        /\ Commit(c, t, (IF i = 0 THEN <<>> ELSE <<Fact(i, e)>>) \o <<Fact(0, e)>>)
    BY <1>1, <1>13, <2>1 DEF TerminateFlow
  <2>3. e \in ErrorStatus /\ e \in FactName \ {"propagation_failed"} /\ StatusOf(e) = e
    BY <1>4, InputAssumption DEF StatusOf
  <2>4. /\ t.inv = IF i = 0 THEN flow.inv ELSE [flow.inv EXCEPT ![i] = e]
        /\ t.status = e /\ Transition(flow, t)
    BY ZenonT(30), <1>3, <2>1, <2>2, <2>3 DEF Terminated, Transition
  <2>5. StatusTold(e, t.status)
    BY <1>4, <2>3, <2>4 DEF StatusTold
  <2>6. i # 0 => i \in 1..Len(flow.inv)
    BY <1>3
  <2> HIDE DEF i
  <2>7. CASE i = 0
    <3>1. Commit(c, t, <<Fact(0, e)>>) /\ t.inv = flow.inv
      BY <2>2, <2>4, <2>7
    <3>2. QED
      BY <1>3, <1>6, <2>3, <2>4, <2>5, <3>1
  <2>8. CASE i # 0
    <3>0. <<Fact(i, e)>> \o <<Fact(0, e)>> = <<Fact(i, e), Fact(0, e)>>
      BY PairJoined
    <3>1. Commit(c, t, <<Fact(i, e), Fact(0, e)>>)
      BY Zenon, <2>2, <2>8, <3>0
    <3>2. /\ Len(t.inv) = Len(flow.inv) /\ i \in 1..Len(t.inv) /\ t.inv[i] = e
          /\ \A j \in 1..Len(t.inv) : j # i => t.inv[j] = flow.inv[j]
      BY <1>u, <2>4, <2>6, <2>8
    <3>3. QED
      BY ZenonT(30), <1>7, <2>3, <2>4, <2>5, <3>1, <3>2
  <2>9. QED
    BY <2>7, <2>8
<1>14. QED
  BY <1>8, <1>9, <1>10, <1>11, <1>12, <1>13

LEMMA LogInvNext == Inv /\ LogInv /\ [Next]_vars => LogInv'
<1> SUFFICES ASSUME Inv, LogInv, [Next]_vars PROVE LogInv'
  OBVIOUS
<1>0. /\ flow \in FlowState /\ log \in Seq(Event) /\ \A c \in Client : held[c] \in 0..MaxToken
  BY DEF Inv, TypeOK
<1>1. ASSUME NEW c \in Client, CreateFlow(c) PROVE LogInv'
  <2>1. "created" \in FactName /\ Fact(0, "created") \in Draft /\ held[c] \in 0..MaxToken
    BY <1>0 DEF FactName, RunStatus, Fact, Draft
  <2>2. PICK e : e = Stored(Fact(0, "created"), 1, held[c])
    OBVIOUS
  <2>3. e \in Event /\ e.of = 0 /\ e.fact = "created" /\ e.revision = 1
    BY <2>1, <2>2, StoredEvent
  <2>5. Recorded(<<Fact(0, "created")>>, 1, held[c]) = <<e>>
    BY <2>2 DEF Recorded, Stored
  <2>6. log' = <<e>> /\ flow' = Created
    BY <1>1, <2>5 DEF CreateFlow
  <2>7. flow' = [status |-> "created", revision |-> 1, inv |-> <<>>, active |-> 0]
    BY <2>6 DEF Created, NoFlow
  <2>8. Len(log') = 1 /\ log'[1] = e /\ log' # <<>>
    BY <2>6
  <2>9. Told(log', 0, "created")
    BY <2>3, <2>8 DEF Told, LastAt, LifecycleFact
  <2>10. StatusTold("created", "created") /\ Len(<<>>) = 0
    BY DEF StatusTold
  <2>11. LogTells(log', flow')
    BY <2>1, <2>3, <2>7, <2>8, <2>9, <2>10 DEF LogTells
  <2>12. QED
    BY <2>11 DEF LogInv
<1>2. ASSUME NEW c \in Client, NEW i \in 1..MaxInvocations, RecordPropagationFailure(c, i)
      PROVE  LogInv'
  <2>1. snap[c] = flow /\ flow # NoFlow /\ flow' = flow /\ i \in 1..Len(flow.inv)
    BY <1>2 DEF RecordPropagationFailure, Inv, SnapshotsCurrentOrOld
  <2>2. "propagation_failed" \in FactName /\ flow.revision \in Nat /\ i \in Nat
        /\ i \in 0..Len(flow.inv)
    BY <1>0, <2>1 DEF FactName, FlowState
  <2>3. Fact(i, "propagation_failed") \in Draft
    BY <2>2 DEF Fact, Draft
  <2>4. log' = Append(log, Stored(Fact(i, "propagation_failed"), flow.revision, held[c]))
    BY Zenon, <1>0, <1>2, <2>2, <2>3, RecordedOne DEF RecordPropagationFailure
  <2>5. LogTells(log', flow)
    BY <1>0, <2>1, <2>2, <2>4, TellsSame DEF LogInv
  <2>6. QED
    BY <2>1, <2>5 DEF LogInv
<1>3. CASE log' = log /\ flow' = flow
  BY <1>3 DEF LogInv
<1>4. ASSUME LogTells(log', flow') PROVE LogInv'
  BY <1>4 DEF LogInv
<1>5. QED
  BY <1>1, <1>2, <1>3, <1>4, CommitTells
     DEF Next, Tick, Read, Abandon, Acquire, Renew, Release, vars

LEMMA LogTold == Inv /\ LogInv => LogRebuildsFlow
<1> SUFFICES ASSUME Inv, LogInv, flow # NoFlow PROVE LogRebuildsFlow
  BY DEF LogRebuildsFlow
<1>1. /\ flow \in FlowState /\ ValidState(flow) /\ log \in Seq(Event) /\ LogTells(log, flow)
      /\ DOMAIN log = 1..Len(log) /\ Len(flow.inv) \in Nat
  BY DEF Inv, TypeOK, StoredFlowValid, LogInv, FlowState
<1>2. ASSUME NEW i \in 1..Len(flow.inv) PROVE flow.inv[i] = StatusOf(LastFact(i))
  BY <1>1, LastFactTold DEF LogTells
<1>3. PICK f \in FactName : Told(log, 0, f) /\ StatusTold(f, flow.status)
  BY <1>1 DEF LogTells
<1>4. LastFact(0) = f
  BY <1>1, <1>3, LastFactTold
<1>5. flow.active \in Nat /\ (flow.active # 0 => flow.active \in 1..Len(flow.inv))
  BY <1>1 DEF FlowState, ValidState
<1>6. flow.status = IF f \in Terminal \cup {"created"} THEN f
                    ELSE IF flow.active # 0 THEN StatusOf(LastFact(flow.active))
                    ELSE "running"
  <2>1. CASE f \in Terminal \cup {"created"}
    BY <1>3, <2>1 DEF StatusTold
  <2>2. CASE f \notin Terminal \cup {"created"}
    <3>1. flow.status \in {"running", "waiting"}
      BY <1>3, <2>2 DEF StatusTold
    <3>2. CASE flow.active # 0
      BY <1>1, <1>2, <1>5, <2>2, <3>1, <3>2 DEF ValidState
    <3>3. CASE flow.active = 0
      BY <1>1, <2>2, <3>1, <3>3 DEF ValidState
    <3>4. QED
      BY <3>2, <3>3
  <2>3. QED
    BY <2>1, <2>2
<1>7. QED
  BY <1>1, <1>2, <1>4, <1>6 DEF LogRebuildsFlow, LogTells

\* FlowLifecycle and the repository keep what is stored of a Flow sound: it passes
\* validate_state, a snapshot with its revision is the Flow itself, and its event
\* log alone tells its status and the status of each of its invocations.
THEOREM RepositorySound == Spec => []RepositoryInv
<1>1. Init => LogInv
  BY DEF Init, LogInv
<1>2. Spec => []LogInv
  BY <1>1, Invariance, LogInvNext, PTL DEF Spec
<1>3. Inv /\ LogInv => RepositoryInv
  BY LogTold DEF Inv, RepositoryInv
<1>4. QED
  BY <1>2, <1>3, Invariance, PTL
=============================================================================
