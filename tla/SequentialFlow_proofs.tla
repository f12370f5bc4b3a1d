------------------------ MODULE SequentialFlow_proofs ------------------------
(***************************************************************************)
(* Proofs about concurrent calls of the sequential strategy on one Flow,   *)
(* for any set of calls, any number of Agents, any budget and deadline and *)
(* any number of errors and cancelled tasks.                               *)
(***************************************************************************)
EXTENDS SequentialFlow, WellFoundedInduction, TLAPS

\* The provers tried, in order; steps on several records take longer than their defaults.
USE SMTT(20), Z3T(20), ZenonT(20)

\* The labels at which a lifecycle call is made, in two steps.
Committing == {"start", "begin", "complete", "resume", "settle", "interrupt", "outcome",
               "fail", "limit", "cancel"}

\* The labels of a call that works on an invocation.
Driving == {"invoke", "resume_transport", "transport", "settle"}

\* A call that drives the Flow is on its way from one commit to the next.
DrivesAt(p, r) ==
    \/ p \in Driving \cup {"start", "advance", "begin", "complete"}
    \/ p = "settled" /\ r = "completed"

Driver(c) == DrivesAt(pc[c], result[c])

Told(i) == agent[i].cancel \/ agent[i].status \in Terminal \/ i \in recorded

\* What the guard of the lifecycle call at label p, on invocation i, says of the Flow.
Ready(p, i) ==
    /\ p = "start" => CanStart(flow)
    /\ p = "begin" => CanBegin(flow)
    /\ p = "complete" => CanComplete(flow)
    /\ p = "resume" => CanResume(flow, i)
    /\ p = "settle" => CanSettle(flow, i)
    /\ p \in {"interrupt", "outcome", "fail", "limit", "cancel"} => CanTerminate(flow)

\* A revision that was read and is still current stands for the guard that was tested.
ViewOK(p, v, i) ==
    /\ v <= flow.revision
    /\ v # 0 => p \in Committing
    /\ v # 0 /\ v = flow.revision => Ready(p, i)

\* Between two invocations the driver's copy of the Flow is the stored Flow, unless
\* the Flow was ended.
Between(st) ==
    /\ flow.status = "running" /\ flow.active = 0
    /\ st.n = Len(flow.inv)
    /\ st.used = Total(used)
    /\ \A i \in 1..Len(flow.inv) : flow.inv[i] = "completed"

\* What the driver relies on.
WorkOK(p, st, i, r) ==
    /\ p = "start" => flow.status \in {"created"} \cup Terminal
    /\ p \in {"advance", "begin", "complete"} \/ (p = "settled" /\ r = "completed") =>
          flow.status \in Terminal \/ Between(st)
    /\ p = "begin" => st.n < Agents /\ st.n < MaxInvocations /\ st.used < MaxCalls
    /\ p = "complete" => st.n >= Agents
    /\ p \in Driving =>
          /\ i \in 1..Len(flow.inv)
          /\ flow.inv[i] \in {"running"} \cup ErrorStatus
          /\ flow.status \in Terminal \/ (flow.status = "running" /\ flow.active = i)
    /\ p = "invoke" => Total(used) < MaxCalls
    /\ p = "settle" =>
          /\ r \in ResultStatus
          /\ flow.status \in Terminal \/ agent[i].status = r
    /\ p = "settled" => r \in ResultStatus
    /\ p = "outcome" => r \in ErrorStatus
    /\ p = "race_check" => flow.status \in Terminal

\* How calls begin and end.
EndOK(c, p, i, o) ==
    /\ p = "idle" => i = 0 /\ o = "none"
    /\ p # "idle" => flow.revision # 0
    /\ Op[c] = "cancel" => p \in {"idle", "cancel", "propagate", "returned", "told", "raised"}
    /\ Op[c] = "cancel" /\ p = "returned" => i = 0
    /\ o # "none" => p \in {"propagate", "returned", "told", "raised"}
    /\ p = "propagate" => i # 0 /\ o \in Terminal
    /\ p \in {"propagate", "returned", "told"} /\ o \in Terminal => flow.status = o
    /\ p = "told" => i # 0 /\ Told(i)

CallOK(c, p, v, st, i, r, o) == ViewOK(p, v, i) /\ WorkOK(p, st, i, r) /\ EndOK(c, p, i, o)

CallInv(c) == CallOK(c, pc[c], view[c], state[c], inv[c], result[c], out[c])

\* All invocations but the last have completed; what the Flow has recorded as
\* completed did complete, and only invocations of the Flow have Agent runs.
AgentInv ==
    /\ Len(flow.inv) <= Agents
    /\ flow.revision = 0 => flow = NoFlow
    /\ \A i \in 1..Len(flow.inv) : i < Len(flow.inv) => flow.inv[i] = "completed"
    /\ \A i \in 1..Len(flow.inv) : flow.inv[i] = "completed" => agent[i].status = "completed"
    /\ \A i \in 1..Agents : agent[i].status # "none" => i <= Len(flow.inv)

OnlyDriver == \A c, d \in Call : Driver(c) /\ Driver(d) => c = d

\* A call that will bring a created or running Flow further: it is inside the
\* strategy and the revision it has read is not outdated.
OwnsAt(p, v, r) ==
    /\ \/ p \in Driving \cup {"start", "advance", "begin", "complete", "interrupt", "outcome",
                              "failure_check", "fail", "limit_check", "limit"}
       \/ p = "settled" /\ r # "waiting"
    /\ v \in {0, flow.revision}

Owned ==
    flow.revision # 0 /\ flow.status \in {"created", "running"} =>
        \/ \E c \in Call : OwnsAt(pc[c], view[c], result[c])
        \/ \E c \in Call : out[c] \in {"abandoned", "assertion"}

\* The inductive invariant.
Inv == TypeOK /\ UsageCountedOnce /\ AgentInv /\ OnlyDriver /\ Owned /\ \A c \in Call : CallInv(c)

-----------------------------------------------------------------------------
\* Sums.

\* A set of naturals has a least element, which is how the facts about sums are
\* proved by induction.
Less == {ss \in Nat \X Nat : ss[1] < ss[2]}
LEMMA LessWellFounded == IsWellFoundedOn(Less, Nat)
BY NatLessThanWellFounded DEF OpToRel, Less

LEMMA LeastElement ==
  ASSUME NEW T \in SUBSET Nat, T # {}
  PROVE  \E x \in T : \A y \in T : x <= y
<1>2. PICK x \in T : \A y \in T : ~(<<y, x>> \in Less)
  BY Zenon, LessWellFounded, WFMin
<1>3. \A y \in T : ~(y < x)
  BY Zenon, <1>2 DEF Less
<1>4. QED
  BY <1>3

\* The equation that defines Sums(u), up to n.
SumOn(u, n, f) == f = [i \in 0..n |-> IF i = 0 THEN 0 ELSE f[i - 1] + u[i]]

LEMMA SumExists ==
  ASSUME NEW u, NEW n \in Nat PROVE \E f : SumOn(u, n, f)
<1> DEFINE T == {m \in Nat : ~\E f : SumOn(u, m, f)}
<1> SUFFICES ASSUME n \in T PROVE FALSE
  OBVIOUS
<1>1. PICK m \in T : \A k \in T : m <= k
  <2>1. T \in SUBSET Nat /\ T # {}
    OBVIOUS
  <2> HIDE DEF T
  <2>2. QED
    BY <2>1, LeastElement
<1>2. CASE m = 0
  <2>1. PICK f : f = [i \in 0..0 |-> 0]
    BY Zenon
  <2>2. SumOn(u, 0, f)
    BY <2>1 DEF SumOn
  <2>3. QED
    BY <1>2, <2>2
<1>3. CASE m # 0
  <2>1. m - 1 \in Nat /\ ~(m <= m - 1)
    BY <1>3
  <2>2. PICK f : SumOn(u, m - 1, f)
    BY <1>1, <2>1
  <2>3. PICK g : g = [i \in 0..m |-> IF i = m THEN f[m - 1] + u[m] ELSE f[i]]
    BY Zenon
  <2>4. \A i \in 0..m : g[i] = IF i = 0 THEN 0 ELSE g[i - 1] + u[i]
    BY <1>3, <2>1, <2>2, <2>3 DEF SumOn
  <2>5. SumOn(u, m, g)
    BY <2>3, <2>4 DEF SumOn
  <2>6. QED
    BY <2>5
<1>4. QED
  BY <1>2, <1>3

LEMMA SumsIs == ASSUME NEW u, Len(u) \in Nat PROVE SumOn(u, Len(u), Sums(u))
<1>1. \E f : f = [i \in 0..Len(u) |-> IF i = 0 THEN 0 ELSE f[i - 1] + u[i]]
  BY Zenon, SumExists DEF SumOn
<1>2. QED
  BY Zenon, <1>1 DEF SumOn, Sums

LEMMA SumsNat == ASSUME NEW u \in Seq(Nat) PROVE \A i \in 0..Len(u) : Sums(u)[i] \in Nat
<1> DEFINE T == {m \in 0..Len(u) : Sums(u)[m] \notin Nat}
<1> SUFFICES ASSUME T # {} PROVE FALSE
  OBVIOUS
<1>0. Len(u) \in Nat /\ T \in SUBSET Nat
  OBVIOUS
<1>1. PICK m \in T : \A k \in T : m <= k
  <2> HIDE DEF T
  <2>1. QED
    BY <1>0, LeastElement
<1>2. SumOn(u, Len(u), Sums(u))
  BY <1>0, SumsIs
<1>3. m # 0
  BY <1>0, <1>2 DEF SumOn
<1>4. m - 1 \in 0..Len(u) /\ ~(m <= m - 1) /\ m \in 1..Len(u)
  BY <1>0, <1>3
<1>5. Sums(u)[m - 1] \in Nat
  BY <1>1, <1>4
<1>6. Sums(u)[m] = Sums(u)[m - 1] + u[m]
  BY Zenon, <1>0, <1>2, <1>3, <1>4 DEF SumOn
<1>7. u[m] \in Nat
  BY <1>4
<1>8. QED
  BY <1>5, <1>6, <1>7

LEMMA SumsPrefix ==
  ASSUME NEW u \in Seq(Nat), NEW w \in Seq(Nat), Len(u) <= Len(w),
         \A i \in 1..Len(u) : w[i] = u[i]
  PROVE  \A i \in 0..Len(u) : Sums(w)[i] = Sums(u)[i]
<1> DEFINE T == {m \in 0..Len(u) : Sums(w)[m] # Sums(u)[m]}
<1> SUFFICES ASSUME T # {} PROVE FALSE
  OBVIOUS
<1>0. Len(u) \in Nat /\ Len(w) \in Nat /\ T \in SUBSET Nat
  OBVIOUS
<1>1. PICK m \in T : \A k \in T : m <= k
  <2> HIDE DEF T
  <2>1. QED
    BY Zenon, <1>0, LeastElement
<1>2. SumOn(u, Len(u), Sums(u)) /\ SumOn(w, Len(w), Sums(w))
  BY <1>0, SumsIs
<1>3. m # 0
  BY <1>0, <1>2 DEF SumOn
<1>4. m - 1 \in 0..Len(u) /\ ~(m <= m - 1) /\ m \in 1..Len(u) /\ m \in 0..Len(w)
  BY <1>0, <1>3
<1>5. Sums(w)[m - 1] = Sums(u)[m - 1]
  BY <1>1, <1>4
<1>6. Sums(u)[m] = Sums(u)[m - 1] + u[m]
  BY Zenon, <1>0, <1>2, <1>3, <1>4 DEF SumOn
<1>7. Sums(w)[m] = Sums(w)[m - 1] + w[m]
  BY Zenon, <1>0, <1>2, <1>3, <1>4 DEF SumOn
<1>8. QED
  BY <1>4, <1>5, <1>6, <1>7

LEMMA TotalNat == ASSUME NEW u \in Seq(Nat) PROVE Total(u) \in Nat
BY SumsNat DEF Total

LEMMA TotalAppend == ASSUME NEW u \in Seq(Nat) PROVE Total(Append(u, 0)) = Total(u)
<1>1. PICK w : w = Append(u, 0)
  BY Zenon
<1>2. /\ w \in Seq(Nat) /\ Len(u) \in Nat /\ Len(w) = Len(u) + 1 /\ w[Len(w)] = 0
      /\ \A i \in 1..Len(u) : w[i] = u[i]
  BY <1>1
<1>a. Len(u) <= Len(w) /\ Len(u) \in 0..Len(u)
  BY <1>2
<1>3. Sums(w)[Len(u)] = Sums(u)[Len(u)] /\ Sums(u)[Len(u)] \in Nat
  BY Zenon, <1>2, <1>a, SumsPrefix, SumsNat
<1>4. SumOn(w, Len(w), Sums(w))
  BY <1>2, SumsIs
<1>5. Sums(w)[Len(w)] = Sums(w)[Len(u)] + 0
  BY <1>2, <1>4 DEF SumOn
<1>6. QED
  BY <1>1, <1>2, <1>3, <1>5 DEF Total

-----------------------------------------------------------------------------
\* The transitions of the Flow, field by field.

LEMMA Statuses ==
  /\ RunStatus = {"created", "running", "waiting"} \cup Terminal
  /\ Terminal = ErrorStatus \cup {"completed"}
  /\ InvocationStatus = {"running", "waiting"} \cup Terminal
  /\ ResultStatus = {"waiting"} \cup Terminal
  /\ "running" \notin Terminal /\ "waiting" \notin Terminal /\ "created" \notin Terminal
  /\ "none" \notin Terminal /\ "completed" \notin ErrorStatus
BY DEF RunStatus, Terminal, ErrorStatus, InvocationStatus, ResultStatus

LEMMA FlowFields ==
  ASSUME NEW s \in FlowState
  PROVE  /\ s.status \in RunStatus /\ s.revision \in Nat /\ s.active \in Nat
         /\ s.inv \in Seq(InvocationStatus) /\ Len(s.inv) \in Nat
         /\ s = [status |-> s.status, revision |-> s.revision, inv |-> s.inv,
                 active |-> s.active]
         /\ s.revision + 1 \in Nat
BY DEF FlowState

LEMMA NoFlowFields ==
  /\ NoFlow \in FlowState /\ ValidState(NoFlow) /\ NoFlow.revision = 0
  /\ NoFlow.status = "created" /\ NoFlow.inv = <<>> /\ NoFlow.active = 0 /\ Len(<<>>) = 0
  /\ Created \in FlowState /\ ValidState(Created) /\ Created.revision = 1
  /\ Created.status = "created" /\ Created.inv = <<>> /\ Created.active = 0
<1>1. Created = [status |-> "created", revision |-> 1, inv |-> <<>>, active |-> 0]
  BY DEF Created, NoFlow
<1>2. <<>> \in Seq(InvocationStatus) /\ Len(<<>>) = 0 /\ "created" \in RunStatus
  BY Statuses
<1>3. QED
  BY <1>1, <1>2, Statuses, MaxInvocationsAssumption DEF NoFlow, FlowState, ValidState

LEMMA StartedFlow ==
  ASSUME NEW s \in FlowState, ValidState(s), CanStart(s), NEW t, t = Started(s)
  PROVE  /\ t \in FlowState /\ ValidState(t) /\ t.revision = s.revision + 1
         /\ t.status = "running" /\ t.inv = <<>> /\ s.inv = <<>> /\ t.active = 0
         /\ Len(t.inv) = 0
<1>f. /\ s.status \in RunStatus /\ s.revision \in Nat /\ s.active \in Nat
      /\ s.inv \in Seq(InvocationStatus) /\ Len(s.inv) \in Nat
      /\ s = [status |-> s.status, revision |-> s.revision, inv |-> s.inv,
              active |-> s.active]
      /\ s.revision + 1 \in Nat /\ {"running", "completed"} \subseteq RunStatus
  BY FlowFields, Statuses
<1>1. s.inv = <<>> /\ Len(s.inv) = 0 /\ s.active = 0
  BY <1>f DEF CanStart, ValidState
<1>2. t = [status |-> "running", revision |-> s.revision + 1, inv |-> <<>>, active |-> 0]
  BY Zenon, <1>f, <1>1 DEF Started
<1>3. QED
  BY <1>f, <1>1, <1>2, Statuses DEF ValidState, FlowState

LEMMA BegunFlow ==
  ASSUME NEW s \in FlowState, ValidState(s), CanBegin(s), NEW t, t = Begun(s)
  PROVE  /\ t \in FlowState /\ ValidState(t) /\ t.revision = s.revision + 1
         /\ t.status = "running" /\ t.active = Len(s.inv) + 1 /\ Len(t.inv) = Len(s.inv) + 1
         /\ t.inv[Len(s.inv) + 1] = "running"
         /\ \A i \in 1..Len(s.inv) : t.inv[i] = s.inv[i]
<1>f. /\ s.status \in RunStatus /\ s.revision \in Nat /\ s.active \in Nat
      /\ s.inv \in Seq(InvocationStatus) /\ Len(s.inv) \in Nat
      /\ s = [status |-> s.status, revision |-> s.revision, inv |-> s.inv,
              active |-> s.active]
      /\ s.revision + 1 \in Nat /\ {"running", "completed"} \subseteq RunStatus
  BY FlowFields, Statuses
<1>1. PICK q : q = Append(s.inv, "running")
  BY Zenon
<1>2. "running" \in InvocationStatus /\ s.inv \in Seq(InvocationStatus) /\ Len(s.inv) \in Nat
  BY <1>f, Statuses
<1>3. /\ q \in Seq(InvocationStatus) /\ Len(q) = Len(s.inv) + 1
      /\ q[Len(s.inv) + 1] = "running" /\ \A i \in 1..Len(s.inv) : q[i] = s.inv[i]
  BY <1>1, <1>2
<1>4. t = [status |-> "running", revision |-> s.revision + 1, inv |-> q,
           active |-> Len(s.inv) + 1]
  BY Zenon, <1>f, <1>1 DEF Begun, CanBegin
<1>5. Len(s.inv) + 1 <= MaxInvocations /\ Len(s.inv) + 1 \in Nat
  BY <1>2, MaxInvocationsAssumption DEF CanBegin
<1>6. /\ t \in FlowState /\ t.status = "running" /\ t.revision = s.revision + 1 /\ t.inv = q
      /\ t.active = Len(s.inv) + 1
  BY <1>f, <1>3, <1>4, <1>5, Statuses DEF FlowState
<1>7. QED
  BY <1>2, <1>3, <1>5, <1>6, Statuses DEF ValidState, FlowState

LEMMA SettledFlow ==
  ASSUME NEW s \in FlowState, ValidState(s), NEW i, CanSettle(s, i), NEW r \in ResultStatus,
         NEW t, t = Settled(s, i, r)
  PROVE  /\ t \in FlowState /\ ValidState(t) /\ t.revision = s.revision + 1
         /\ t.status = IF r = "waiting" THEN "waiting" ELSE "running"
         /\ t.active = IF r = "waiting" THEN i ELSE 0
         /\ Len(t.inv) = Len(s.inv) /\ i \in 1..Len(s.inv) /\ t.inv[i] = r
         /\ \A j \in 1..Len(s.inv) : j # i => t.inv[j] = s.inv[j]
<1>f. /\ s.status \in RunStatus /\ s.revision \in Nat /\ s.active \in Nat
      /\ s.inv \in Seq(InvocationStatus) /\ Len(s.inv) \in Nat
      /\ s = [status |-> s.status, revision |-> s.revision, inv |-> s.inv,
              active |-> s.active]
      /\ s.revision + 1 \in Nat /\ {"running", "completed"} \subseteq RunStatus
  BY FlowFields, Statuses
<1>1. i \in 1..Len(s.inv) /\ r \in InvocationStatus /\ i \in Nat
  BY <1>f, Statuses DEF CanSettle, ValidState
<1>2. PICK q : q = [s.inv EXCEPT ![i] = r]
  BY Zenon
<1>3. /\ q \in Seq(InvocationStatus) /\ Len(q) = Len(s.inv) /\ q[i] = r
      /\ \A j \in 1..Len(s.inv) : j # i => q[j] = s.inv[j]
  BY <1>f, <1>1, <1>2
<1>4. PICK st \in RunStatus : st = IF r = "waiting" THEN "waiting" ELSE "running"
  BY Statuses
<1>5. PICK a \in Nat : a = IF r = "waiting" THEN i ELSE 0
  BY <1>1
<1>6. t = [status |-> st, revision |-> s.revision + 1, inv |-> q, active |-> a]
  BY Zenon, <1>f, <1>2, <1>4, <1>5 DEF Settled
<1>7. /\ t \in FlowState /\ t.status = st /\ t.revision = s.revision + 1 /\ t.inv = q
      /\ t.active = a
  BY <1>f, <1>3, <1>6 DEF FlowState
<1>8. ValidState(t)
  BY <1>f, <1>1, <1>3, <1>4, <1>5, <1>7, Statuses DEF ValidState, FlowState
<1>9. QED
  BY <1>1, <1>3, <1>4, <1>5, <1>7, <1>8

LEMMA ResumedFlow ==
  ASSUME NEW s \in FlowState, ValidState(s), NEW i, CanResume(s, i), NEW t, t = Resumed(s, i)
  PROVE  /\ t \in FlowState /\ ValidState(t) /\ t.revision = s.revision + 1
         /\ t.status = "running" /\ t.active = i
         /\ Len(t.inv) = Len(s.inv) /\ i \in 1..Len(s.inv) /\ t.inv[i] = "running"
         /\ \A j \in 1..Len(s.inv) : j # i => t.inv[j] = s.inv[j]
<1>f. /\ s.status \in RunStatus /\ s.revision \in Nat /\ s.active \in Nat
      /\ s.inv \in Seq(InvocationStatus) /\ Len(s.inv) \in Nat
      /\ s = [status |-> s.status, revision |-> s.revision, inv |-> s.inv,
              active |-> s.active]
      /\ s.revision + 1 \in Nat /\ {"running", "completed"} \subseteq RunStatus
  BY FlowFields, Statuses
<1>1. i \in 1..Len(s.inv) /\ "running" \in InvocationStatus /\ i \in Nat
  BY <1>f, Statuses DEF CanResume, ValidState
<1>2. PICK q : q = [s.inv EXCEPT ![i] = "running"]
  BY Zenon
<1>3. /\ q \in Seq(InvocationStatus) /\ Len(q) = Len(s.inv) /\ q[i] = "running"
      /\ \A j \in 1..Len(s.inv) : j # i => q[j] = s.inv[j]
  BY <1>f, <1>1, <1>2
<1>4. t = [status |-> "running", revision |-> s.revision + 1, inv |-> q, active |-> i]
  BY Zenon, <1>f, <1>2 DEF Resumed, CanResume
<1>5. /\ t \in FlowState /\ t.status = "running" /\ t.revision = s.revision + 1 /\ t.inv = q
      /\ t.active = i
  BY <1>f, <1>1, <1>3, <1>4, Statuses DEF FlowState
<1>6. ValidState(t)
  BY <1>f, <1>1, <1>3, <1>5, Statuses DEF ValidState, FlowState
<1>7. QED
  BY <1>1, <1>3, <1>5, <1>6

LEMMA CompletedFlow ==
  ASSUME NEW s \in FlowState, ValidState(s), CanComplete(s), NEW t, t = Completed(s)
  PROVE  /\ t \in FlowState /\ ValidState(t) /\ t.revision = s.revision + 1
         /\ t.status = "completed" /\ t.inv = s.inv
<1>f. /\ s.status \in RunStatus /\ s.revision \in Nat /\ s.active \in Nat
      /\ s.inv \in Seq(InvocationStatus) /\ Len(s.inv) \in Nat
      /\ s = [status |-> s.status, revision |-> s.revision, inv |-> s.inv,
              active |-> s.active]
      /\ s.revision + 1 \in Nat /\ {"running", "completed"} \subseteq RunStatus
  BY FlowFields, Statuses
<1>1. t = [status |-> "completed", revision |-> s.revision + 1, inv |-> s.inv, active |-> 0]
  BY Zenon, <1>f DEF Completed, CanComplete
<1>2. QED
  BY <1>f, <1>1, Statuses DEF ValidState, FlowState

LEMMA TerminatedFlow ==
  ASSUME NEW s \in FlowState, ValidState(s), NEW e \in ErrorStatus,
         NEW t, t = Terminated(s, e)
  PROVE  /\ t \in FlowState /\ ValidState(t) /\ t.revision = s.revision + 1
         /\ t.status = e /\ Len(t.inv) = Len(s.inv)
         /\ s.active # 0 => s.active \in 1..Len(s.inv) /\ t.inv[s.active] = e
         /\ \A j \in 1..Len(s.inv) : j # s.active => t.inv[j] = s.inv[j]
<1>f. /\ s.status \in RunStatus /\ s.revision \in Nat /\ s.active \in Nat
      /\ s.inv \in Seq(InvocationStatus) /\ Len(s.inv) \in Nat
      /\ s = [status |-> s.status, revision |-> s.revision, inv |-> s.inv,
              active |-> s.active]
      /\ s.revision + 1 \in Nat /\ {"running", "completed"} \subseteq RunStatus
  BY FlowFields, Statuses
<1>1. s.active # 0 => s.active \in 1..Len(s.inv)
  BY <1>f DEF ValidState
<1>2. e \in InvocationStatus /\ e \in RunStatus /\ e \in Terminal
  BY Statuses
<1>3. PICK q : q = IF s.active = 0 THEN s.inv ELSE [s.inv EXCEPT ![s.active] = e]
  BY Zenon
<1>4. /\ q \in Seq(InvocationStatus) /\ Len(q) = Len(s.inv)
      /\ s.active # 0 => q[s.active] = e
      /\ \A j \in 1..Len(s.inv) : j # s.active => q[j] = s.inv[j]
  BY <1>f, <1>1, <1>2, <1>3
<1>5. t = [status |-> e, revision |-> s.revision + 1, inv |-> q, active |-> 0]
  BY Zenon, <1>f, <1>3 DEF Terminated
<1>6. /\ t \in FlowState /\ t.status = e /\ t.revision = s.revision + 1 /\ t.inv = q
      /\ t.active = 0
  BY <1>f, <1>2, <1>4, <1>5 DEF FlowState
<1>7. ValidState(t)
  BY <1>f, <1>2, <1>4, <1>6, Statuses DEF ValidState, FlowState
<1>8. QED
  BY <1>1, <1>4, <1>6, <1>7

LEMMA SelfLeq == \A n \in Nat : n <= n
OBVIOUS

-----------------------------------------------------------------------------
\* The frame: what a step of one call leaves of the others.

OutValue == RunStatus \cup {"none", "conflict", "invalid", "value", "abandoned", "assertion",
                          "cancelled"}

AgentRuns == [1..Agents -> [status : {"none", "running"} \cup ResultStatus,
                            calls : Nat, cancel : BOOLEAN]]

\* A step of call c that commits nothing: it goes to label p, with view v, working on
\* invocation i, with result r and answer o.
LEMMA QuietStep ==
  ASSUME Inv, NEW c \in Call, flow' = flow, used' = used, state' = state,
         clock' \in 0..Deadline, faults' \in 0..MaxFaults,
         agent' \in AgentRuns, recorded' \in SUBSET (1..Agents),
         AgentInv', UsageCountedOnce',
         \A j \in 1..Agents : Told(j) => Told(j)',
         \A d \in Call \ {c} : pc[d] = "settle" /\ flow.status \notin Terminal =>
            agent'[inv[d]].status = agent[inv[d]].status,
         NEW p \in Label, NEW v \in Nat, NEW i \in 0..Agents,
         NEW r \in ResultStatus \cup {"none"}, NEW o \in OutValue,
         pc' = [pc EXCEPT ![c] = p], view' = [view EXCEPT ![c] = v],
         inv' = [inv EXCEPT ![c] = i], result' = [result EXCEPT ![c] = r],
         out' = [out EXCEPT ![c] = o],
         pc[c] \notin {"returned", "told", "raised"},
         CallOK(c, p, v, state[c], i, r, o)',
         DrivesAt(p, r) => Driver(c),
         OwnsAt(pc[c], view[c], result[c]) /\ flow.status \in {"created", "running"} =>
            OwnsAt(p, v, r) \/ o \in {"abandoned", "assertion"}
  PROVE  Inv'
<1>0. /\ TypeOK /\ pc \in [Call -> Label] /\ view \in [Call -> Nat] /\ inv \in [Call -> 0..Agents]
      /\ result \in [Call -> ResultStatus \cup {"none"}] /\ out \in [Call -> OutValue]
      /\ state \in [Call -> [n : Nat, used : Nat]]
  BY Zenon DEF Inv, TypeOK, OutValue
<1>1. /\ pc'[c] = p /\ view'[c] = v /\ state'[c] = state[c] /\ inv'[c] = i /\ result'[c] = r
      /\ out'[c] = o
  BY <1>0
<1>2. \A d \in Call : d # c =>
         /\ pc'[d] = pc[d] /\ view'[d] = view[d] /\ state'[d] = state[d] /\ inv'[d] = inv[d]
         /\ result'[d] = result[d] /\ out'[d] = out[d]
  BY <1>0
<1>3. TypeOK'
  <2>1. /\ pc' \in [Call -> Label] /\ view' \in [Call -> Nat] /\ inv' \in [Call -> 0..Agents]
        /\ result' \in [Call -> ResultStatus \cup {"none"}] /\ out' \in [Call -> OutValue]
    BY <1>0
  <2>2. QED
    BY ZenonT(30), <1>0, <2>1 DEF TypeOK, OutValue, AgentRuns
<1>4. ASSUME NEW d \in Call, d # c PROVE CallInv(d)'
  <2>1. CallInv(d) /\ inv[d] \in 0..Agents
    BY <1>0 DEF Inv
  <2>2. ViewOK(pc[d], view[d], inv[d])'
    BY ZenonT(30), <1>2, <1>4, <2>1 DEF CallInv, CallOK, ViewOK, Ready
  <2>3. WorkOK(pc[d], state[d], inv[d], result[d]) /\ EndOK(d, pc[d], inv[d], out[d])
    BY ZenonT(30), <2>1 DEF CallInv, CallOK
  <2>4. pc'[d] = "settle" =>
           flow.status \in Terminal \/ agent'[inv[d]].status = result[d]
    BY <1>2, <1>4, <2>3 DEF WorkOK
  <2>5. WorkOK(pc[d], state[d], inv[d], result[d])'
    BY ZenonT(30), <1>2, <1>4, <2>3, <2>4 DEF WorkOK, Between
  <2>6. pc[d] = "told" => inv[d] # 0 /\ Told(inv[d])'
    BY <2>1, <2>3 DEF EndOK
  <2>7. EndOK(d, pc[d], inv[d], out[d])'
    BY Zenon, <1>2, <1>4, <2>3, <2>6 DEF EndOK
  <2>8. QED
    BY <1>2, <1>4, <2>2, <2>5, <2>7 DEF CallInv, CallOK
<1>5. CallInv(c)'
  BY ZenonT(30), <1>1 DEF CallInv
<1>6. OnlyDriver'
  <2>1. \A d \in Call : Driver(d)' => Driver(d)
    BY <1>1, <1>2 DEF Driver
  <2>2. QED
    BY ZenonT(30), <2>1 DEF Inv, OnlyDriver
<1>7. Owned'
  <2>1. out[c] \notin {"abandoned", "assertion"}
    BY ZenonT(30) DEF Inv, CallInv, CallOK, EndOK, Terminal, ErrorStatus
  <2>2. \A d \in Call : d # c /\ OwnsAt(pc[d], view[d], result[d]) =>
                           OwnsAt(pc[d], view[d], result[d])'
    BY <1>2 DEF OwnsAt
  <2>3. OwnsAt(p, v, r) => OwnsAt(pc[c], view[c], result[c])'
    BY <1>1 DEF OwnsAt
  <2>4. QED
    BY <1>1, <1>2, <2>1, <2>2, <2>3 DEF Inv, Owned
<1>8. QED
  BY <1>3, <1>4, <1>5, <1>6, <1>7 DEF Inv

\* The same when the Agents are left alone.
LEMMA LocalStep ==
  ASSUME Inv, NEW c \in Call, flow' = flow, used' = used, state' = state,
         agent' = agent, recorded' = recorded,
         clock' \in 0..Deadline, faults' \in 0..MaxFaults,
         NEW p \in Label, NEW v \in Nat, NEW i \in 0..Agents, NEW o \in OutValue,
         pc' = [pc EXCEPT ![c] = p], view' = [view EXCEPT ![c] = v],
         inv' = [inv EXCEPT ![c] = i], result' = result, out' = [out EXCEPT ![c] = o],
         pc[c] \notin {"returned", "told", "raised"},
         ViewOK(p, v, i), WorkOK(p, state[c], i, result[c]), EndOK(c, p, i, o),
         DrivesAt(p, result[c]) => Driver(c),
         OwnsAt(pc[c], view[c], result[c]) /\ flow.status \in {"created", "running"} =>
            OwnsAt(p, v, result[c]) \/ o \in {"abandoned", "assertion"}
  PROVE  Inv'
<1>0. /\ TypeOK /\ result \in [Call -> ResultStatus \cup {"none"}] /\ agent \in AgentRuns
      /\ recorded \in SUBSET (1..Agents) /\ AgentInv /\ UsageCountedOnce
  BY Zenon DEF Inv, TypeOK, AgentRuns
<1>1. AgentInv' /\ UsageCountedOnce' /\ (\A j \in 1..Agents : Told(j) => Told(j)')
  BY <1>0 DEF AgentInv, UsageCountedOnce, Told
<1>2. ViewOK(p, v, i)' /\ WorkOK(p, state[c], i, result[c])' /\ EndOK(c, p, i, o)'
  BY DEF ViewOK, Ready, WorkOK, Between, EndOK, Told
<1>3. CallOK(c, p, v, state[c], i, result[c], o)'
  BY Zenon, <1>2 DEF CallOK
<1>4. result' = [result EXCEPT ![c] = result[c]] /\ result[c] \in ResultStatus \cup {"none"}
  BY <1>0
<1>5. QED
  BY ZenonT(30), <1>0, <1>1, <1>3, <1>4, QuietStep

\* A commit of call c, which goes to label p with copy st of the Flow, working on
\* invocation i, with answer o.
LEMMA CommitStep ==
  ASSUME Inv, NEW c \in Call, agent' = agent, recorded' = recorded, clock' = clock,
         faults' = faults, result' = result,
         flow.status \notin Terminal,
         flow' \in FlowState, ValidState(flow'), flow'.revision = flow.revision + 1,
         used' \in Seq(Nat), Len(used') = Len(flow'.inv), Len(flow.inv) <= Len(flow'.inv),
         AgentInv', UsageCountedOnce',
         NEW p \in Label, NEW st \in [n : Nat, used : Nat], NEW i \in 0..Agents,
         NEW o \in OutValue,
         pc' = [pc EXCEPT ![c] = p], view' = [view EXCEPT ![c] = 0],
         state' = [state EXCEPT ![c] = st],
         inv' = [inv EXCEPT ![c] = i], out' = [out EXCEPT ![c] = o],
         WorkOK(p, st, i, result[c])', EndOK(c, p, i, o)',
         \A d \in Call \ {c} :
            \/ ~Driver(d)
            \/ /\ flow'.status \in Terminal /\ used' = used
               /\ pc[d] \in Driving => flow'.inv[inv[d]] \in {"running"} \cup ErrorStatus,
         DrivesAt(p, result[c]) => Driver(c) \/ \A d \in Call \ {c} : ~Driver(d),
         flow'.status \in {"created", "running"} => OwnsAt(p, 0, result[c])
  PROVE  Inv'
<1>0. /\ TypeOK /\ pc \in [Call -> Label] /\ view \in [Call -> Nat] /\ inv \in [Call -> 0..Agents]
      /\ result \in [Call -> ResultStatus \cup {"none"}] /\ out \in [Call -> OutValue]
      /\ state \in [Call -> [n : Nat, used : Nat]] /\ flow \in FlowState /\ flow.revision \in Nat
      /\ Len(flow.inv) \in Nat /\ Len(flow'.inv) \in Nat
  BY ZenonT(30), FlowFields DEF Inv, TypeOK, OutValue
<1>1. /\ pc'[c] = p /\ view'[c] = 0 /\ state'[c] = st /\ inv'[c] = i
      /\ result'[c] = result[c] /\ out'[c] = o
  BY <1>0
<1>2. \A d \in Call : d # c =>
         /\ pc'[d] = pc[d] /\ view'[d] = view[d] /\ state'[d] = state[d] /\ inv'[d] = inv[d]
         /\ result'[d] = result[d] /\ out'[d] = out[d]
  BY <1>0
<1>3. TypeOK'
  <2>1. /\ pc' \in [Call -> Label] /\ view' \in [Call -> Nat] /\ inv' \in [Call -> 0..Agents]
        /\ state' \in [Call -> [n : Nat, used : Nat]] /\ out' \in [Call -> OutValue]
    BY <1>0
  <2>2. QED
    BY ZenonT(30), <1>0, <2>1 DEF TypeOK, OutValue
<1>4. ASSUME NEW d \in Call, d # c PROVE CallInv(d)'
  <2>1. /\ CallInv(d) /\ inv[d] \in 0..Agents /\ view[d] \in Nat
        /\ WorkOK(pc[d], state[d], inv[d], result[d]) /\ EndOK(d, pc[d], inv[d], out[d])
        /\ ViewOK(pc[d], view[d], inv[d])
    BY ZenonT(30), <1>0 DEF Inv, CallInv, CallOK
  <2>2. ViewOK(pc[d], view[d], inv[d])'
    BY <1>0, <1>2, <1>4, <2>1 DEF ViewOK
  <2>3. WorkOK(pc[d], state[d], inv[d], result[d])'
    <3>1. CASE ~Driver(d)
      <4>1. WorkOK(pc[d], state[d], inv[d], result[d]) /\ ~DrivesAt(pc[d], result[d])
        BY ZenonT(30), <2>1, <3>1 DEF Driver
      <4>2. QED
        BY ZenonT(30), <1>2, <1>4, <4>1 DEF WorkOK, DrivesAt, Driving
    <3>2. CASE /\ flow'.status \in Terminal /\ used' = used
               /\ pc[d] \in Driving => flow'.inv[inv[d]] \in {"running"} \cup ErrorStatus
      <4>1. pc[d] \in Driving => inv[d] \in 1..Len(flow'.inv)
        BY <1>0, <2>1 DEF WorkOK
      <4>2. QED
        BY ZenonT(30), <1>2, <1>4, <2>1, <3>2, <4>1 DEF WorkOK
    <3>3. QED
      BY <1>4, <3>1, <3>2
  <2>4. EndOK(d, pc[d], inv[d], out[d])'
    BY <1>0, <1>2, <1>4, <2>1 DEF EndOK, Told
  <2>5. QED
    BY ZenonT(30), <1>2, <1>4, <2>2, <2>3, <2>4 DEF CallInv, CallOK
<1>5. CallInv(c)'
  <2>1. ViewOK(p, 0, i)'
    BY <1>0 DEF ViewOK
  <2>2. QED
    BY <1>1, <2>1 DEF CallInv, CallOK
<1>6. OnlyDriver'
  <2>1. \A d \in Call : d # c => (Driver(d)' => Driver(d))
    BY <1>2 DEF Driver
  <2>2. Driver(c)' => Driver(c) \/ \A d \in Call \ {c} : ~Driver(d)
    BY <1>1 DEF Driver
  <2>3. QED
    BY ZenonT(30), <2>1, <2>2 DEF Inv, OnlyDriver
<1>7. Owned'
  <2>1. OwnsAt(p, 0, result[c]) => OwnsAt(pc[c], view[c], result[c])'
    BY <1>1 DEF OwnsAt
  <2>2. QED
    BY <2>1 DEF Owned
<1>8. QED
  BY <1>3, <1>4, <1>5, <1>6, <1>7 DEF Inv

-----------------------------------------------------------------------------
\* What is known of a call.
LEMMA Known ==
  ASSUME Inv, NEW c \in Call
  PROVE  /\ pc[c] \in Label /\ view[c] \in Nat /\ inv[c] \in 0..Agents /\ out[c] \in OutValue
         /\ state[c] \in [n : Nat, used : Nat] /\ result[c] \in ResultStatus \cup {"none"}
         /\ view = [view EXCEPT ![c] = view[c]] /\ inv = [inv EXCEPT ![c] = inv[c]]
         /\ out = [out EXCEPT ![c] = out[c]] /\ pc = [pc EXCEPT ![c] = pc[c]]
         /\ state = [state EXCEPT ![c] = state[c]]
         /\ clock \in 0..Deadline /\ faults \in 0..MaxFaults
         /\ flow \in FlowState /\ ValidState(flow) /\ flow.revision \in Nat
         /\ flow.active \in 0..Agents /\ Len(flow.inv) \in 0..Agents
         /\ ViewOK(pc[c], view[c], inv[c]) /\ WorkOK(pc[c], state[c], inv[c], result[c])
         /\ EndOK(c, pc[c], inv[c], out[c])
         /\ pc[c] \notin Committing => view[c] = 0
         /\ pc[c] \notin {"propagate", "returned", "told", "raised"} => out[c] = "none"
<1>1. /\ TypeOK /\ ViewOK(pc[c], view[c], inv[c]) /\ WorkOK(pc[c], state[c], inv[c], result[c])
      /\ EndOK(c, pc[c], inv[c], out[c]) /\ Len(flow.inv) <= Agents
  BY DEF Inv, CallInv, CallOK, AgentInv
<1>2. /\ flow \in FlowState /\ ValidState(flow) /\ flow.revision \in Nat /\ flow.active \in Nat
      /\ Len(flow.inv) \in Nat /\ Agents \in Nat
  BY <1>1, FlowFields, CallAssumption DEF TypeOK
<1>3. flow.active \in 0..Agents /\ Len(flow.inv) \in 0..Agents
  BY <1>1, <1>2 DEF ValidState
<1>4. pc[c] \notin Committing => view[c] = 0
  BY <1>1 DEF ViewOK
<1>5. pc[c] \notin {"propagate", "returned", "told", "raised"} => out[c] = "none"
  BY <1>1 DEF EndOK
<1>6. /\ pc \in [Call -> Label] /\ view \in [Call -> Nat] /\ inv \in [Call -> 0..Agents]
      /\ out \in [Call -> OutValue] /\ state \in [Call -> [n : Nat, used : Nat]]
      /\ result \in [Call -> ResultStatus \cup {"none"}]
      /\ clock \in 0..Deadline /\ faults \in 0..MaxFaults
  BY <1>1 DEF TypeOK, OutValue
<1>7. QED
  BY <1>1, <1>2, <1>3, <1>4, <1>5, <1>6

-----------------------------------------------------------------------------
\* Steps that every lifecycle call has.

LEMMA ReadsStep ==
  ASSUME Inv, NEW c \in Call, NEW at \in Committing, NEW ok, Reads(c, at, ok),
         Ready(at, inv[c])
  PROVE  Inv'
<1>0. PICK v \in Nat : v = flow.revision
  BY Known
<1>1. /\ pc[c] = at /\ flow' = flow /\ used' = used /\ state' = state /\ agent' = agent
      /\ recorded' = recorded /\ clock' = clock /\ faults' = faults /\ pc' = pc /\ inv' = inv
      /\ result' = result /\ out' = out /\ view' = [view EXCEPT ![c] = v]
  BY Zenon, <1>0 DEF Reads, store, local
<1>2. ViewOK(at, v, inv[c])
  BY <1>0, Known DEF ViewOK
<1>3. /\ WorkOK(at, state[c], inv[c], result[c]) /\ EndOK(c, at, inv[c], out[c])
      /\ at \in Label /\ inv[c] \in 0..Agents /\ out[c] \in OutValue
      /\ pc' = [pc EXCEPT ![c] = at] /\ inv' = [inv EXCEPT ![c] = inv[c]]
      /\ out' = [out EXCEPT ![c] = out[c]] /\ clock' \in 0..Deadline /\ faults' \in 0..MaxFaults
  BY <1>1, Known
<1>4. /\ DrivesAt(at, result[c]) => Driver(c)
      /\ OwnsAt(pc[c], view[c], result[c]) => OwnsAt(at, v, result[c])
      /\ pc[c] \notin {"returned", "told", "raised"}
  BY <1>0, <1>1 DEF Driver, OwnsAt, Committing
<1>5. QED
  BY Zenon, <1>1, <1>2, <1>3, <1>4, LocalStep

\* An error that leaves the Flow as it is.
LEMMA RaisesStep ==
  ASSUME Inv, NEW c \in Call, flow' = flow, used' = used, state' = state, agent' = agent,
         recorded' = recorded, clock' = clock, faults' = faults, inv' = inv, result' = result,
         view' = [view EXCEPT ![c] = 0], NEW e \in {"conflict", "invalid", "value"},
         Raises(c, e), flow.revision # 0, pc[c] \notin {"returned", "told", "raised"},
         ~OwnsAt(pc[c], view[c], result[c]) \/ flow.status \notin {"created", "running"}
  PROVE  Inv'
<1>1. pc' = [pc EXCEPT ![c] = "raised"] /\ out' = [out EXCEPT ![c] = e]
  BY DEF Raises, Ends, Goto
<1>2. /\ inv[c] \in 0..Agents /\ inv' = [inv EXCEPT ![c] = inv[c]] /\ flow.revision \in Nat
      /\ clock' \in 0..Deadline /\ faults' \in 0..MaxFaults /\ "raised" \in Label /\ 0 \in Nat
  BY Known DEF Label
<1>3. e \in OutValue /\ e \notin Terminal
  BY DEF OutValue, Terminal, ErrorStatus
<1>4. ViewOK("raised", 0, inv[c])
  BY <1>2 DEF ViewOK
<1>5. WorkOK("raised", state[c], inv[c], result[c])
  BY Zenon DEF WorkOK, Driving
<1>6. EndOK(c, "raised", inv[c], e)
  BY <1>3 DEF EndOK
<1>7. ~DrivesAt("raised", result[c])
  BY DEF DrivesAt, Driving
<1>8. QED
  BY ZenonT(30), <1>1, <1>2, <1>3, <1>4, <1>5, <1>6, <1>7, LocalStep

LEMMA RefusedStep ==
  ASSUME Inv, NEW c \in Call, NEW at \in Committing, NEW ok, Refused(c, at, ok),
         at \in {"resume", "cancel"} \/ flow.status \notin {"created", "running"}
  PROVE  Inv'
<1>1. /\ pc[c] = at /\ view[c] = 0 /\ flow' = flow /\ used' = used /\ state' = state
      /\ agent' = agent /\ recorded' = recorded /\ clock' = clock /\ faults' = faults
      /\ inv' = inv /\ result' = result /\ view' = view /\ Raises(c, "invalid")
  BY DEF Refused, store
<1>2. view' = [view EXCEPT ![c] = 0] /\ flow.revision # 0
      /\ pc[c] \notin {"returned", "told", "raised"}
  BY <1>1, Known DEF EndOK, Committing
<1>3. ~OwnsAt(pc[c], view[c], result[c]) \/ flow.status \notin {"created", "running"}
  BY <1>1 DEF OwnsAt, Driving
<1>4. QED
  BY Zenon, <1>1, <1>2, <1>3, RaisesStep

LEMMA ConflictStep == ASSUME Inv, NEW c \in Call, Conflict(c) PROVE Inv'
<1>1. /\ view[c] # 0 /\ view[c] # flow.revision /\ flow' = flow /\ used' = used
      /\ state' = state /\ agent' = agent /\ recorded' = recorded /\ clock' = clock
      /\ faults' = faults /\ inv' = inv /\ result' = result
      /\ view' = [view EXCEPT ![c] = 0] /\ Raises(c, "conflict")
  BY DEF Conflict, store
<1>2. pc[c] \in Committing
  BY <1>1, Known
<1>3. flow.revision # 0 /\ pc[c] \notin {"returned", "told", "raised"}
  BY <1>2, Known DEF EndOK, Committing
<1>4. ~OwnsAt(pc[c], view[c], result[c])
  BY <1>1 DEF OwnsAt
<1>5. QED
  BY Zenon, <1>1, <1>3, <1>4, RaisesStep

\* A commit that ends the Flow with status e.
LEMMA TerminateStep ==
  ASSUME Inv, NEW c \in Call, NEW at, Commits(c, at),
         at \in {"interrupt", "outcome", "fail", "limit", "cancel"},
         NEW e \in ErrorStatus, flow' = Terminated(flow, e), used' = used, agent' = agent,
         recorded' = recorded, clock' = clock, faults' = faults, state' = state, inv' = inv,
         result' = result, NEW p, NEW o, Ends(c, p, o),
         \/ p = "raised" /\ o = "cancelled"
         \/ p = "returned" /\ o = e /\ (Op[c] = "cancel" => inv[c] = 0)
         \/ p = "propagate" /\ o = e /\ inv[c] # 0
  PROVE  Inv'
<1>1. /\ pc' = [pc EXCEPT ![c] = p] /\ out' = [out EXCEPT ![c] = o]
      /\ view' = [view EXCEPT ![c] = 0] /\ pc[c] = at /\ view[c] # 0 /\ view[c] = flow.revision
  BY DEF Commits, Ends, Goto
<1>2. flow.status \notin Terminal
  BY <1>1, Known DEF ViewOK, Ready, CanTerminate
<1>3. flow \in FlowState /\ ValidState(flow)
  BY Known
<1>4. /\ flow' \in FlowState /\ ValidState(flow') /\ flow'.revision = flow.revision + 1
      /\ flow'.status = e /\ Len(flow'.inv) = Len(flow.inv)
      /\ flow.active # 0 => flow.active \in 1..Len(flow.inv) /\ flow'.inv[flow.active] = e
      /\ \A j \in 1..Len(flow.inv) : j # flow.active => flow'.inv[j] = flow.inv[j]
  BY <1>3, TerminatedFlow
<1>5. /\ TypeOK /\ AgentInv /\ UsageCountedOnce /\ used \in Seq(Nat)
      /\ Len(used) = Len(flow.inv) /\ Len(flow.inv) \in Nat /\ flow.revision \in Nat
  BY Zenon, FlowFields DEF Inv, TypeOK
<1>6. e \in Terminal /\ e \notin {"completed", "waiting", "created", "running"}
      /\ e \in OutValue /\ "cancelled" \in OutValue /\ o # "none"
  BY ZenonT(30) DEF Terminal, ErrorStatus, OutValue, RunStatus
<1>7. flow.active # 0 => flow.inv[flow.active] # "completed"
  <2>1. flow.status \in {"created", "running", "waiting"}
    BY <1>2, <1>3, FlowFields, Statuses
  <2>2. flow.status = "created" => flow.active = 0
    BY <1>3, <1>4, <1>5 DEF ValidState
  <2>3. QED
    BY ZenonT(30), <1>3, <2>1, <2>2 DEF ValidState
<1>8. AgentInv'
  <2>1. \A j \in 1..Len(flow'.inv) : j < Len(flow'.inv) => flow'.inv[j] = "completed"
    <3>1. SUFFICES ASSUME NEW j \in 1..Len(flow.inv), j < Len(flow.inv)
                   PROVE  flow'.inv[j] = "completed"
      BY <1>4
    <3>2. flow.inv[j] = "completed"
      BY <1>5, <3>1 DEF AgentInv
    <3>3. j # flow.active
      BY <1>5, <1>7, <3>2
    <3>4. QED
      BY <1>4, <3>2, <3>3
  <2>2. \A j \in 1..Len(flow'.inv) : flow'.inv[j] = "completed" => agent[j].status = "completed"
    BY <1>4, <1>5, <1>6 DEF AgentInv
  <2>3. flow'.revision # 0
    BY <1>4, <1>5
  <2>4. QED
    BY <1>4, <1>5, <2>1, <2>2, <2>3 DEF AgentInv
<1>9. UsageCountedOnce'
  BY <1>4, <1>5, <1>6 DEF UsageCountedOnce
<1>10. /\ p \in Label /\ o \in OutValue /\ state[c] \in [n : Nat, used : Nat]
       /\ inv[c] \in 0..Agents /\ state' = [state EXCEPT ![c] = state[c]]
       /\ inv' = [inv EXCEPT ![c] = inv[c]]
  BY <1>6, Known DEF Label
<1>11. WorkOK(p, state[c], inv[c], result[c])'
  BY DEF WorkOK, Driving
<1>12. EndOK(c, p, inv[c], o)'
  BY <1>4, <1>5, <1>6 DEF EndOK
<1>13. ASSUME NEW d \in Call, pc[d] \in Driving
       PROVE  flow'.inv[inv[d]] \in {"running"} \cup ErrorStatus
  <2>1. WorkOK(pc[d], state[d], inv[d], result[d])
    BY Known
  <2>2. flow.active = inv[d] /\ inv[d] \in 1..Len(flow.inv)
    BY <1>2, <1>13, <2>1 DEF WorkOK
  <2>3. flow.active # 0
    BY <1>5, <2>2
  <2>4. QED
    BY Zenon, <1>4, <2>2, <2>3
<1>14. ~DrivesAt(p, result[c])
  BY DEF DrivesAt, Driving
<1>15. /\ flow'.status \in Terminal /\ flow'.status \notin {"created", "running"}
       /\ used' \in Seq(Nat) /\ Len(used') = Len(flow'.inv) /\ Len(flow.inv) <= Len(flow'.inv)
  <2>1. flow'.status \in Terminal /\ flow'.status \notin {"created", "running"}
    BY Zenon, <1>4, <1>6
  <2>2. used' \in Seq(Nat) /\ Len(used') = Len(flow'.inv) /\ Len(flow.inv) <= Len(flow'.inv)
    BY ZenonT(30), <1>4, <1>5, SelfLeq
  <2>3. QED
    BY <2>1, <2>2
<1>16. QED
  BY ZenonT(30), <1>1, <1>2, <1>4, <1>8, <1>9, <1>10, <1>11, <1>12, <1>13, <1>14, <1>15,
     CommitStep

-----------------------------------------------------------------------------
\* Steps of a call that change neither the Flow nor an Agent.

LEMMA AdvanceStep == ASSUME Inv, NEW c \in Call, Advance(c) PROVE Inv'
<1>k. /\ pc[c] \in Label /\ view[c] \in Nat /\ inv[c] \in 0..Agents /\ out[c] \in OutValue
      /\ state[c] \in [n : Nat, used : Nat] /\ result[c] \in ResultStatus \cup {"none"}
      /\ view = [view EXCEPT ![c] = view[c]] /\ inv = [inv EXCEPT ![c] = inv[c]]
      /\ out = [out EXCEPT ![c] = out[c]] /\ clock \in 0..Deadline /\ faults \in 0..MaxFaults
      /\ flow.active \in 0..Agents /\ flow.revision \in Nat
      /\ WorkOK(pc[c], state[c], inv[c], result[c]) /\ EndOK(c, pc[c], inv[c], out[c])
      /\ pc[c] \notin Committing => view[c] = 0
      /\ pc[c] \notin {"propagate", "returned", "told", "raised"} => out[c] = "none"
  BY Known
<1>1. /\ flow' = flow /\ used' = used /\ state' = state /\ agent' = agent /\ recorded' = recorded
      /\ result' = result /\ clock' = clock /\ faults' = faults
      /\ pc[c] = "advance" /\ view' = view /\ inv' = inv /\ out' = out /\ view[c] = 0
      /\ out[c] = "none"
  BY <1>k DEF Advance, store, local, Committing
<1>2. PICK p : /\ pc' = [pc EXCEPT ![c] = p]
               /\ p = IF state[c].n >= Agents THEN "complete"
                      ELSE IF ExceededBefore(state[c].n, state[c].used, TRUE)
                           THEN "limit_check" ELSE "begin"
  BY Zenon DEF Advance, Goto
<1>3. /\ p \in {"complete", "limit_check", "begin"}
      /\ p = "complete" => state[c].n >= Agents
      /\ p = "begin" => /\ state[c].n < Agents /\ state[c].n < MaxInvocations
                        /\ state[c].used < MaxCalls
  <2>1. state[c].n \in Nat /\ state[c].used \in Nat
    BY <1>k
  <2>2. QED
    BY <1>2, <2>1, CallAssumption, MaxInvocationsAssumption DEF ExceededBefore, Overdue
<1>4. WorkOK(p, state[c], inv[c], result[c])
  BY <1>k, <1>1, <1>3 DEF WorkOK, Driving
<1>5. EndOK(c, p, inv[c], "none") /\ ViewOK(p, 0, inv[c])
  BY <1>k, <1>1, <1>3 DEF EndOK, ViewOK
<1>6. /\ DrivesAt(p, result[c]) => Driver(c)
      /\ OwnsAt(pc[c], view[c], result[c]) => OwnsAt(p, 0, result[c])
      /\ p \in Label /\ "none" \in OutValue /\ 0 \in Nat
      /\ pc[c] \notin {"returned", "told", "raised"}
  BY <1>1, <1>3 DEF Label, Driver, DrivesAt, OwnsAt, OutValue
<1>v. /\ inv[c] \in 0..Agents
      /\ view' = [view EXCEPT ![c] = 0] /\ inv' = [inv EXCEPT ![c] = inv[c]]
      /\ out' = [out EXCEPT ![c] = "none"] /\ clock' \in 0..Deadline /\ faults' \in 0..MaxFaults
  BY <1>k, <1>1
<1>7. QED
  BY ZenonT(30), <1>v, <1>1, <1>2, <1>4, <1>5, <1>6, LocalStep

LEMMA InvokeStep == ASSUME Inv, NEW c \in Call, Invoke(c) PROVE Inv'
<1>k. /\ pc[c] \in Label /\ view[c] \in Nat /\ inv[c] \in 0..Agents /\ out[c] \in OutValue
      /\ state[c] \in [n : Nat, used : Nat] /\ result[c] \in ResultStatus \cup {"none"}
      /\ view = [view EXCEPT ![c] = view[c]] /\ inv = [inv EXCEPT ![c] = inv[c]]
      /\ out = [out EXCEPT ![c] = out[c]] /\ clock \in 0..Deadline /\ faults \in 0..MaxFaults
      /\ flow.active \in 0..Agents /\ flow.revision \in Nat
      /\ WorkOK(pc[c], state[c], inv[c], result[c]) /\ EndOK(c, pc[c], inv[c], out[c])
      /\ pc[c] \notin Committing => view[c] = 0
      /\ pc[c] \notin {"propagate", "returned", "told", "raised"} => out[c] = "none"
  BY Known
<1>0. PICK p : p = "transport"
  OBVIOUS
<1>1. /\ flow' = flow /\ used' = used /\ state' = state /\ agent' = agent /\ recorded' = recorded
      /\ result' = result /\ clock' = clock /\ faults' = faults
      /\ pc[c] = "invoke" /\ view' = view /\ inv' = inv /\ out' = out /\ view[c] = 0
      /\ out[c] = "none" /\ pc' = [pc EXCEPT ![c] = p]
  BY <1>k, <1>0 DEF Invoke, Goto, store, local, Committing
<1>2. WorkOK(p, state[c], inv[c], result[c])
  BY <1>k, <1>0, <1>1 DEF WorkOK, Driving
<1>3. EndOK(c, p, inv[c], "none") /\ ViewOK(p, 0, inv[c])
  BY <1>k, <1>0, <1>1 DEF EndOK, ViewOK
<1>4. /\ DrivesAt(p, result[c]) => Driver(c)
      /\ OwnsAt(pc[c], view[c], result[c]) => OwnsAt(p, 0, result[c])
      /\ p \in Label /\ "none" \in OutValue /\ 0 \in Nat
      /\ pc[c] \notin {"returned", "told", "raised"}
  BY Zenon, <1>0, <1>1 DEF Label, Driver, DrivesAt, Driving, OwnsAt, OutValue
<1>v. /\ inv[c] \in 0..Agents
      /\ view' = [view EXCEPT ![c] = 0] /\ inv' = [inv EXCEPT ![c] = inv[c]]
      /\ out' = [out EXCEPT ![c] = "none"] /\ clock' \in 0..Deadline /\ faults' \in 0..MaxFaults
  BY <1>k, <1>1
<1>5. QED
  BY ZenonT(30), <1>v, <1>1, <1>2, <1>3, <1>4, LocalStep

\* A call on a stored Flow.
LEMMA StoredFlow == ASSUME Inv, flow # NoFlow PROVE flow.revision # 0
BY DEF Inv, AgentInv

LEMMA ResumeStep == ASSUME Inv, NEW c \in Call, Resume(c) PROVE Inv'
<1>k. /\ pc[c] \in Label /\ view[c] \in Nat /\ inv[c] \in 0..Agents /\ out[c] \in OutValue
      /\ state[c] \in [n : Nat, used : Nat] /\ result[c] \in ResultStatus \cup {"none"}
      /\ view = [view EXCEPT ![c] = view[c]] /\ inv = [inv EXCEPT ![c] = inv[c]]
      /\ out = [out EXCEPT ![c] = out[c]] /\ clock \in 0..Deadline /\ faults \in 0..MaxFaults
      /\ flow.active \in 0..Agents /\ flow.revision \in Nat
      /\ WorkOK(pc[c], state[c], inv[c], result[c]) /\ EndOK(c, pc[c], inv[c], out[c])
      /\ pc[c] \notin Committing => view[c] = 0
      /\ pc[c] \notin {"propagate", "returned", "told", "raised"} => out[c] = "none"
  BY Known
<1>1. /\ flow' = flow /\ used' = used /\ state' = state /\ agent' = agent /\ recorded' = recorded
      /\ result' = result /\ clock' = clock /\ faults' = faults
      /\ pc[c] = "idle" /\ Op[c] = "resume" /\ view' = view /\ view[c] = 0
      /\ out[c] = "none" /\ inv[c] = 0 /\ flow.revision # 0
  BY <1>k, StoredFlow DEF Resume, store, Committing, EndOK
<1>2. CASE Raises(c, "value") /\ UNCHANGED inv
  <2>1. /\ ~OwnsAt(pc[c], view[c], result[c]) /\ view' = [view EXCEPT ![c] = 0]
        /\ pc[c] \notin {"returned", "told", "raised"}
    BY <1>k, <1>1 DEF OwnsAt, Driving
  <2>2. QED
    BY ZenonT(30), <1>1, <1>2, <2>1, RaisesStep
<1>3. ASSUME NEW p \in {"limit_check", "resume"}, NEW i \in {0, flow.active},
             pc' = [pc EXCEPT ![c] = p], inv' = [inv EXCEPT ![c] = i], out' = out
      PROVE  Inv'
  <2>1. WorkOK(p, state[c], i, result[c])
    BY ZenonT(30) DEF WorkOK, Driving
  <2>2. EndOK(c, p, i, "none") /\ ViewOK(p, 0, i)
    BY <1>k, <1>1 DEF EndOK, ViewOK
  <2>3. /\ p \in Label /\ ~DrivesAt(p, result[c]) /\ ~OwnsAt(pc[c], view[c], result[c])
        /\ "none" \in OutValue /\ 0 \in Nat /\ pc[c] \notin {"returned", "told", "raised"}
        /\ i \in 0..Agents
    BY <1>k, <1>1, CallAssumption DEF Label, DrivesAt, Driving, OwnsAt, OutValue
  <2>4. view' = [view EXCEPT ![c] = 0] /\ out' = [out EXCEPT ![c] = "none"]
        /\ clock' \in 0..Deadline /\ faults' \in 0..MaxFaults
    BY <1>k, <1>1, <1>3
  <2>5. QED
    BY ZenonT(30), <1>1, <1>3, <2>1, <2>2, <2>3, <2>4, LocalStep
<1>4. QED
  <2>1. CASE Goto(c, "limit_check") /\ UNCHANGED <<inv, out>>
    <3>1. inv' = [inv EXCEPT ![c] = 0]
      BY <1>k, <1>1, <2>1
    <3>2. QED
      BY ZenonT(30), <1>3, <2>1, <3>1 DEF Goto
  <2>2. CASE inv' = [inv EXCEPT ![c] = flow.active] /\ Goto(c, "resume") /\ UNCHANGED out
    BY <1>3, <2>2 DEF Goto
  <2>3. QED
    BY Zenon, <1>2, <2>1, <2>2 DEF Resume

LEMMA CancelStep == ASSUME Inv, NEW c \in Call, Cancel(c) PROVE Inv'
<1>k. /\ pc[c] \in Label /\ view[c] \in Nat /\ inv[c] \in 0..Agents /\ out[c] \in OutValue
      /\ state[c] \in [n : Nat, used : Nat] /\ result[c] \in ResultStatus \cup {"none"}
      /\ view = [view EXCEPT ![c] = view[c]] /\ inv = [inv EXCEPT ![c] = inv[c]]
      /\ out = [out EXCEPT ![c] = out[c]] /\ clock \in 0..Deadline /\ faults \in 0..MaxFaults
      /\ flow.active \in 0..Agents /\ flow.revision \in Nat
      /\ WorkOK(pc[c], state[c], inv[c], result[c]) /\ EndOK(c, pc[c], inv[c], out[c])
      /\ pc[c] \notin Committing => view[c] = 0
      /\ pc[c] \notin {"propagate", "returned", "told", "raised"} => out[c] = "none"
  BY Known
<1>1. /\ flow' = flow /\ used' = used /\ state' = state /\ agent' = agent /\ recorded' = recorded
      /\ result' = result /\ clock' = clock /\ faults' = faults
      /\ pc[c] = "idle" /\ Op[c] = "cancel" /\ view' = view /\ view[c] = 0
      /\ out[c] = "none" /\ inv[c] = 0 /\ flow.revision # 0
  BY <1>k, StoredFlow DEF Cancel, store, Committing, EndOK
<1>2. CASE Raises(c, "invalid") /\ UNCHANGED inv
  <2>1. /\ ~OwnsAt(pc[c], view[c], result[c]) /\ view' = [view EXCEPT ![c] = 0]
        /\ pc[c] \notin {"returned", "told", "raised"}
    BY <1>k, <1>1 DEF OwnsAt, Driving
  <2>2. QED
    BY ZenonT(30), <1>1, <1>2, <2>1, RaisesStep
<1>3. ASSUME NEW p, NEW i \in {0, flow.active}, NEW o,
             pc' = [pc EXCEPT ![c] = p], inv' = [inv EXCEPT ![c] = i],
             out' = [out EXCEPT ![c] = o],
             \/ p = "cancel" /\ o = "none"
             \/ p = "returned" /\ o = "cancelled" /\ i = 0 /\ flow.status = "cancelled"
      PROVE  Inv'
  <2>1. WorkOK(p, state[c], i, result[c])
    BY ZenonT(30), <1>3 DEF WorkOK, Driving
  <2>2. EndOK(c, p, i, o) /\ ViewOK(p, 0, i)
    BY <1>k, <1>1, <1>3, Statuses DEF EndOK, ViewOK
  <2>3. /\ p \in Label /\ ~DrivesAt(p, result[c]) /\ ~OwnsAt(pc[c], view[c], result[c])
        /\ o \in OutValue /\ 0 \in Nat /\ pc[c] \notin {"returned", "told", "raised"}
        /\ i \in 0..Agents
    BY <1>k, <1>1, <1>3, CallAssumption DEF Label, DrivesAt, Driving, OwnsAt, OutValue
  <2>4. /\ view' = [view EXCEPT ![c] = 0] /\ clock' \in 0..Deadline /\ faults' \in 0..MaxFaults
    BY <1>k, <1>1
  <2>5. QED
    BY ZenonT(30), <1>1, <1>3, <2>1, <2>2, <2>3, <2>4, LocalStep
<1>4. QED
  <2>1. CASE flow.status = "cancelled" /\ Returns(c, "cancelled") /\ UNCHANGED inv
    <3>1. inv' = [inv EXCEPT ![c] = 0]
      BY <1>k, <1>1, <2>1
    <3>2. QED
      BY Zenon, <1>3, <2>1, <3>1 DEF Returns, Ends, Goto
  <2>2. CASE inv' = [inv EXCEPT ![c] = flow.active] /\ Goto(c, "cancel") /\ UNCHANGED out
    <3>1. out' = [out EXCEPT ![c] = "none"]
      BY <1>k, <1>1, <2>2
    <3>2. QED
      BY ZenonT(30), <1>3, <2>2, <3>1 DEF Goto
  <2>3. QED
    BY ZenonT(30), <1>2, <2>1, <2>2 DEF Cancel

LEMMA OutcomeStep == ASSUME Inv, NEW c \in Call, Outcome(c) PROVE Inv'
<1>k. /\ pc[c] \in Label /\ view[c] \in Nat /\ inv[c] \in 0..Agents /\ out[c] \in OutValue
      /\ state[c] \in [n : Nat, used : Nat] /\ result[c] \in ResultStatus \cup {"none"}
      /\ view = [view EXCEPT ![c] = view[c]] /\ inv = [inv EXCEPT ![c] = inv[c]]
      /\ out = [out EXCEPT ![c] = out[c]] /\ clock \in 0..Deadline /\ faults \in 0..MaxFaults
      /\ flow.active \in 0..Agents /\ flow.revision \in Nat
      /\ WorkOK(pc[c], state[c], inv[c], result[c]) /\ EndOK(c, pc[c], inv[c], out[c])
      /\ pc[c] \notin Committing => view[c] = 0
      /\ pc[c] \notin {"propagate", "returned", "told", "raised"} => out[c] = "none"
  BY Known
<1>1. /\ flow' = flow /\ used' = used /\ state' = state /\ agent' = agent /\ recorded' = recorded
      /\ result' = result /\ clock' = clock /\ faults' = faults
      /\ pc[c] = "settled" /\ view' = view /\ inv' = inv /\ view[c] = 0 /\ out[c] = "none"
      /\ flow.revision # 0 /\ Op[c] # "cancel"
  BY <1>k DEF Outcome, store, Committing, EndOK
<1>2. ASSUME NEW p, NEW o, pc' = [pc EXCEPT ![c] = p], out' = [out EXCEPT ![c] = o],
             \/ p = "limit_check" /\ o = "none"
             \/ p = "advance" /\ o = "none" /\ result[c] = "completed"
             \/ p = "returned" /\ o = "waiting" /\ result[c] = "waiting"
             \/ p = "outcome" /\ o = "none" /\ result[c] \in ErrorStatus
      PROVE  Inv'
  <2>1. WorkOK(p, state[c], inv[c], result[c])
    BY Zenon, <1>k, <1>1, <1>2 DEF WorkOK, Driving
  <2>2. EndOK(c, p, inv[c], o) /\ ViewOK(p, 0, inv[c])
    BY <1>k, <1>1, <1>2, Statuses DEF EndOK, ViewOK
  <2>3. /\ p \in Label /\ o \in OutValue /\ 0 \in Nat
        /\ pc[c] \notin {"returned", "told", "raised"}
    BY ZenonT(30), <1>1, <1>2 DEF Label, OutValue, RunStatus
  <2>4. /\ DrivesAt(p, result[c]) => Driver(c)
        /\ OwnsAt(pc[c], view[c], result[c]) => OwnsAt(p, 0, result[c])
    BY <1>1, <1>2 DEF DrivesAt, Driver, Driving, OwnsAt
  <2>5. QED
    BY ZenonT(30), <1>k, <1>1, <1>2, <2>1, <2>2, <2>3, <2>4, LocalStep
<1>3. UNCHANGED out => out' = [out EXCEPT ![c] = "none"]
  BY <1>k, <1>1
<1>4. QED
  BY ZenonT(30), <1>2, <1>3 DEF Outcome, Returns, Ends, Goto

\* The calls that find the Flow ended, or go on to end it.
LEMMA RaceCheckStep == ASSUME Inv, NEW c \in Call, RaceCheck(c) PROVE Inv'
<1>k. /\ pc[c] \in Label /\ view[c] \in Nat /\ inv[c] \in 0..Agents /\ out[c] \in OutValue
      /\ state[c] \in [n : Nat, used : Nat] /\ result[c] \in ResultStatus \cup {"none"}
      /\ view = [view EXCEPT ![c] = view[c]] /\ inv = [inv EXCEPT ![c] = inv[c]]
      /\ out = [out EXCEPT ![c] = out[c]] /\ clock \in 0..Deadline /\ faults \in 0..MaxFaults
      /\ flow.active \in 0..Agents /\ flow.revision \in Nat
      /\ WorkOK(pc[c], state[c], inv[c], result[c]) /\ EndOK(c, pc[c], inv[c], out[c])
      /\ pc[c] \notin Committing => view[c] = 0
      /\ pc[c] \notin {"propagate", "returned", "told", "raised"} => out[c] = "none"
  BY Known
<1>1. /\ flow' = flow /\ used' = used /\ state' = state /\ agent' = agent /\ recorded' = recorded
      /\ result' = result /\ clock' = clock /\ faults' = faults
      /\ pc[c] = "race_check" /\ view' = view /\ inv' = inv /\ view[c] = 0
      /\ flow.revision # 0 /\ Op[c] # "cancel" /\ flow.status \in Terminal
  BY <1>k DEF RaceCheck, store, Committing, EndOK, WorkOK
<1>2. pc' = [pc EXCEPT ![c] = "returned"] /\ out' = [out EXCEPT ![c] = flow.status]
  BY Zenon, <1>1 DEF RaceCheck, Ends, Goto
<1>3. WorkOK("returned", state[c], inv[c], result[c])
  BY ZenonT(30) DEF WorkOK, Driving
<1>4. EndOK(c, "returned", inv[c], flow.status) /\ ViewOK("returned", 0, inv[c])
  BY <1>k, <1>1 DEF EndOK, ViewOK
<1>5. /\ "returned" \in Label /\ ~DrivesAt("returned", result[c])
      /\ ~OwnsAt(pc[c], view[c], result[c]) /\ 0 \in Nat
      /\ pc[c] \notin {"returned", "told", "raised"} /\ flow.status \in OutValue
  BY ZenonT(30), <1>1, Statuses DEF Label, DrivesAt, Driving, OwnsAt, OutValue
<1>6. PICK o \in OutValue : o = flow.status
  BY ZenonT(30), <1>5
<1>7. QED
  BY ZenonT(30), <1>k, <1>1, <1>2, <1>3, <1>4, <1>5, <1>6, LocalStep

LEMMA CheckStep ==
  ASSUME Inv, NEW c \in Call, NEW p \in {"fail", "limit"}, NEW i \in 0..Agents,
         flow' = flow, used' = used, state' = state, agent' = agent, recorded' = recorded,
         result' = result, clock' = clock, faults' = faults, view' = view,
         inv' = [inv EXCEPT ![c] = i], pc[c] \in {"failure_check", "limit_check"},
         \/ flow.status \in Terminal /\ Returns(c, flow.status)
         \/ flow.status \notin Terminal /\ Goto(c, p) /\ UNCHANGED out
  PROVE  Inv'
<1>k. /\ pc[c] \in Label /\ view[c] \in Nat /\ inv[c] \in 0..Agents /\ out[c] \in OutValue
      /\ state[c] \in [n : Nat, used : Nat] /\ result[c] \in ResultStatus \cup {"none"}
      /\ view = [view EXCEPT ![c] = view[c]] /\ inv = [inv EXCEPT ![c] = inv[c]]
      /\ out = [out EXCEPT ![c] = out[c]] /\ clock \in 0..Deadline /\ faults \in 0..MaxFaults
      /\ flow.active \in 0..Agents /\ flow.revision \in Nat
      /\ WorkOK(pc[c], state[c], inv[c], result[c]) /\ EndOK(c, pc[c], inv[c], out[c])
      /\ pc[c] \notin Committing => view[c] = 0
      /\ pc[c] \notin {"propagate", "returned", "told", "raised"} => out[c] = "none"
  BY Known
<1>1. /\ view[c] = 0 /\ out[c] = "none" /\ flow.revision # 0 /\ Op[c] # "cancel"
  BY <1>k DEF Committing, EndOK
<1>2. ASSUME NEW q, NEW o, pc' = [pc EXCEPT ![c] = q], out' = [out EXCEPT ![c] = o],
             \/ q = p /\ o = "none"
             \/ q = "returned" /\ o = flow.status /\ flow.status \in Terminal
      PROVE  Inv'
  <2>1. WorkOK(q, state[c], i, result[c])
    BY Zenon, <1>2 DEF WorkOK, Driving
  <2>2. EndOK(c, q, i, o) /\ ViewOK(q, 0, i)
    BY <1>k, <1>1, <1>2, Statuses DEF EndOK, ViewOK
  <2>3. /\ q \in Label /\ o \in OutValue /\ 0 \in Nat
        /\ pc[c] \notin {"returned", "told", "raised"} /\ ~DrivesAt(q, result[c])
    BY ZenonT(30), <1>1, <1>2, Statuses DEF Label, OutValue, DrivesAt, Driving
  <2>4. q = p \/ flow.status \notin {"created", "running"}
    BY <1>2, Statuses
  <2>5. q = p => OwnsAt(q, 0, result[c])
    BY DEF OwnsAt
  <2>6. QED
    BY ZenonT(30), <1>k, <1>1, <1>2, <2>1, <2>2, <2>3, <2>4, <2>5, LocalStep
<1>3. UNCHANGED out => out' = [out EXCEPT ![c] = "none"]
  BY <1>k, <1>1
<1>4. QED
  BY <1>2, <1>3 DEF Returns, Ends, Goto

LEMMA FailureCheckStep == ASSUME Inv, NEW c \in Call, FailureCheck(c) PROVE Inv'
<1>1. inv[c] \in 0..Agents /\ inv = [inv EXCEPT ![c] = inv[c]]
  BY Known
<1>2. /\ flow' = flow /\ used' = used /\ state' = state /\ agent' = agent /\ recorded' = recorded
      /\ result' = result /\ clock' = clock /\ faults' = faults /\ view' = view
      /\ inv' = [inv EXCEPT ![c] = inv[c]] /\ pc[c] = "failure_check"
  BY <1>1 DEF FailureCheck, store
<1>3. QED
  BY Zenon, <1>1, <1>2, CheckStep DEF FailureCheck

LEMMA LimitCheckStep == ASSUME Inv, NEW c \in Call, LimitCheck(c) PROVE Inv'
<1>1. PICK i : i = IF flow.status = "waiting" THEN flow.active ELSE 0
  OBVIOUS
<1>2. i \in 0..Agents
  BY <1>1, Known, CallAssumption
<1>3. /\ flow' = flow /\ used' = used /\ state' = state /\ agent' = agent /\ recorded' = recorded
      /\ result' = result /\ clock' = clock /\ faults' = faults /\ view' = view
      /\ inv' = [inv EXCEPT ![c] = i] /\ pc[c] = "limit_check"
  BY <1>1 DEF LimitCheck, store
<1>4. QED
  BY ZenonT(30), <1>2, <1>3, CheckStep DEF LimitCheck

\* A task that is cancelled outside the transport leaves at once.
LEMMA AbandonStep ==
  ASSUME Inv, NEW c \in Call, TaskCancelled(c), pc[c] # "transport"
  PROVE  Inv'
<1>k. /\ pc[c] \in Label /\ view[c] \in Nat /\ inv[c] \in 0..Agents /\ out[c] \in OutValue
      /\ state[c] \in [n : Nat, used : Nat] /\ result[c] \in ResultStatus \cup {"none"}
      /\ view = [view EXCEPT ![c] = view[c]] /\ inv = [inv EXCEPT ![c] = inv[c]]
      /\ out = [out EXCEPT ![c] = out[c]] /\ clock \in 0..Deadline /\ faults \in 0..MaxFaults
      /\ flow.active \in 0..Agents /\ flow.revision \in Nat
      /\ WorkOK(pc[c], state[c], inv[c], result[c]) /\ EndOK(c, pc[c], inv[c], out[c])
      /\ pc[c] \notin Committing => view[c] = 0
      /\ pc[c] \notin {"propagate", "returned", "told", "raised"} => out[c] = "none"
  BY Known
<1>1. /\ flow' = flow /\ used' = used /\ state' = state /\ agent' = agent /\ recorded' = recorded
      /\ result' = result /\ clock' = clock /\ inv' = inv /\ view' = [view EXCEPT ![c] = 0]
      /\ pc' = [pc EXCEPT ![c] = "raised"] /\ out' = [out EXCEPT ![c] = "abandoned"]
      /\ faults' = faults + 1 /\ faults < MaxFaults
  BY Zenon DEF TaskCancelled, store, Raises, Ends, Goto, Fault
<1>2. faults' \in 0..MaxFaults
  BY <1>k, <1>1, CallAssumption
<1>3. WorkOK("raised", state[c], inv[c], result[c])
  BY ZenonT(30) DEF WorkOK, Driving
<1>4. EndOK(c, "raised", inv[c], "abandoned") /\ ViewOK("raised", 0, inv[c])
  BY <1>k DEF TaskCancelled, EndOK, ViewOK
<1>5. /\ "raised" \in Label /\ ~DrivesAt("raised", result[c]) /\ 0 \in Nat
      /\ pc[c] \notin {"returned", "told", "raised"} /\ "abandoned" \in OutValue
  BY DEF Label, DrivesAt, Driving, OutValue, TaskCancelled, Ended, Returned
<1>6. QED
  BY Zenon, <1>k, <1>1, <1>2, <1>3, <1>4, <1>5, LocalStep

LEMMA LateSettleStep ==
  ASSUME Inv, NEW c \in Call, pc[c] = "settle", view[c] = 0, ~CanSettle(flow, inv[c]),
         Goto(c, "race_check"),
         UNCHANGED <<store, agent, recorded, clock, view, local, faults>>
  PROVE  Inv'
<1>k. /\ pc[c] \in Label /\ view[c] \in Nat /\ inv[c] \in 0..Agents /\ out[c] \in OutValue
      /\ state[c] \in [n : Nat, used : Nat] /\ result[c] \in ResultStatus \cup {"none"}
      /\ view = [view EXCEPT ![c] = view[c]] /\ inv = [inv EXCEPT ![c] = inv[c]]
      /\ out = [out EXCEPT ![c] = out[c]] /\ clock \in 0..Deadline /\ faults \in 0..MaxFaults
      /\ flow.active \in 0..Agents /\ flow.revision \in Nat
      /\ WorkOK(pc[c], state[c], inv[c], result[c]) /\ EndOK(c, pc[c], inv[c], out[c])
      /\ pc[c] \notin Committing => view[c] = 0
      /\ pc[c] \notin {"propagate", "returned", "told", "raised"} => out[c] = "none"
  BY Known
<1>1. /\ flow' = flow /\ used' = used /\ state' = state /\ agent' = agent /\ recorded' = recorded
      /\ result' = result /\ clock' = clock /\ faults' = faults
      /\ view' = view /\ inv' = inv /\ out' = out /\ out[c] = "none"
      /\ pc' = [pc EXCEPT ![c] = "race_check"]
  BY <1>k DEF Goto, store, local
<1>2. flow.status \in Terminal
  <2>1. /\ inv[c] \in 1..Len(flow.inv)
        /\ flow.status \in Terminal \/ (flow.status = "running" /\ flow.active = inv[c])
    BY <1>k DEF WorkOK, Driving
  <2>2. ValidState(flow) /\ inv[c] # 0
    BY <2>1, Known
  <2>3. QED
    BY ZenonT(30), <2>1, <2>2 DEF CanSettle, ValidState
<1>3. WorkOK("race_check", state[c], inv[c], result[c])
  BY <1>2 DEF WorkOK, Driving
<1>4. EndOK(c, "race_check", inv[c], "none") /\ ViewOK("race_check", 0, inv[c])
  BY <1>k, <1>1 DEF EndOK, ViewOK
<1>5. /\ "race_check" \in Label /\ ~DrivesAt("race_check", result[c])
      /\ "none" \in OutValue /\ 0 \in Nat /\ pc[c] \notin {"returned", "told", "raised"}
      /\ flow.status \notin {"created", "running"}
  BY Zenon, <1>2, Statuses DEF Label, DrivesAt, Driving, OutValue
<1>v. /\ inv[c] \in 0..Agents
      /\ view' = [view EXCEPT ![c] = 0] /\ inv' = [inv EXCEPT ![c] = inv[c]]
      /\ out' = [out EXCEPT ![c] = "none"] /\ clock' \in 0..Deadline /\ faults' \in 0..MaxFaults
  BY <1>k, <1>1
<1>6. QED
  BY ZenonT(30), <1>v, <1>1, <1>3, <1>4, <1>5, LocalStep
-----------------------------------------------------------------------------
\* Steps that change an Agent run.

RunRecord == [status : {"none", "running"} \cup ResultStatus, calls : Nat, cancel : BOOLEAN]

\* An Agent run of the Flow that goes on, without unsaying what it reported.
LEMMA AgentStep ==
  ASSUME Inv, flow' = flow, used' = used, recorded \subseteq recorded',
         NEW i \in 1..Agents, NEW a \in RunRecord, agent' = [agent EXCEPT ![i] = a],
         i <= Len(flow.inv), flow.inv[i] = "completed" => a.status = "completed",
         agent[i].calls <= a.calls,
         flow.inv[i] \in {"completed", "waiting"} => a.calls = agent[i].calls,
         agent[i].status \in Terminal => a.status \in Terminal,
         agent[i].cancel => a.cancel
  PROVE  /\ agent' \in AgentRuns /\ AgentInv' /\ UsageCountedOnce'
         /\ \A j \in 1..Agents : Told(j) => Told(j)'
<1>0. /\ agent \in AgentRuns /\ AgentInv /\ UsageCountedOnce /\ used \in Seq(Nat)
      /\ Len(used) = Len(flow.inv) /\ Len(used) \in Nat /\ Agents \in Nat
  BY CallAssumption DEF Inv, TypeOK, AgentRuns
<1>1. agent'[i] = a /\ \A j \in 1..Agents : j # i => agent'[j] = agent[j]
  BY <1>0 DEF AgentRuns
<1>2. agent' \in AgentRuns
  BY <1>0 DEF AgentRuns, RunRecord
<1>3. AgentInv'
  <2>1. \A j \in 1..Len(flow.inv) : flow.inv[j] = "completed" => agent'[j].status = "completed"
    <3>1. SUFFICES ASSUME NEW j \in 1..Len(flow.inv), flow.inv[j] = "completed"
                   PROVE  agent'[j].status = "completed"
      OBVIOUS
    <3>2. agent[j].status = "completed" /\ j \in 1..Agents
      BY <1>0, <3>1 DEF AgentInv
    <3>3. QED
      BY <1>1, <3>1, <3>2
  <2>2. \A j \in 1..Agents : agent'[j].status # "none" => j <= Len(flow.inv)
    BY <1>0, <1>1 DEF AgentInv
  <2>3. QED
    BY <1>0, <2>1, <2>2 DEF AgentInv
<1>4. UsageCountedOnce'
  <2>1. SUFFICES ASSUME NEW j \in 1..Len(used)
                 PROVE  /\ used[j] <= agent'[j].calls
                        /\ flow.inv[j] \in {"completed", "waiting"} => used[j] = agent'[j].calls
    BY DEF UsageCountedOnce
  <2>2. /\ used[j] <= agent[j].calls /\ used[j] \in Nat /\ j \in 1..Agents
        /\ flow.inv[j] \in {"completed", "waiting"} => used[j] = agent[j].calls
    BY <1>0, <2>1 DEF UsageCountedOnce, AgentInv
  <2>3. a.calls \in Nat /\ agent[j].calls \in Nat
    BY <1>0, <2>2 DEF RunRecord, AgentRuns
  <2>4. CASE j = i
    BY <1>1, <2>2, <2>3, <2>4
  <2>5. CASE j # i
    BY <1>1, <2>2, <2>5
  <2>6. QED
    BY <2>4, <2>5
<1>5. \A j \in 1..Agents : Told(j) => Told(j)'
  BY <1>1 DEF Told
<1>6. QED
  BY ZenonT(30), <1>2, <1>3, <1>4, <1>5

\* A step of the Agent run that call c drives, after which c is at label p with
\* result r.
LEMMA TransportStep ==
  ASSUME Inv, NEW c \in Call, pc[c] \in {"transport", "resume_transport"},
         flow' = flow, used' = used, state' = state, clock' = clock, recorded' = recorded,
         view' = view, inv' = inv, faults' \in 0..MaxFaults,
         NEW a \in RunRecord, agent' = [agent EXCEPT ![inv[c]] = a],
         agent[inv[c]].calls <= a.calls,
         agent[inv[c]].status \in Terminal => a.status \in Terminal,
         agent[inv[c]].cancel => a.cancel,
         NEW p \in {"transport", "settle", "failure_check", "limit_check", "interrupt",
                   "raised"}, NEW r,
         pc' = [pc EXCEPT ![c] = p], result' = [result EXCEPT ![c] = r],
         \/ p # "raised" /\ out' = out
         \/ p = "raised" /\ out' = [out EXCEPT ![c] = "assertion"],
         p = "settle" => r = a.status /\ r \in ResultStatus,
         p # "settle" => r = result[c]
  PROVE  Inv'
<1>k. /\ pc[c] \in Label /\ view[c] \in Nat /\ inv[c] \in 0..Agents /\ out[c] \in OutValue
      /\ state[c] \in [n : Nat, used : Nat] /\ result[c] \in ResultStatus \cup {"none"}
      /\ view = [view EXCEPT ![c] = view[c]] /\ inv = [inv EXCEPT ![c] = inv[c]]
      /\ out = [out EXCEPT ![c] = out[c]] /\ clock \in 0..Deadline /\ faults \in 0..MaxFaults
      /\ flow.active \in 0..Agents /\ flow.revision \in Nat
      /\ WorkOK(pc[c], state[c], inv[c], result[c]) /\ EndOK(c, pc[c], inv[c], out[c])
      /\ pc[c] \notin Committing => view[c] = 0
      /\ pc[c] \notin {"propagate", "returned", "told", "raised"} => out[c] = "none"
  BY Known
<1>i. PICK i \in 0..Agents, v \in Nat, o \in OutValue : /\ i = inv[c] /\ v = 0
                                               /\ o = IF p = "raised" THEN "assertion" ELSE "none"
  BY <1>k DEF OutValue
<1>1. /\ view[c] = 0 /\ out[c] = "none" /\ Op[c] # "cancel" /\ flow.revision # 0
      /\ pc[c] \notin {"returned", "told", "raised"} /\ pc[c] \in Driving
  BY <1>k DEF Committing, EndOK, Driving
<1>2. /\ inv[c] \in 1..Len(flow.inv) /\ flow.inv[inv[c]] \in {"running"} \cup ErrorStatus
      /\ flow.status \in Terminal \/ (flow.status = "running" /\ flow.active = inv[c])
  BY <1>k, <1>1 DEF WorkOK
<1>3. /\ inv[c] \in 1..Agents /\ inv[c] <= Len(flow.inv)
      /\ flow.inv[inv[c]] \notin {"completed", "waiting"}
  <2>1. Len(flow.inv) \in 0..Agents
    BY Known
  <2>2. QED
    BY <1>2, <2>1, CallAssumption DEF ErrorStatus
<1>4. /\ agent' \in AgentRuns /\ AgentInv' /\ UsageCountedOnce'
      /\ \A j \in 1..Agents : Told(j) => Told(j)'
  BY ZenonT(30), <1>3, AgentStep
<1>5. Driver(c) /\ \A d \in Call \ {c} : pc[d] # "settle"
  <2>1. Driver(c)
    BY ZenonT(30), <1>1 DEF Driver, DrivesAt
  <2>2. \A d \in Call : pc[d] = "settle" => Driver(d)
    BY DEF Driver, DrivesAt, Driving
  <2>3. QED
    BY <2>1, <2>2 DEF Inv, OnlyDriver
<1>6. agent'[i] = a
  BY <1>i, <1>3 DEF Inv, TypeOK
<1>7. WorkOK(p, state[c], i, r)'
  BY <1>i, <1>2, <1>6 DEF WorkOK, Driving
<1>8. EndOK(c, p, i, o)' /\ ViewOK(p, v, i)'
  BY <1>k, <1>i, <1>1 DEF EndOK, ViewOK
<1>9. CallOK(c, p, v, state[c], i, r, o)'
  BY <1>7, <1>8 DEF CallOK
<1>10. /\ OwnsAt(p, v, r) \/ o \in {"abandoned", "assertion"}
       /\ p \in Label
       /\ DrivesAt(p, r) => Driver(c)
       /\ \A d \in Call \ {c} : pc[d] = "settle" /\ flow.status \notin Terminal =>
             agent'[inv[d]].status = agent[inv[d]].status
  BY <1>i, <1>5 DEF OwnsAt, Driving, Label, OutValue
<1>11. /\ r \in ResultStatus \cup {"none"}
       /\ view' = [view EXCEPT ![c] = v] /\ inv' = [inv EXCEPT ![c] = i]
       /\ out' = [out EXCEPT ![c] = o] /\ clock' \in 0..Deadline
       /\ recorded' \in SUBSET (1..Agents)
  BY <1>k, <1>i, <1>1 DEF Inv, TypeOK
<1>12. QED
  BY ZenonT(30), <1>1, <1>4, <1>9, <1>10, <1>11, QuietStep

\* What is known of an Agent run.
LEMMA KnownAgent ==
  ASSUME Inv, NEW i \in 1..Agents, NEW a, a = agent[i]
  PROVE  /\ a \in RunRecord /\ a.calls \in Nat /\ a.cancel \in BOOLEAN
         /\ a.status \in {"none", "running"} \cup ResultStatus
         /\ a = [status |-> a.status, calls |-> a.calls, cancel |-> a.cancel]
         /\ agent = [agent EXCEPT ![i] = a]
<1>1. agent \in [1..Agents -> RunRecord]
  BY DEF Inv, TypeOK, RunRecord
<1>2. QED
  BY <1>1 DEF RunRecord

\* The Agent run that a driving call works on.
LEMMA DrivenAgent ==
  ASSUME Inv, NEW c \in Call, pc[c] \in Driving
  PROVE  inv[c] \in 1..Agents
<1>1. inv[c] \in 1..Len(flow.inv) /\ Len(flow.inv) \in 0..Agents
  BY Known DEF WorkOK
<1>2. QED
  BY <1>1, CallAssumption

LEMMA ResumeAgentStep == ASSUME Inv, NEW c \in Call, ResumeAgent(c) PROVE Inv'
<1>1. /\ pc[c] = "resume_transport" /\ flow' = flow /\ used' = used /\ state' = state
      /\ clock' = clock /\ recorded' = recorded /\ view' = view /\ inv' = inv /\ out' = out
      /\ result' = result /\ faults' = faults
  BY DEF ResumeAgent, store, local
<1>2. inv[c] \in 1..Agents
  BY <1>1, DrivenAgent DEF Driving
<1>3. PICK b : b = agent[inv[c]]
  OBVIOUS
<1>4. /\ b \in RunRecord /\ b.calls \in Nat /\ b.cancel \in BOOLEAN
      /\ b = [status |-> b.status, calls |-> b.calls, cancel |-> b.cancel]
      /\ agent = [agent EXCEPT ![inv[c]] = b]
  BY <1>2, <1>3, KnownAgent
<1>5. result' = [result EXCEPT ![c] = result[c]] /\ faults' \in 0..MaxFaults
  BY <1>1 DEF Inv, TypeOK
<1>6. PICK a : a = [status |-> "running", calls |-> b.calls, cancel |-> b.cancel]
  BY Zenon
<1>7. a \in RunRecord /\ a.calls = b.calls /\ a.cancel = b.cancel /\ b.calls <= a.calls
  BY <1>4, <1>6 DEF RunRecord
<1>8. CASE b.status = "waiting"
  <2>1. agent' = [agent EXCEPT ![inv[c]] = a] /\ pc' = [pc EXCEPT ![c] = "transport"]
    <3>1. [b EXCEPT !.status = "running"] = a
      BY <1>4, <1>6
    <3>2. QED
      BY <1>3, <1>8, <3>1 DEF ResumeAgent, Goto
  <2>2. b.status \notin Terminal
    BY <1>8 DEF Terminal, ErrorStatus
  <2>3. QED
    BY Zenon, <1>1, <1>3, <1>5, <1>7, <2>1, <2>2, TransportStep
<1>9. CASE b.status # "waiting"
  <2>1. agent' = [agent EXCEPT ![inv[c]] = b] /\ pc' = [pc EXCEPT ![c] = "failure_check"]
    BY <1>3, <1>4, <1>9 DEF ResumeAgent, Goto
  <2>2. b.calls <= b.calls
    BY <1>4
  <2>3. QED
    BY ZenonT(30), <1>1, <1>3, <1>4, <1>5, <2>1, <2>2, TransportStep
<1>10. QED
  BY <1>8, <1>9

LEMMA TwoFields ==
  ASSUME NEW b, NEW x, NEW y, NEW z, b = [status |-> y, calls |-> z, cancel |-> x],
         NEW r, NEW n, NEW t, t = [b EXCEPT !.status = r, !.calls = n]
  PROVE  t = [status |-> r, calls |-> n, cancel |-> x]
BY ZenonT(30)

LEMMA AgentReturnsStep ==
  ASSUME Inv, NEW c \in Call, NEW r \in Results, AgentReturns(c, r) PROVE Inv'
<1>1. /\ pc[c] = "transport" /\ flow' = flow /\ used' = used /\ state' = state
      /\ clock' = clock /\ recorded' = recorded /\ view' = view /\ inv' = inv /\ out' = out
      /\ faults' = faults /\ result' = [result EXCEPT ![c] = r]
      /\ pc' = [pc EXCEPT ![c] = "settle"] /\ agent[inv[c]].status = "running"
  BY DEF AgentReturns, store, Goto
<1>2. inv[c] \in 1..Agents /\ r \in ResultStatus
  BY <1>1, DrivenAgent, CallAssumption DEF Driving
<1>3. PICK b : b = agent[inv[c]]
  OBVIOUS
<1>4. /\ b \in RunRecord /\ b.calls \in Nat /\ b.cancel \in BOOLEAN
      /\ b = [status |-> b.status, calls |-> b.calls, cancel |-> b.cancel]
  BY <1>2, <1>3, KnownAgent
<1>n. PICK n \in Nat : n = b.calls + 1
  BY <1>4
<1>5. PICK a : a = [status |-> r, calls |-> n, cancel |-> b.cancel]
  BY Zenon
<1>6. a \in RunRecord /\ a.cancel = b.cancel /\ b.calls <= a.calls /\ r = a.status
  BY <1>2, <1>4, <1>n, <1>5 DEF RunRecord
<1>7. agent' = [agent EXCEPT ![inv[c]] = a]
  <2>1. agent' = [agent EXCEPT ![inv[c]] = [b EXCEPT !.status = r, !.calls = n]]
    BY <1>2, <1>3, <1>4, <1>n DEF AgentReturns, Inv, TypeOK, RunRecord
  <2>2. PICK t : t = [b EXCEPT !.status = r, !.calls = n]
    OBVIOUS
  <2>3. t = a
    <3>1. PICK x, y, z : x = b.cancel /\ y = b.status /\ z = b.calls
      OBVIOUS
    <3>2. b = [status |-> y, calls |-> z, cancel |-> x]
      BY <1>4, <3>1
    <3>3. t = [status |-> r, calls |-> n, cancel |-> x]
      BY ZenonT(30), <2>2, <3>2, TwoFields
    <3>4. QED
      BY <1>5, <3>1, <3>3
  <2>4. QED
    BY Zenon, <2>1, <2>2, <2>3
<1>8. b.status \notin Terminal /\ faults' \in 0..MaxFaults
  BY <1>1, <1>3, Known DEF Terminal, ErrorStatus
<1>9. QED
  BY Zenon, <1>1, <1>2, <1>3, <1>6, <1>7, <1>8, TransportStep

\* A transport that is stopped.
LEMMA StopStep ==
  ASSUME Inv, NEW c \in Call, pc[c] = "transport", StopsAgent(inv[c]),
         flow' = flow, used' = used, state' = state, clock' = clock, recorded' = recorded,
         view' = view, inv' = inv, result' = result, faults' \in 0..MaxFaults,
         NEW p \in {"failure_check", "limit_check", "interrupt", "raised"}, Goto(c, p),
         \/ p # "raised" /\ out' = out
         \/ p = "raised" /\ out' = [out EXCEPT ![c] = "assertion"]
  PROVE  Inv'
<1>1. inv[c] \in 1..Agents /\ pc' = [pc EXCEPT ![c] = p]
      /\ result' = [result EXCEPT ![c] = result[c]]
  BY DrivenAgent DEF Driving, Goto, Inv, TypeOK
<1>2. PICK b : b = agent[inv[c]]
  OBVIOUS
<1>3. /\ b \in RunRecord /\ b.calls \in Nat /\ b.cancel \in BOOLEAN
      /\ b.status \in {"none", "running"} \cup ResultStatus
      /\ b = [status |-> b.status, calls |-> b.calls, cancel |-> b.cancel]
  BY <1>1, <1>2, KnownAgent
<1>4. PICK s : s = IF b.status # "running" THEN b.status
                   ELSE IF b.cancel THEN "cancelled" ELSE "interrupted"
  OBVIOUS
<1>5. s \in {"none", "running"} \cup ResultStatus /\ (b.status \in Terminal => s \in Terminal)
  BY <1>3, <1>4 DEF ResultStatus, Terminal, ErrorStatus
<1>6. PICK a : a = [status |-> s, calls |-> b.calls, cancel |-> b.cancel]
  BY Zenon
<1>7. a \in RunRecord /\ a.cancel = b.cancel /\ b.calls <= a.calls /\ a.status = s
  BY <1>3, <1>5, <1>6 DEF RunRecord
<1>8. agent' = [agent EXCEPT ![inv[c]] = a]
  <2>1. agent' = [agent EXCEPT ![inv[c]] = [b EXCEPT !.status = s]]
    BY <1>1, <1>2, <1>4 DEF StopsAgent, Inv, TypeOK
  <2>2. [b EXCEPT !.status = s] = a
    BY <1>3, <1>6
  <2>3. QED
    BY ZenonT(30), <2>1, <2>2
<1>9. QED
  BY Zenon, <1>1, <1>2, <1>5, <1>7, <1>8, TransportStep

LEMMA AgentRaisesStep == ASSUME Inv, NEW c \in Call, AgentRaises(c) PROVE Inv'
<1>1. faults' \in 0..MaxFaults
  BY Known, CallAssumption DEF AgentRaises, Fault
<1>2. PICK p \in {"failure_check", "limit_check", "raised"} :
         /\ Goto(c, p)
         /\ \/ p # "raised" /\ out' = out
            \/ p = "raised" /\ out' = [out EXCEPT ![c] = "assertion"]
  BY DEF AgentRaises, Raises, Ends, Goto
<1>3. QED
  BY ZenonT(30), <1>1, <1>2, StopStep DEF AgentRaises, store

LEMMA TransportTimeoutStep == ASSUME Inv, NEW c \in Call, TransportTimeout(c) PROVE Inv'
<1>1. faults' \in 0..MaxFaults
  BY Known DEF TransportTimeout
<1>2. QED
  BY ZenonT(30), <1>1, StopStep DEF TransportTimeout, store, local

LEMMA TaskCancelledStep == ASSUME Inv, NEW c \in Call, TaskCancelled(c) PROVE Inv'
<1>1. CASE pc[c] = "transport"
  <2>1. faults' \in 0..MaxFaults
    BY Known, CallAssumption DEF TaskCancelled, Fault
  <2>2. QED
    BY <1>1, <2>1, StopStep DEF TaskCancelled, store
<1>2. CASE pc[c] # "transport"
  BY <1>2, AbandonStep
<1>3. QED
  BY <1>1, <1>2

LEMMA AgentStartsStep == ASSUME Inv, NEW i \in 1..Agents, AgentStarts(i) PROVE Inv'
<1>1. PICK c \in Call : pc[c] = "transport" /\ inv[c] = i
  BY DEF AgentStarts, Active
<1>2. /\ flow' = flow /\ used' = used /\ state' = state /\ clock' = clock
      /\ recorded' = recorded /\ view' = view /\ inv' = inv /\ out' = out
      /\ faults' \in 0..MaxFaults /\ result' = [result EXCEPT ![c] = result[c]]
      /\ pc' = [pc EXCEPT ![c] = "transport"] /\ agent[i].status = "none"
  BY <1>1 DEF AgentStarts, store, local, Inv, TypeOK
<1>3. PICK b : b = agent[i]
  OBVIOUS
<1>4. /\ b \in RunRecord /\ b.calls \in Nat /\ b.cancel \in BOOLEAN
      /\ b = [status |-> b.status, calls |-> b.calls, cancel |-> b.cancel]
  BY <1>3, KnownAgent
<1>5. PICK a : a = [status |-> "running", calls |-> b.calls, cancel |-> b.cancel]
  BY Zenon
<1>6. a \in RunRecord /\ a.cancel = b.cancel /\ b.calls <= a.calls
  BY <1>4, <1>5 DEF RunRecord
<1>7. agent' = [agent EXCEPT ![inv[c]] = a]
  <2>1. [b EXCEPT !.status = "running"] = a
    BY <1>4, <1>5
  <2>2. QED
    BY ZenonT(30), <1>1, <1>3, <2>1 DEF AgentStarts
<1>8. b.status \notin Terminal
  BY <1>2, <1>3 DEF Terminal, ErrorStatus
<1>9. QED
  BY Zenon, <1>1, <1>2, <1>3, <1>6, <1>7, <1>8, TransportStep

\* The Agent is told, or it is recorded that it was not.
LEMMA ToldStep ==
  ASSUME Inv, NEW c \in Call, pc[c] = "propagate",
         NEW p, p = "told", NEW v, v = view[c], NEW i, i = inv[c], NEW r, r = result[c],
         NEW o, o = out[c],
         pc' = [pc EXCEPT ![c] = p], view' = [view EXCEPT ![c] = v],
         inv' = [inv EXCEPT ![c] = i], result' = [result EXCEPT ![c] = r],
         out' = [out EXCEPT ![c] = o],
         flow' = flow, used' = used, state' = state, clock' = clock, faults' \in 0..MaxFaults,
         agent' \in AgentRuns, recorded' \in SUBSET (1..Agents), AgentInv', UsageCountedOnce',
         \A j \in 1..Agents : Told(j) => Told(j)',
         Told(i)'
  PROVE  Inv'
<1>k. /\ pc[c] \in Label /\ view[c] \in Nat /\ inv[c] \in 0..Agents /\ out[c] \in OutValue
      /\ state[c] \in [n : Nat, used : Nat] /\ result[c] \in ResultStatus \cup {"none"}
      /\ view = [view EXCEPT ![c] = view[c]] /\ inv = [inv EXCEPT ![c] = inv[c]]
      /\ out = [out EXCEPT ![c] = out[c]] /\ clock \in 0..Deadline /\ faults \in 0..MaxFaults
      /\ flow.active \in 0..Agents /\ flow.revision \in Nat
      /\ WorkOK(pc[c], state[c], inv[c], result[c]) /\ EndOK(c, pc[c], inv[c], out[c])
      /\ pc[c] \notin Committing => view[c] = 0
      /\ pc[c] \notin {"propagate", "returned", "told", "raised"} => out[c] = "none"
  BY Known
<1>1. /\ view[c] = 0 /\ out[c] \in Terminal /\ flow.status = out[c] /\ inv[c] # 0
      /\ flow.revision # 0
  BY <1>k DEF Committing, EndOK
<1>3. WorkOK(p, state[c], i, r)'
  BY DEF WorkOK, Driving
<1>4. EndOK(c, p, i, o)' /\ ViewOK(p, v, i)'
  BY <1>k, <1>1 DEF EndOK, ViewOK
<1>5. CallOK(c, p, v, state[c], i, r, o)'
  BY <1>3, <1>4 DEF CallOK
<1>6. /\ p \in Label /\ ~DrivesAt(p, r) /\ v \in Nat
      /\ pc[c] \notin {"returned", "told", "raised"}
      /\ ~OwnsAt(pc[c], view[c], result[c])
  BY <1>1 DEF Label, DrivesAt, Driving, OwnsAt
<1>7. \A d \in Call \ {c} : pc[d] = "settle" /\ flow.status \notin Terminal =>
         agent'[inv[d]].status = agent[inv[d]].status
  BY <1>1
<1>8. /\ i \in 0..Agents /\ o \in OutValue /\ r \in ResultStatus \cup {"none"}
      /\ clock' \in 0..Deadline
  BY <1>k
<1>9. QED
  BY ZenonT(30), <1>5, <1>6, <1>7, <1>8, QuietStep

LEMMA PropagateStep == ASSUME Inv, NEW c \in Call, Propagate(c) PROVE Inv'
<1>1. /\ pc[c] = "propagate" /\ pc' = [pc EXCEPT ![c] = "told"] /\ flow' = flow /\ used' = used
      /\ state' = state /\ clock' = clock /\ view' = [view EXCEPT ![c] = view[c]]
      /\ inv' = [inv EXCEPT ![c] = inv[c]] /\ out' = [out EXCEPT ![c] = out[c]]
      /\ result' = [result EXCEPT ![c] = result[c]]
  BY DEF Propagate, Goto, store, local, Inv, TypeOK
<1>2. PICK i \in 1..Agents : i = inv[c]
  <2>1. inv[c] # 0 /\ inv[c] \in 0..Agents
    BY <1>1, Known DEF EndOK
  <2>2. QED
    BY <2>1, CallAssumption
<1>3. faults' \in 0..MaxFaults
  BY Known, CallAssumption DEF Propagate, Fault
<1>4. PICK b : b = agent[i]
  OBVIOUS
<1>5. /\ b \in RunRecord /\ b.calls \in Nat /\ b.cancel \in BOOLEAN
      /\ b.status \in {"none", "running"} \cup ResultStatus
      /\ b = [status |-> b.status, calls |-> b.calls, cancel |-> b.cancel]
      /\ agent = [agent EXCEPT ![i] = b]
  BY <1>4, KnownAgent
<1>6. /\ agent \in AgentRuns /\ AgentInv /\ UsageCountedOnce /\ recorded \in SUBSET (1..Agents)
  BY DEF Inv, TypeOK, AgentRuns
<1>7. ASSUME agent' = agent, recorded \subseteq recorded', recorded' \in SUBSET (1..Agents),
             Told(i)'
      PROVE  Inv'
  <2>1. AgentInv' /\ UsageCountedOnce' /\ (\A j \in 1..Agents : Told(j) => Told(j)')
    BY <1>1, <1>6, <1>7 DEF AgentInv, UsageCountedOnce, Told
  <2>2. QED
    BY Zenon, <1>1, <1>2, <1>3, <1>6, <1>7, <2>1, ToldStep
<1>8. ASSUME NEW a \in RunRecord, agent' = [agent EXCEPT ![i] = a], recorded' = recorded,
             b.status \in {"running", "waiting"}, a.calls = b.calls, b.cancel => a.cancel,
             a.cancel \/ a.status \in Terminal
      PROVE  Inv'
  <2>1. i <= Len(flow.inv)
    BY ZenonT(30), <1>4, <1>6, <1>8 DEF AgentInv
  <2>2. i \in 1..Len(flow.inv)
    <3>1. Len(flow.inv) \in Nat
      BY Known
    <3>2. QED
      BY <2>1, <3>1
  <2>3. flow.inv[i] # "completed"
    BY <1>4, <1>6, <1>8, <2>2 DEF AgentInv
  <2>4. b.status \notin Terminal /\ b.calls <= a.calls
    BY <1>5, <1>8 DEF Terminal, ErrorStatus
  <2>5. /\ agent' \in AgentRuns /\ AgentInv' /\ UsageCountedOnce'
        /\ \A j \in 1..Agents : Told(j) => Told(j)'
    BY Zenon, <1>1, <1>4, <1>8, <2>1, <2>3, <2>4, AgentStep
  <2>6. agent'[i] = a
    BY <1>6, <1>8 DEF AgentRuns
  <2>7. Told(i)'
    BY <1>8, <2>6 DEF Told
  <2>8. QED
    BY ZenonT(30), <1>1, <1>2, <1>3, <1>6, <1>8, <2>5, <2>7, ToldStep
<1>9. CASE recorded' = recorded \cup {inv[c]} /\ UNCHANGED agent
  <2>1. Told(i)'
    BY <1>2, <1>9 DEF Told
  <2>2. recorded \subseteq recorded' /\ recorded' \in SUBSET (1..Agents)
    BY Zenon, <1>2, <1>6, <1>9
  <2>3. QED
    BY <1>7, <1>9, <2>1, <2>2
<1>10. CASE agent[i].status \in Terminal /\ UNCHANGED <<agent, recorded>>
  <2>1. Told(i)'
    BY <1>10 DEF Told
  <2>2. QED
    BY <1>6, <1>7, <1>10, <2>1
<1>11. CASE /\ agent[i].status = "running" /\ agent' = [agent EXCEPT ![i].cancel = TRUE]
            /\ UNCHANGED recorded
  <2>0. PICK x : x = TRUE
    OBVIOUS
  <2>1. PICK a : a = [status |-> b.status, calls |-> b.calls, cancel |-> x]
    BY Zenon
  <2>2. a \in RunRecord /\ a.calls = b.calls /\ a.cancel
    BY <1>5, <2>0, <2>1 DEF RunRecord
  <2>3. [b EXCEPT !.cancel = x] = a
    BY <1>5, <2>1
  <2>4. agent' = [agent EXCEPT ![i] = a]
    <3>1. agent' = [agent EXCEPT ![i] = [b EXCEPT !.cancel = x]]
      BY <1>4, <1>11, <2>0
    <3>2. QED
      BY Zenon, <2>3, <3>1
  <2>5. QED
    BY Zenon, <1>4, <1>8, <1>11, <2>2, <2>4
<1>12. CASE /\ agent[i].status = "waiting" /\ agent' = [agent EXCEPT ![i].status = "cancelled"]
            /\ UNCHANGED recorded
  <2>1. PICK a : a = [status |-> "cancelled", calls |-> b.calls, cancel |-> b.cancel]
    BY Zenon
  <2>2. a \in RunRecord /\ a.calls = b.calls /\ a.cancel = b.cancel /\ a.status \in Terminal
    BY <1>5, <2>1 DEF RunRecord, ResultStatus, Terminal, ErrorStatus
  <2>3. [b EXCEPT !.status = "cancelled"] = a
    BY <1>5, <2>1
  <2>4. agent' = [agent EXCEPT ![i] = a]
    BY Zenon, <1>4, <1>12, <2>3
  <2>5. QED
    BY Zenon, <1>4, <1>8, <1>12, <2>2, <2>4
<1>13. QED
  BY <1>2, <1>9, <1>10, <1>11, <1>12 DEF Propagate, Tell
-----------------------------------------------------------------------------
\* The commits of the driver, and the one that makes a call the driver.

LEMMA SoleDriver ==
  ASSUME Inv, NEW c \in Call, pc[c] \in Driving \cup {"start", "begin", "complete"}
  PROVE  Driver(c) /\ \A d \in Call \ {c} : ~Driver(d)
BY DEF Inv, OnlyDriver, Driver, DrivesAt

\* What a commit finds: the guard that was tested when the Flow was read.
LEMMA CommitReady ==
  ASSUME Inv, NEW c \in Call, NEW at, Commits(c, at)
  PROVE  /\ pc[c] = at /\ view' = [view EXCEPT ![c] = 0] /\ Ready(at, inv[c])
         /\ TypeOK /\ AgentInv /\ UsageCountedOnce /\ flow \in FlowState /\ ValidState(flow)
         /\ used \in Seq(Nat) /\ Len(used) = Len(flow.inv) /\ Len(flow.inv) \in Nat
         /\ flow.revision \in Nat /\ flow.revision + 1 # 0
<1>1. pc[c] = at /\ view' = [view EXCEPT ![c] = 0] /\ view[c] # 0 /\ view[c] = flow.revision
  BY DEF Commits
<1>2. Ready(at, inv[c])
  BY <1>1, Known DEF ViewOK
<1>3. /\ TypeOK /\ AgentInv /\ UsageCountedOnce /\ flow \in FlowState /\ ValidState(flow)
      /\ used \in Seq(Nat) /\ Len(used) = Len(flow.inv)
  BY DEF Inv, TypeOK
<1>4. Len(flow.inv) \in Nat /\ flow.revision \in Nat /\ flow.revision + 1 # 0
  BY <1>3, FlowFields
<1>5. QED
  BY <1>1, <1>2, <1>3, <1>4

LEMMA RunStep == ASSUME Inv, NEW c \in Call, Run(c) PROVE Inv'
<1>1. /\ pc[c] = "idle" /\ Op[c] = "run" /\ flow = NoFlow /\ flow' = Created
      /\ pc' = [pc EXCEPT ![c] = "start"] /\ used' = used /\ agent' = agent
      /\ recorded' = recorded /\ clock' = clock /\ faults' = faults /\ result' = result
      /\ view' = view /\ state' = state /\ inv' = inv /\ out' = out
  BY ZenonT(30) DEF Run, Goto, local
<1>2. /\ view' = [view EXCEPT ![c] = 0] /\ state' = [state EXCEPT ![c] = state[c]]
      /\ inv' = [inv EXCEPT ![c] = 0] /\ out' = [out EXCEPT ![c] = "none"]
      /\ state[c] \in [n : Nat, used : Nat]
  BY <1>1, Known DEF Committing, EndOK
<1>3. /\ TypeOK /\ AgentInv /\ UsageCountedOnce /\ used \in Seq(Nat) /\ Len(used) = Len(flow.inv)
  BY DEF Inv, TypeOK
<1>4. /\ flow.revision = 0 /\ flow.inv = <<>> /\ flow.status \notin Terminal /\ Len(flow.inv) = 0
      /\ flow' \in FlowState /\ ValidState(flow') /\ flow'.revision = flow.revision + 1
      /\ flow'.status = "created" /\ flow'.inv = flow.inv /\ flow'.revision # 0
  BY <1>1, NoFlowFields, Statuses
<1>5. AgentInv' /\ UsageCountedOnce'
  BY <1>1, <1>3, <1>4 DEF AgentInv, UsageCountedOnce
<1>6. \A d \in Call : pc[d] = "idle"
  BY <1>4, Known DEF EndOK
<1>7. \A d \in Call : ~Driver(d)
  BY <1>6 DEF Driver, DrivesAt, Driving
<1>8. PICK p, i, o : p = "start" /\ i = 0 /\ o = "none"
  OBVIOUS
<1>10. PICK st \in [n : Nat, used : Nat] : st = state[c]
  BY <1>2
<1>11. WorkOK(p, st, i, result[c])'
  BY <1>4, <1>8 DEF WorkOK, Driving
<1>12. EndOK(c, p, i, o)'
  BY <1>1, <1>4, <1>8 DEF EndOK
<1>13. /\ p \in Label /\ i \in 0..Agents /\ o \in OutValue /\ OwnsAt(p, 0, result[c])
  BY <1>8, CallAssumption DEF Label, OutValue, OwnsAt
<1>16. /\ pc' = [pc EXCEPT ![c] = p] /\ view' = [view EXCEPT ![c] = 0]
       /\ state' = [state EXCEPT ![c] = st] /\ inv' = [inv EXCEPT ![c] = i]
       /\ out' = [out EXCEPT ![c] = o]
  BY Zenon, <1>1, <1>2, <1>8, <1>10
<1>14. /\ agent' = agent /\ recorded' = recorded /\ clock' = clock /\ faults' = faults
       /\ result' = result /\ used' \in Seq(Nat) /\ Len(used') = Len(flow'.inv)
       /\ Len(flow.inv) <= Len(flow'.inv)
  BY ZenonT(30), <1>1, <1>3, <1>4, SelfLeq
<1>15. QED
  BY ZenonT(30), <1>4, <1>5, <1>7, <1>11, <1>12, <1>13, <1>14, <1>16, CommitStep

LEMMA StartStep == ASSUME Inv, NEW c \in Call, Start(c) PROVE Inv'
<1>1. CASE Reads(c, "start", CanStart(flow))
  <2>1. Ready("start", inv[c])
    BY <1>1 DEF Reads, Ready
  <2>2. QED
    BY <1>1, <2>1, ReadsStep DEF Committing
<1>2. CASE Refused(c, "start", CanStart(flow))
  <2>1. flow.status \notin {"created", "running"}
    <3>1. pc[c] = "start" /\ ~CanStart(flow)
      BY <1>2 DEF Refused
    <3>2. flow.status \in {"created"} \cup Terminal
      BY <3>1, Known DEF WorkOK
    <3>3. QED
      BY <3>1, <3>2, Statuses DEF CanStart
  <2>2. QED
    BY <1>2, <2>1, RefusedStep DEF Committing
<1>3. CASE /\ Commits(c, "start") /\ flow' = Started(flow) /\ Copy(c, Started(flow), used)
           /\ Goto(c, "advance")
           /\ UNCHANGED <<used, agent, recorded, clock, inv, result, out, faults>>
  <2>1. /\ pc[c] = "start" /\ view' = [view EXCEPT ![c] = 0] /\ CanStart(flow)
        /\ AgentInv /\ UsageCountedOnce /\ flow \in FlowState /\ ValidState(flow)
        /\ used \in Seq(Nat) /\ Len(used) = Len(flow.inv) /\ Len(flow.inv) \in Nat
        /\ flow.revision \in Nat /\ flow.revision + 1 # 0
    BY ZenonT(30), <1>3, CommitReady DEF Ready
  <2>2. /\ flow' \in FlowState /\ ValidState(flow') /\ flow'.revision = flow.revision + 1
        /\ flow'.status = "running" /\ flow'.inv = <<>> /\ flow.inv = <<>> /\ flow'.active = 0
        /\ Len(flow'.inv) = 0
    BY ZenonT(30), <1>3, <2>1, StartedFlow
  <2>3. PICK st : st = [n |-> 0, used |-> Total(used)]
    BY Zenon
  <2>4. /\ st \in [n : Nat, used : Nat] /\ st.n = 0 /\ st.used = Total(used)
    BY <2>1, <2>3, TotalNat
  <2>5. PICK p, i, o : p = "advance" /\ i = inv[c] /\ o = out[c]
    OBVIOUS
  <2>6. /\ pc' = [pc EXCEPT ![c] = p] /\ state' = [state EXCEPT ![c] = st]
        /\ inv' = [inv EXCEPT ![c] = i] /\ out' = [out EXCEPT ![c] = o]
        /\ i \in 0..Agents /\ o \in OutValue /\ p \in Label /\ st \in [n : Nat, used : Nat]
    BY <1>3, <2>2, <2>3, <2>4, <2>5, Known DEF Goto, Copy, Label
  <2>7. AgentInv' /\ UsageCountedOnce'
    BY ZenonT(30), <1>3, <2>1, <2>2 DEF AgentInv, UsageCountedOnce
  <2>8. Between(st)'
    <3>1. \A j \in 1..Len(flow'.inv) : FALSE
      BY <2>2
    <3>2. used' = used
      BY Zenon, <1>3
    <3>3. QED
      BY Zenon, <2>2, <2>4, <3>1, <3>2 DEF Between
  <2>9. WorkOK(p, st, i, result[c])'
    BY Zenon, <2>5, <2>8 DEF WorkOK, Driving
  <2>10. EndOK(c, p, i, o)'
    BY <2>1, <2>2, <2>5, Known DEF EndOK
  <2>11. flow.status \notin Terminal /\ OwnsAt(p, 0, result[c])
    BY <2>1, <2>5, Statuses DEF CanStart, OwnsAt
  <2>12. /\ agent' = agent /\ recorded' = recorded /\ clock' = clock /\ faults' = faults
         /\ result' = result /\ used' \in Seq(Nat) /\ Len(used') = Len(flow'.inv)
         /\ Len(flow.inv) <= Len(flow'.inv)
    BY <1>3, <2>1, <2>2
  <2>13. Driver(c) /\ \A d \in Call \ {c} : ~Driver(d)
    BY <2>1, SoleDriver
  <2>14. /\ view' = [view EXCEPT ![c] = 0] /\ flow' \in FlowState /\ ValidState(flow')
         /\ flow'.revision = flow.revision + 1
    BY <2>1, <2>2
  <2>15. QED
    BY ZenonT(30), <2>6, <2>7, <2>9, <2>10, <2>11, <2>12, <2>13, <2>14, CommitStep
<1>4. QED
  BY <1>1, <1>2, <1>3 DEF Start

LEMMA BeginStep == ASSUME Inv, NEW c \in Call, Begin(c) PROVE Inv'
<1>1. CASE Reads(c, "begin", CanBegin(flow))
  <2>1. Ready("begin", inv[c])
    BY <1>1 DEF Reads, Ready
  <2>2. QED
    BY <1>1, <2>1, ReadsStep DEF Committing
<1>2. CASE Refused(c, "begin", CanBegin(flow))
  <2>1. flow.status \notin {"created", "running"}
    <3>1. pc[c] = "begin" /\ ~CanBegin(flow)
      BY <1>2 DEF Refused
    <3>2. flow.status \in Terminal \/ Between(state[c])
      BY <3>1, Known DEF WorkOK
    <3>3. state[c].n < MaxInvocations
      BY <3>1, Known DEF WorkOK
    <3>4. QED
      BY <3>1, <3>2, <3>3, Statuses DEF CanBegin, Between
  <2>2. QED
    BY <1>2, <2>1, RefusedStep DEF Committing
<1>3. CASE /\ Commits(c, "begin") /\ flow' = Begun(flow) /\ used' = Append(used, 0)
           /\ inv' = [inv EXCEPT ![c] = Len(flow.inv) + 1] /\ Goto(c, "invoke")
           /\ UNCHANGED <<agent, recorded, clock, state, result, out, faults>>
  <2>1. /\ pc[c] = "begin" /\ view' = [view EXCEPT ![c] = 0] /\ CanBegin(flow)
        /\ AgentInv /\ UsageCountedOnce /\ flow \in FlowState /\ ValidState(flow)
        /\ used \in Seq(Nat) /\ Len(used) = Len(flow.inv) /\ Len(flow.inv) \in Nat
        /\ flow.revision \in Nat /\ flow.revision + 1 # 0
    BY <1>3, CommitReady DEF Ready
  <2>2. /\ flow' \in FlowState /\ ValidState(flow') /\ flow'.revision = flow.revision + 1
        /\ flow'.status = "running" /\ flow'.active = Len(flow.inv) + 1
        /\ Len(flow'.inv) = Len(flow.inv) + 1 /\ flow'.inv[Len(flow.inv) + 1] = "running"
        /\ \A j \in 1..Len(flow.inv) : flow'.inv[j] = flow.inv[j]
    BY <1>3, <2>1, BegunFlow
  <2>3. flow.status \notin Terminal
    BY <2>1, Statuses DEF CanBegin
  <2>4. Between(state[c]) /\ state[c].n < Agents /\ state[c].used < MaxCalls
    BY <2>1, <2>3, Known DEF WorkOK
  <2>5. PICK p, i, o : p = "invoke" /\ i = Len(flow.inv) + 1 /\ o = out[c]
    OBVIOUS
  <2>6. PICK st \in [n : Nat, used : Nat] : st = state[c]
    BY Known
  <2>7. i \in 1..Agents /\ i \in 0..Agents /\ i \in 1..Len(flow'.inv)
    BY <2>1, <2>2, <2>4, <2>5, CallAssumption DEF Between
  <2>8. /\ pc' = [pc EXCEPT ![c] = p] /\ state' = [state EXCEPT ![c] = st]
        /\ inv' = [inv EXCEPT ![c] = i] /\ out' = [out EXCEPT ![c] = o]
        /\ o \in OutValue /\ p \in Label
    BY <1>3, <2>5, <2>6, Known DEF Goto, Label
  <2>9. /\ used' \in Seq(Nat) /\ Len(used') = Len(flow'.inv) /\ used'[i] = 0
        /\ \A j \in 1..Len(flow.inv) : used'[j] = used[j]
    BY <1>3, <2>1, <2>2, <2>5
  <2>10. Total(used') = Total(used)
    BY <1>3, <2>1, TotalAppend
  <2>11. AgentInv'
    <3>1. \A j \in 1..Len(flow.inv) : flow'.inv[j] = "completed"
      BY ZenonT(30), <2>2, <2>4 DEF Between
    <3>2. \A j \in 1..Len(flow'.inv) : j \in 1..Len(flow.inv) \/ j = i
      BY <2>1, <2>2, <2>5
    <3>3. \A j \in 1..Len(flow'.inv) : j < Len(flow'.inv) => flow'.inv[j] = "completed"
      BY <2>1, <2>2, <2>5, <3>1, <3>2
    <3>4. \A j \in 1..Len(flow'.inv) : flow'.inv[j] = "completed" => agent[j].status = "completed"
      BY <2>1, <2>2, <2>5, <3>2 DEF AgentInv
    <3>5. \A j \in 1..Agents : agent[j].status # "none" => j <= Len(flow'.inv)
      BY <2>1, <2>2 DEF AgentInv
    <3>6. Len(flow'.inv) <= Agents /\ flow'.revision # 0
      BY <2>1, <2>2, <2>5, <2>7, CallAssumption
    <3>7. QED
      BY <1>3, <3>3, <3>4, <3>5, <3>6 DEF AgentInv
  <2>12. UsageCountedOnce'
    <3>1. SUFFICES ASSUME NEW j \in 1..Len(used')
                   PROVE  /\ used'[j] <= agent[j].calls
                          /\ flow'.inv[j] \in {"completed", "waiting"} =>
                                used'[j] = agent[j].calls
      BY <1>3 DEF UsageCountedOnce
    <3>2. CASE j = i
      <4>1. agent[i].calls \in Nat
        BY <2>7, KnownAgent
      <4>2. QED
        BY <2>2, <2>5, <2>9, <3>2, <4>1
    <3>3. CASE j \in 1..Len(flow.inv)
      BY ZenonT(30), <2>1, <2>2, <2>9, <3>3 DEF UsageCountedOnce
    <3>4. QED
      BY <2>1, <2>2, <2>5, <2>9, <3>1, <3>2, <3>3
  <2>13. WorkOK(p, st, i, result[c])'
    <3>1. Total(used') < MaxCalls
      BY <2>4, <2>10 DEF Between
    <3>2. /\ i \in 1..Len(flow'.inv) /\ flow'.inv[i] = "running" /\ flow'.status = "running"
          /\ flow'.active = i
      BY <2>2, <2>5, <2>7
    <3>3. QED
      BY <2>5, <3>1, <3>2 DEF WorkOK, Driving
  <2>14. EndOK(c, p, i, o)'
    BY Zenon, <2>1, <2>2, <2>5, Known DEF EndOK
  <2>15. OwnsAt(p, 0, result[c])
    BY <2>5 DEF OwnsAt, Driving
  <2>16. /\ agent' = agent /\ recorded' = recorded /\ clock' = clock /\ faults' = faults
         /\ result' = result /\ Len(flow.inv) <= Len(flow'.inv)
         /\ view' = [view EXCEPT ![c] = 0]
    BY <1>3, <2>1, <2>2
  <2>17. Driver(c) /\ \A d \in Call \ {c} : ~Driver(d)
    BY <2>1, SoleDriver
  <2>18. QED
    BY ZenonT(30), <2>2, <2>3, <2>7, <2>8, <2>9, <2>11, <2>12, <2>13, <2>14, <2>15, <2>16,
       <2>17, CommitStep
<1>4. QED
  BY <1>1, <1>2, <1>3 DEF Begin
LEMMA CompleteStep == ASSUME Inv, NEW c \in Call, Complete(c) PROVE Inv'
<1>1. CASE Reads(c, "complete", CanComplete(flow))
  <2>1. Ready("complete", inv[c])
    BY Zenon, <1>1 DEF Reads, Ready
  <2>2. QED
    BY <1>1, <2>1, ReadsStep DEF Committing
<1>2. CASE Refused(c, "complete", CanComplete(flow))
  <2>1. flow.status \notin {"created", "running"}
    <3>1. pc[c] = "complete" /\ ~CanComplete(flow)
      BY <1>2 DEF Refused
    <3>2. flow.status \in Terminal \/ Between(state[c])
      BY <3>1, Known DEF WorkOK
    <3>3. state[c].n >= Agents
      BY <3>1, Known DEF WorkOK
    <3>4. Len(flow.inv) \in Nat
      BY Known
    <3>5. QED
      BY <3>1, <3>2, <3>3, <3>4, Statuses, CallAssumption DEF CanComplete, Between
  <2>2. QED
    BY <1>2, <2>1, RefusedStep DEF Committing
<1>3. CASE /\ Commits(c, "complete") /\ flow' = Completed(flow) /\ Returns(c, "completed")
           /\ UNCHANGED <<used, agent, recorded, clock, state, inv, result, faults>>
  <2>1. /\ pc[c] = "complete" /\ view' = [view EXCEPT ![c] = 0] /\ CanComplete(flow)
        /\ AgentInv /\ UsageCountedOnce /\ flow \in FlowState /\ ValidState(flow)
        /\ used \in Seq(Nat) /\ Len(used) = Len(flow.inv) /\ Len(flow.inv) \in Nat
        /\ flow.revision \in Nat /\ flow.revision + 1 # 0
    BY Zenon, <1>3, CommitReady DEF Ready
  <2>2. /\ flow' \in FlowState /\ ValidState(flow') /\ flow'.revision = flow.revision + 1
        /\ flow'.status = "completed" /\ flow'.inv = flow.inv
    BY <1>3, <2>1, CompletedFlow
  <2>3. flow.status \notin Terminal
    BY <2>1, Statuses DEF CanComplete
  <2>4. PICK p, i, o : p = "returned" /\ i = inv[c] /\ o = "completed"
    OBVIOUS
  <2>5. PICK st \in [n : Nat, used : Nat] : st = state[c]
    BY Known
  <2>6. /\ pc' = [pc EXCEPT ![c] = p] /\ state' = [state EXCEPT ![c] = st]
        /\ inv' = [inv EXCEPT ![c] = i] /\ out' = [out EXCEPT ![c] = o]
        /\ i \in 0..Agents
    BY <1>3, <2>4, <2>5, Known DEF Returns, Ends, Goto
  <2>7. p \in Label /\ o \in OutValue
    BY <2>4, Statuses DEF Label, OutValue
  <2>8. AgentInv' /\ UsageCountedOnce'
    BY ZenonT(30), <1>3, <2>1, <2>2 DEF AgentInv, UsageCountedOnce
  <2>9. WorkOK(p, st, i, result[c])'
    BY <2>4 DEF WorkOK, Driving
  <2>10. EndOK(c, p, i, o)'
    <3>1. Op[c] # "cancel"
      BY Zenon, <2>1, Known DEF EndOK
    <3>2. QED
      BY ZenonT(30), <2>1, <2>2, <2>4, <3>1 DEF EndOK
  <2>11. ~DrivesAt(p, result[c]) /\ flow'.status \notin {"created", "running"}
    BY <2>2, <2>4 DEF DrivesAt, Driving
  <2>12. /\ agent' = agent /\ recorded' = recorded /\ clock' = clock /\ faults' = faults
         /\ result' = result /\ used' \in Seq(Nat) /\ Len(used') = Len(flow'.inv)
         /\ Len(flow.inv) <= Len(flow'.inv) /\ view' = [view EXCEPT ![c] = 0]
    BY <1>3, <2>1, <2>2
  <2>13. Driver(c) /\ \A d \in Call \ {c} : ~Driver(d)
    BY <2>1, SoleDriver
  <2>14. QED
    BY ZenonT(30), <2>2, <2>3, <2>6, <2>7, <2>8, <2>9, <2>10, <2>11, <2>12, <2>13, CommitStep
<1>4. QED
  BY <1>1, <1>2, <1>3 DEF Complete

LEMMA ResumeInvocationStep == ASSUME Inv, NEW c \in Call, ResumeInvocation(c) PROVE Inv'
<1>1. CASE Reads(c, "resume", CanResume(flow, inv[c]))
  <2>1. Ready("resume", inv[c])
    BY Zenon, <1>1 DEF Reads, Ready
  <2>2. QED
    BY <1>1, <2>1, ReadsStep DEF Committing
<1>2. CASE Refused(c, "resume", CanResume(flow, inv[c]))
  BY <1>2, RefusedStep DEF Committing
<1>3. CASE /\ Commits(c, "resume") /\ flow' = Resumed(flow, inv[c])
           /\ Goto(c, "resume_transport")
           /\ UNCHANGED <<used, agent, recorded, clock, local, faults>>
  <2>1. /\ pc[c] = "resume" /\ view' = [view EXCEPT ![c] = 0] /\ CanResume(flow, inv[c])
        /\ AgentInv /\ UsageCountedOnce /\ flow \in FlowState /\ ValidState(flow)
        /\ used \in Seq(Nat) /\ Len(used) = Len(flow.inv) /\ Len(flow.inv) \in Nat
        /\ flow.revision \in Nat /\ flow.revision + 1 # 0
    BY Zenon, <1>3, CommitReady DEF Ready
  <2>2. PICK p, i, o : p = "resume_transport" /\ i = inv[c] /\ o = out[c]
    OBVIOUS
  <2>3. /\ flow' \in FlowState /\ ValidState(flow') /\ flow'.revision = flow.revision + 1
        /\ flow'.status = "running" /\ flow'.active = i /\ Len(flow'.inv) = Len(flow.inv)
        /\ i \in 1..Len(flow.inv) /\ flow'.inv[i] = "running"
        /\ \A j \in 1..Len(flow.inv) : j # i => flow'.inv[j] = flow.inv[j]
    BY <1>3, <2>1, <2>2, ResumedFlow
  <2>4. flow.status = "waiting" /\ flow.inv[i] = "waiting" /\ flow.status \notin Terminal
    BY <2>1, <2>2, Statuses DEF CanResume
  <2>5. PICK st \in [n : Nat, used : Nat] : st = state[c]
    BY Known
  <2>6. /\ pc' = [pc EXCEPT ![c] = p] /\ state' = [state EXCEPT ![c] = st]
        /\ inv' = [inv EXCEPT ![c] = i] /\ out' = [out EXCEPT ![c] = o]
        /\ i \in 0..Agents /\ o \in OutValue
    BY <1>3, <2>2, <2>5, Known DEF Goto, local
  <2>7. p \in Label /\ OwnsAt(p, 0, result[c])
    BY ZenonT(30), <2>2 DEF Label, OwnsAt, Driving
  <2>8. AgentInv'
    <3>1. \A j \in 1..Len(flow'.inv) : j < Len(flow'.inv) => flow'.inv[j] = "completed"
      BY ZenonT(30), <2>1, <2>3, <2>4 DEF AgentInv
    <3>2. \A j \in 1..Len(flow'.inv) : flow'.inv[j] = "completed" => agent[j].status = "completed"
      BY <2>1, <2>3, <2>4 DEF AgentInv
    <3>3. QED
      BY ZenonT(30), <1>3, <2>1, <2>3, <3>1, <3>2 DEF AgentInv
  <2>9. UsageCountedOnce'
    BY ZenonT(30), <1>3, <2>1, <2>3, <2>4 DEF UsageCountedOnce
  <2>10. WorkOK(p, st, i, result[c])'
    BY ZenonT(30), <2>2, <2>3 DEF WorkOK, Driving
  <2>11. EndOK(c, p, i, o)'
    BY Zenon, <2>1, <2>2, <2>3, Known DEF EndOK
  <2>12. \A d \in Call : ~Driver(d)
    <3>1. SUFFICES ASSUME NEW d \in Call, Driver(d) PROVE FALSE
      OBVIOUS
    <3>2. WorkOK(pc[d], state[d], inv[d], result[d])
      BY Known
    <3>3. QED
      BY Zenon, <2>4, <3>1, <3>2 DEF WorkOK, Driver, DrivesAt, Between
  <2>13. /\ agent' = agent /\ recorded' = recorded /\ clock' = clock /\ faults' = faults
         /\ result' = result /\ used' \in Seq(Nat) /\ Len(used') = Len(flow'.inv)
         /\ Len(flow.inv) <= Len(flow'.inv) /\ view' = [view EXCEPT ![c] = 0]
    BY <1>3, <2>1, <2>3 DEF local
  <2>14. QED
    BY ZenonT(30), <2>3, <2>4, <2>6, <2>7, <2>8, <2>9, <2>10, <2>11, <2>12, <2>13, CommitStep
<1>4. QED
  BY <1>1, <1>2, <1>3 DEF ResumeInvocation

LEMMA SettleStep == ASSUME Inv, NEW c \in Call, Settle(c) PROVE Inv'
<1>1. CASE Reads(c, "settle", CanSettle(flow, inv[c]))
  <2>1. Ready("settle", inv[c])
    BY ZenonT(30), <1>1 DEF Reads, Ready
  <2>2. QED
    BY <1>1, <2>1, ReadsStep DEF Committing
<1>2. CASE /\ pc[c] = "settle" /\ view[c] = 0 /\ ~CanSettle(flow, inv[c])
           /\ Goto(c, "race_check")
           /\ UNCHANGED <<store, agent, recorded, clock, view, local, faults>>
  BY <1>2, LateSettleStep
<1>3. CASE /\ Commits(c, "settle") /\ flow' = Settled(flow, inv[c], result[c])
           /\ used' = UsageOf(inv[c], agent[inv[c]].calls) /\ Copy(c, flow', used')
           /\ Goto(c, "settled")
           /\ UNCHANGED <<agent, recorded, clock, inv, result, out, faults>>
  <2>1. /\ pc[c] = "settle" /\ view' = [view EXCEPT ![c] = 0] /\ CanSettle(flow, inv[c])
        /\ AgentInv /\ UsageCountedOnce /\ flow \in FlowState /\ ValidState(flow)
        /\ used \in Seq(Nat) /\ Len(used) = Len(flow.inv) /\ Len(flow.inv) \in Nat
        /\ flow.revision \in Nat /\ flow.revision + 1 # 0
    BY Zenon, <1>3, CommitReady DEF Ready
  <2>2. PICK p, i, o, r : p = "settled" /\ i = inv[c] /\ o = out[c] /\ r = result[c]
    OBVIOUS
  <2>3. /\ flow.status \in {"running", "waiting"} /\ flow.status \notin Terminal
        /\ flow.inv[i] \in {"running", "waiting"}
    BY <2>1, <2>2, Statuses DEF CanSettle
  <2>4. r \in ResultStatus /\ agent[i].status = r
    BY <2>1, <2>2, <2>3, Known DEF WorkOK
  <2>5. /\ flow' \in FlowState /\ ValidState(flow') /\ flow'.revision = flow.revision + 1
        /\ flow'.status = IF r = "waiting" THEN "waiting" ELSE "running"
        /\ flow'.active = IF r = "waiting" THEN i ELSE 0
        /\ Len(flow'.inv) = Len(flow.inv) /\ i \in 1..Len(flow.inv) /\ flow'.inv[i] = r
        /\ \A j \in 1..Len(flow.inv) : j # i => flow'.inv[j] = flow.inv[j]
    <3>1. flow' = Settled(flow, i, r) /\ CanSettle(flow, i)
      BY Zenon, <1>3, <2>1, <2>2
    <3>2. flow \in FlowState /\ ValidState(flow) /\ r \in ResultStatus
      BY Zenon, <2>1, <2>4
    <3>3. PICK s, t : s = flow /\ t = flow'
      BY Zenon
    <3>4. /\ t \in FlowState /\ ValidState(t) /\ t.revision = s.revision + 1
          /\ t.status = IF r = "waiting" THEN "waiting" ELSE "running"
          /\ t.active = IF r = "waiting" THEN i ELSE 0
          /\ Len(t.inv) = Len(s.inv) /\ i \in 1..Len(s.inv) /\ t.inv[i] = r
          /\ \A j \in 1..Len(s.inv) : j # i => t.inv[j] = s.inv[j]
      BY <3>1, <3>2, <3>3, SettledFlow
    <3>5. QED
      BY Zenon, <3>3, <3>4
  <2>6. i \in 1..Agents
    BY <2>1, <2>2, DrivenAgent DEF Driving
  <2>7. agent[i].calls \in Nat
    BY <2>6, KnownAgent
  <2>8. /\ used' \in Seq(Nat) /\ Len(used') = Len(flow'.inv) /\ used'[i] = agent[i].calls
        /\ \A j \in 1..Len(used) : j # i => used'[j] = used[j]
    <3>1. used' = [used EXCEPT ![i] = agent[i].calls]
      BY Zenon, <1>3, <2>2 DEF UsageOf
    <3>2. i \in 1..Len(used) /\ Len(flow'.inv) = Len(used) /\ used \in Seq(Nat)
      BY Zenon, <2>1, <2>5
    <3>3. QED
      BY <2>7, <3>1, <3>2
  <2>9. \A j \in 1..Len(flow.inv) : j # i => flow.inv[j] = "completed"
    <3>1. i \in 1..Len(flow.inv) /\ Len(flow.inv) \in Nat
      BY Zenon, <2>1, <2>5
    <3>2. ~(i < Len(flow.inv))
      BY Zenon, <2>1, <2>3, <3>1 DEF AgentInv
    <3>3. i = Len(flow.inv)
      BY <3>1, <3>2
    <3>4. \A j \in 1..Len(flow.inv) : j # i => j < Len(flow.inv)
      BY <3>1, <3>3
    <3>5. QED
      BY Zenon, <2>1, <3>4 DEF AgentInv
  <2>10. AgentInv'
    <3>1. \A j \in 1..Len(flow'.inv) : j < Len(flow'.inv) => flow'.inv[j] = "completed"
      <4>1. SUFFICES ASSUME NEW j \in 1..Len(flow.inv), j < Len(flow.inv)
                     PROVE  flow'.inv[j] = "completed"
        BY Zenon, <2>5
      <4>2. flow.inv[j] = "completed" /\ flow.inv[i] # "completed"
        BY Zenon, <2>1, <2>3, <4>1 DEF AgentInv
      <4>3. QED
        BY Zenon, <2>5, <4>1, <4>2
    <3>2. \A j \in 1..Len(flow'.inv) : flow'.inv[j] = "completed" => agent[j].status = "completed"
      BY <2>1, <2>4, <2>5 DEF AgentInv
    <3>3. QED
      BY ZenonT(30), <1>3, <2>1, <2>5, <3>1, <3>2 DEF AgentInv
  <2>11. UsageCountedOnce'
    <3>1. SUFFICES ASSUME NEW j \in 1..Len(used')
                   PROVE  /\ used'[j] <= agent[j].calls
                          /\ flow'.inv[j] \in {"completed", "waiting"} =>
                                used'[j] = agent[j].calls
      BY Zenon, <1>3 DEF UsageCountedOnce
    <3>2. CASE j = i
      BY <2>7, <2>8, <3>2
    <3>3. CASE j # i
      <4>1. j \in 1..Len(used) /\ j \in 1..Len(flow.inv)
        BY ZenonT(30), <2>1, <2>5, <2>8, <3>1
      <4>2. QED
        BY ZenonT(30), <2>1, <2>5, <2>8, <3>3, <4>1 DEF UsageCountedOnce
    <3>4. QED
      BY <3>2, <3>3
  <2>12. PICK st : st = [n |-> Len(flow'.inv), used |-> Total(used')]
    BY ZenonT(30)
  <2>13. st \in [n : Nat, used : Nat] /\ st.n = Len(flow'.inv) /\ st.used = Total(used')
    BY Zenon, <2>1, <2>5, <2>8, <2>12, TotalNat
  <2>14. /\ pc' = [pc EXCEPT ![c] = p] /\ state' = [state EXCEPT ![c] = st]
         /\ inv' = [inv EXCEPT ![c] = i] /\ out' = [out EXCEPT ![c] = o]
         /\ i \in 0..Agents /\ o \in OutValue /\ st \in [n : Nat, used : Nat]
    BY <1>3, <2>2, <2>12, <2>13, Known DEF Goto, Copy
  <2>15. r = "completed" => Between(st)'
    BY ZenonT(30), <2>5, <2>9, <2>13 DEF Between
  <2>16. WorkOK(p, st, i, result[c])'
    <3>1. result'[c] = r
      BY ZenonT(30), <1>3, <2>2
    <3>2. QED
      BY ZenonT(30), <2>2, <2>4, <2>15, <3>1 DEF WorkOK, Driving
  <2>17. EndOK(c, p, i, o)'
    BY ZenonT(30), <2>1, <2>2, <2>5, Known DEF EndOK
  <2>18. p \in Label /\ (flow'.status \in {"created", "running"} => OwnsAt(p, 0, result[c]))
    BY ZenonT(30), <2>2, <2>5 DEF Label, OwnsAt
  <2>19. /\ agent' = agent /\ recorded' = recorded /\ clock' = clock /\ faults' = faults
         /\ result' = result /\ view' = [view EXCEPT ![c] = 0]
    BY ZenonT(30), <1>3, <2>1
  <2>21. /\ flow.status \notin Terminal /\ flow' \in FlowState /\ ValidState(flow')
         /\ flow'.revision = flow.revision + 1 /\ used' \in Seq(Nat)
         /\ Len(used') = Len(flow'.inv) /\ Len(flow.inv) <= Len(flow'.inv)
    BY <2>1, <2>3, <2>5, <2>8
  <2>20. Driver(c) /\ \A d \in Call \ {c} : ~Driver(d)
    BY Zenon, <2>1, SoleDriver DEF Driving
  <2>22. QED
    BY ZenonT(30), <2>10, <2>11, <2>14, <2>16, <2>17, <2>18, <2>19, <2>20, <2>21, CommitStep
<1>4. QED
  BY Zenon, <1>1, <1>2, <1>3 DEF Settle

-----------------------------------------------------------------------------
\* The commits that end the Flow.

LEMMA EndingStep ==
  ASSUME Inv, NEW c \in Call, NEW at \in {"interrupt", "outcome", "fail", "limit", "cancel"},
         \/ Reads(c, at, CanTerminate(flow))
         \/ Refused(c, at, CanTerminate(flow))
  PROVE  Inv'
<1>1. CASE Reads(c, at, CanTerminate(flow))
  <2>1. Ready(at, inv[c])
    BY Zenon, <1>1 DEF Reads, Ready
  <2>2. QED
    BY <1>1, <2>1, ReadsStep DEF Committing
<1>2. CASE Refused(c, at, CanTerminate(flow))
  <2>1. flow.status \notin {"created", "running"}
    BY <1>2, Statuses DEF Refused, CanTerminate
  <2>2. QED
    BY <1>2, <2>1, RefusedStep DEF Committing
<1>3. QED
  BY <1>1, <1>2

LEMMA EndedInCall ==
  ASSUME Inv, NEW c \in Call, pc[c] \in {"interrupt", "outcome", "fail", "limit"}
  PROVE  Op[c] # "cancel"
BY Known DEF EndOK

LEMMA InterruptStep == ASSUME Inv, NEW c \in Call, Interrupt(c) PROVE Inv'
<1>1. CASE Reads(c, "interrupt", CanTerminate(flow)) \/ Refused(c, "interrupt", CanTerminate(flow))
  BY <1>1, EndingStep
<1>2. CASE /\ Commits(c, "interrupt") /\ flow' = Terminated(flow, "interrupted")
           /\ Raises(c, "cancelled")
           /\ UNCHANGED <<used, agent, recorded, clock, state, inv, result, faults>>
  BY <1>2, TerminateStep DEF Raises, ErrorStatus
<1>3. QED
  BY <1>1, <1>2 DEF Interrupt

LEMMA EndFlowStep == ASSUME Inv, NEW c \in Call, EndFlow(c) PROVE Inv'
<1>1. CASE Reads(c, "outcome", CanTerminate(flow)) \/ Refused(c, "outcome", CanTerminate(flow))
  BY <1>1, EndingStep
<1>2. CASE /\ Commits(c, "outcome") /\ flow' = Terminated(flow, result[c])
           /\ Returns(c, result[c])
           /\ UNCHANGED <<used, agent, recorded, clock, state, inv, result, faults>>
  <2>1. pc[c] = "outcome"
    BY <1>2 DEF Commits
  <2>2. result[c] \in ErrorStatus /\ Op[c] # "cancel"
    BY <2>1, Known, EndedInCall DEF WorkOK
  <2>3. PICK e \in ErrorStatus : e = result[c]
    BY <2>2
  <2>4. flow' = Terminated(flow, e) /\ Ends(c, "returned", e)
    BY <1>2, <2>3 DEF Returns
  <2>5. QED
    BY <1>2, <2>2, <2>4, TerminateStep
<1>3. QED
  BY <1>1, <1>2 DEF EndFlow

LEMMA FailStep == ASSUME Inv, NEW c \in Call, Fail(c) PROVE Inv'
<1>1. CASE Reads(c, "fail", CanTerminate(flow)) \/ Refused(c, "fail", CanTerminate(flow))
  BY <1>1, EndingStep
<1>2. CASE /\ Commits(c, "fail") /\ flow' = Terminated(flow, "failed") /\ Returns(c, "failed")
           /\ UNCHANGED <<used, agent, recorded, clock, state, inv, result, faults>>
  <2>1. pc[c] = "fail"
    BY <1>2 DEF Commits
  <2>2. Op[c] # "cancel" /\ "failed" \in ErrorStatus
    BY <2>1, EndedInCall DEF ErrorStatus
  <2>3. QED
    BY <1>2, <2>2, TerminateStep DEF Returns
<1>3. QED
  BY <1>1, <1>2 DEF Fail

LEMMA WritesThenTellsStep ==
  ASSUME Inv, NEW c \in Call, NEW at \in {"limit", "cancel"}, NEW e \in ErrorStatus,
         WritesThenTells(c, at, e)
  PROVE  Inv'
<1>1. PICK p : p = IF inv[c] # 0 THEN "propagate" ELSE "returned"
  OBVIOUS
<1>2. /\ Ends(c, p, e)
      /\ \/ p = "propagate" /\ inv[c] # 0
         \/ p = "returned" /\ inv[c] = 0
  BY <1>1 DEF WritesThenTells
<1>3. QED
  BY <1>2, TerminateStep DEF WritesThenTells

LEMMA LimitStep == ASSUME Inv, NEW c \in Call, Limit(c) PROVE Inv'
BY EndingStep, WritesThenTellsStep DEF Limit, ErrorStatus

LEMMA CancelFlowStep == ASSUME Inv, NEW c \in Call, CancelFlow(c) PROVE Inv'
BY EndingStep, WritesThenTellsStep DEF CancelFlow, ErrorStatus
-----------------------------------------------------------------------------
\* The inductive invariant holds.

LEMMA TickStep == ASSUME Inv, Tick \/ UNCHANGED vars PROVE Inv'
<1>1. /\ flow' = flow /\ used' = used /\ agent' = agent /\ recorded' = recorded /\ pc' = pc
      /\ view' = view /\ state' = state /\ inv' = inv /\ result' = result /\ out' = out
      /\ faults' = faults
  BY DEF Tick, store, local, vars
<1>2. clock' \in 0..Deadline
  BY CallAssumption DEF Inv, TypeOK, Tick, vars
<1>3. TypeOK' /\ UsageCountedOnce' /\ AgentInv'
  BY <1>1, <1>2 DEF Inv, TypeOK, UsageCountedOnce, AgentInv
<1>4. OnlyDriver'
  BY <1>1 DEF Inv, OnlyDriver, Driver
<1>5. Owned'
  BY <1>1 DEF Inv, Owned, OwnsAt
<1>6. ASSUME NEW c \in Call PROVE CallInv(c)'
  <2>1. /\ ViewOK(pc[c], view[c], inv[c]) /\ WorkOK(pc[c], state[c], inv[c], result[c])
        /\ EndOK(c, pc[c], inv[c], out[c])
    BY Known
  <2>2. ViewOK(pc[c], view[c], inv[c])'
    BY ZenonT(30), <1>1, <2>1 DEF ViewOK, Ready
  <2>3. WorkOK(pc[c], state[c], inv[c], result[c])'
    BY ZenonT(30), <1>1, <2>1 DEF WorkOK, Between
  <2>4. EndOK(c, pc[c], inv[c], out[c])'
    BY Zenon, <1>1, <2>1 DEF EndOK, Told
  <2>5. QED
    BY ZenonT(30), <2>2, <2>3, <2>4 DEF CallInv, CallOK
<1>7. QED
  BY <1>3, <1>4, <1>5, <1>6 DEF Inv

LEMMA InvInit == ASSUME Init PROVE Inv
<1>1. /\ flow = NoFlow /\ used = <<>> /\ agent = [i \in 1..Agents |-> NoRun] /\ recorded = {}
      /\ clock = 0 /\ pc = [c \in Call |-> "idle"] /\ view = [c \in Call |-> 0]
      /\ state = [c \in Call |-> [n |-> 0, used |-> 0]] /\ inv = [c \in Call |-> 0]
      /\ result = [c \in Call |-> "none"] /\ out = [c \in Call |-> "none"] /\ faults = 0
  BY DEF Init
<1>2. /\ flow \in FlowState /\ ValidState(flow) /\ flow.revision = 0 /\ flow.inv = <<>>
      /\ Len(flow.inv) = 0 /\ flow.status = "created"
  BY <1>1, NoFlowFields
<1>3. used \in Seq(Nat) /\ Len(used) = 0
  BY <1>1
<1>4. agent \in AgentRuns /\ \A i \in 1..Agents : agent[i].status = "none"
  <2>1. NoRun \in RunRecord /\ NoRun.status = "none"
    BY DEF NoRun, RunRecord
  <2>2. QED
    BY <1>1, <2>1 DEF AgentRuns, RunRecord
<1>5. /\ clock \in 0..Deadline /\ faults \in 0..MaxFaults /\ 0 \in 0..Agents
      /\ pc \in [Call -> Label]
  BY <1>1, CallAssumption DEF Label
<1>6. TypeOK
  BY <1>1, <1>2, <1>3, <1>4, <1>5 DEF TypeOK, AgentRuns
<1>7. UsageCountedOnce /\ AgentInv
  BY <1>1, <1>2, <1>3, <1>4, CallAssumption DEF UsageCountedOnce, AgentInv
<1>8. OnlyDriver /\ Owned
  BY <1>1, <1>2 DEF OnlyDriver, Driver, DrivesAt, Driving, Owned
<1>9. ASSUME NEW c \in Call PROVE CallInv(c)
  <2>1. pc[c] = "idle" /\ view[c] = 0 /\ inv[c] = 0 /\ out[c] = "none"
    BY <1>1
  <2>2. ViewOK(pc[c], view[c], inv[c])
    BY <1>2, <2>1 DEF ViewOK
  <2>3. WorkOK(pc[c], state[c], inv[c], result[c])
    BY ZenonT(30), <2>1 DEF WorkOK, Driving
  <2>4. EndOK(c, pc[c], inv[c], out[c])
    BY ZenonT(30), <2>1 DEF EndOK
  <2>5. QED
    BY <2>2, <2>3, <2>4 DEF CallInv, CallOK
<1>10. QED
  BY <1>6, <1>7, <1>8, <1>9 DEF Inv

LEMMA InvNext == ASSUME Inv, [Next]_vars PROVE Inv'
<1>1. CASE Tick \/ UNCHANGED vars
  BY <1>1, TickStep
<1>2. ASSUME NEW c \in Call, Step(c) PROVE Inv'
  BY <1>2, StartStep, AdvanceStep, BeginStep, InvokeStep, CompleteStep, ResumeInvocationStep,
     ResumeAgentStep, TransportTimeoutStep, InterruptStep, SettleStep, OutcomeStep, EndFlowStep,
     RaceCheckStep, FailureCheckStep, FailStep, LimitCheckStep, LimitStep, CancelFlowStep,
     PropagateStep, ConflictStep DEF Step
<1>3. ASSUME NEW c \in Call,
             \/ Run(c) \/ Resume(c) \/ Cancel(c) \/ AgentRaises(c) \/ TaskCancelled(c)
             \/ \E r \in Results : AgentReturns(c, r)
      PROVE  Inv'
  BY <1>3, RunStep, ResumeStep, CancelStep, AgentRaisesStep, TaskCancelledStep, AgentReturnsStep
<1>4. ASSUME NEW i \in 1..Agents, AgentStarts(i) PROVE Inv'
  BY <1>4, AgentStartsStep
<1>5. QED
  BY <1>1, <1>2, <1>3, <1>4 DEF Next

LEMMA Invariant == Spec => []Inv
BY InvInit, InvNext, PTL DEF Spec

-----------------------------------------------------------------------------
\* Whatever calls race on a Flow, one of them at a time drives its Agents
\* (SequentialFlowStrategy._advance and _resume_waiting), in the order of the
\* definition, and the usage of every Agent is counted once.
THEOREM OneCallDrives == Spec => []DriverInv
<1>1. Inv => DriverInv
  <2>1. SUFFICES ASSUME Inv PROVE DriverInv
    OBVIOUS
  <2>2. AgentsInOrder
    <3>1. SUFFICES ASSUME NEW i \in 1..Agents, agent[i].status # "none", NEW j \in 1..(i - 1)
                   PROVE  agent[j].status = "completed"
      BY DEF AgentsInOrder
    <3>2. AgentInv /\ Len(flow.inv) \in Nat /\ Agents \in Nat
      BY <2>1, FlowFields, CallAssumption DEF Inv, TypeOK
    <3>3. i <= Len(flow.inv)
      BY ZenonT(30), <3>1, <3>2 DEF AgentInv
    <3>4. j \in 1..Len(flow.inv) /\ j < Len(flow.inv)
      BY <3>1, <3>2, <3>3
    <3>5. QED
      BY <3>2, <3>4 DEF AgentInv
  <2>3. OneDriver
    BY <2>1 DEF Inv, OnlyDriver, Driver, DrivesAt, Driving, OneDriver
  <2>4. QED
    BY <2>1, <2>2, <2>3 DEF Inv, DriverInv
<1>2. QED
  BY <1>1, Invariant, PTL

\* A call that returns after the Flow has ended returns the status the Flow ended
\* with, whichever call wrote it (_terminal_after_race).
THEOREM ResultsAgree == Spec => []ResultAgrees
<1>1. Inv => ResultAgrees
  <2>1. SUFFICES ASSUME Inv, NEW c \in Call, Returned(c), out[c] \in Terminal
                 PROVE  flow.status = out[c]
    BY DEF ResultAgrees
  <2>2. EndOK(c, pc[c], inv[c], out[c])
    BY <2>1, Known
  <2>3. QED
    BY <2>1, <2>2 DEF EndOK, Returned
<1>2. QED
  BY <1>1, Invariant, PTL

\* Whoever ends a Flow has told the Agent it saw at work, or recorded that it could
\* not (_propagate_cancellation), and a Flow in which nobody acts has ended or
\* waits unless a call was abandoned or met a TimeoutError without a deadline.
THEOREM NobodyLeftBehind == Spec => []NothingLeftBehind
<1>1. Inv => NothingLeftBehind
  <2>1. SUFFICES ASSUME Inv PROVE NothingLeftBehind
    OBVIOUS
  <2>2. ToldOrRecorded
    <3>1. SUFFICES ASSUME NEW c \in Call,
                          pc[c] = "told" \/ (Op[c] = "cancel" /\ Returned(c) /\ inv[c] # 0)
                   PROVE  Told(inv[c])
      BY DEF ToldOrRecorded, Told
    <3>2. EndOK(c, pc[c], inv[c], out[c])
      BY <2>1, Known
    <3>3. QED
      BY <3>1, <3>2 DEF EndOK, Returned
  <2>3. OnlyAbandonedIsStranded
    <3>1. SUFFICES ASSUME flow # NoFlow, \A c \in Call : pc[c] = "idle" \/ Ended(c),
                          ~\E c \in Call : out[c] \in {"abandoned", "assertion"},
                          flow.status \notin Terminal \cup {"waiting"}
                   PROVE  FALSE
      BY DEF OnlyAbandonedIsStranded
    <3>2. flow.revision # 0 /\ flow.status \in {"created", "running"}
      BY <2>1, <3>1, StoredFlow, FlowFields, Statuses DEF Inv, TypeOK
    <3>3. PICK c \in Call : OwnsAt(pc[c], view[c], result[c])
      BY <2>1, <3>1, <3>2 DEF Inv, Owned
    <3>4. pc[c] \in {"idle", "returned", "told", "raised"}
      BY <3>1 DEF Ended, Returned
    <3>5. QED
      BY <3>3, <3>4 DEF OwnsAt, Driving
  <2>4. QED
    BY <2>2, <2>3 DEF NothingLeftBehind
<1>2. QED
  BY <1>1, Invariant, PTL

\* No Agent is invoked once the usage reported to the Flow has reached the budget
\* (FlowBudgetPolicy.before_transport, tested in _advance before the invocation is
\* begun).
THEOREM InvokedWithinBudget == Spec => BudgetStopsInvoke
<1>1. ASSUME Inv, [Next]_vars
      PROVE  [\A c \in Call :
                 pc[c] = "invoke" /\ pc'[c] = "transport" => Total(used) < MaxCalls]_vars
  <2>1. SUFFICES ASSUME NEW c \in Call, pc[c] = "invoke" PROVE Total(used) < MaxCalls
    BY ZenonT(30)
  <2>2. WorkOK(pc[c], state[c], inv[c], result[c])
    BY <1>1, Known
  <2>3. QED
    BY ZenonT(30), <2>1, <2>2 DEF WorkOK
<1>2. QED
  BY <1>1, Invariant, PTL DEF Spec, BudgetStopsInvoke
=============================================================================
